----------------------------- MODULE GPUHandler -----------------------------
(***************************************************************************)
(* The watchdog's answer to a GPU hang (gpu.go): a reboot is scheduled on  *)
(* a timer, which a recovery signal cancels and replaces by a restart of   *)
(* the kiosk.  Signals arrive in goroutines of their own, the timer's      *)
(* callback runs in another one, and the commands of both go through the   *)
(* handler of Commands, shared with the other monitors.                    *)
(***************************************************************************)
EXTENDS Commands

CONSTANTS
  Signals,  \* goroutines that handle a D-Bus signal
  Timers,   \* timers made by time.AfterFunc, and their callbacks
  Others,   \* the other goroutines that run commands
  Delay     \* REBOOT_DELAY

ASSUME CallerAssumption ==
  /\ Callers = Signals \cup Timers \cup Others
  /\ Signals \cap Timers = {} /\ Others \cap (Signals \cup Timers) = {}
ASSUME DelayAssumption == Delay \in Nat \ {0}

VARIABLES
  scheduled,   \* rebootScheduled
  rebootTimer, \* rebootTimer: a timer or Nil
  timer,       \* state of each timer: "none", "armed", "fired"
  age,         \* ticks since it was armed
  signal,      \* where each signal's handler is
  stopping     \* the context of the process is cancelled

gpuVars == <<scheduled, rebootTimer, timer, age, signal, stopping>>
vars == <<commandVars, gpuVars>>

TypeOK ==
  /\ CommandTypeOK
  /\ scheduled \in BOOLEAN
  /\ rebootTimer \in Timers \cup {Nil}
  /\ timer \in [Timers -> {"none", "armed", "fired"}]
  /\ age \in [Timers -> 0 .. Delay]
  /\ signal \in [Signals -> {"idle", "cancel", "restart"}]
  /\ stopping \in BOOLEAN

Init ==
  /\ CommandInit
  /\ scheduled = FALSE /\ rebootTimer = Nil
  /\ timer = [t \in Timers |-> "none"] /\ age = [t \in Timers |-> 0]
  /\ signal = [s \in Signals |-> "idle"]
  /\ stopping = FALSE

Free(s) == signal[s] = "idle" /\ op[s] = Idle

\* Time passes for the armed timers, which fire on time.
Tick ==
  /\ \A t \in Timers : timer[t] = "armed" => age[t] < Delay
  /\ \E t \in Timers : timer[t] = "armed"
  /\ age' = [t \in Timers |-> IF timer[t] = "armed" THEN age[t] + 1 ELSE age[t]]
  /\ UNCHANGED <<commandVars, scheduled, rebootTimer, timer, signal, stopping>>

\* Mutant: a hang that is reported again gets a timer of its own.
HangSchedulesAgain(s, t) ==
  /\ Free(s)
  /\ timer[t] = "none" /\ op[t] = Idle
  /\ scheduled' = TRUE
  /\ rebootTimer' = t
  /\ timer' = [timer EXCEPT ![t] = "armed"]
  /\ age' = [age EXCEPT ![t] = 0]
  /\ UNCHANGED <<commandVars, signal, stopping>>

\* scheduleGPUReboot: nothing if a reboot is scheduled already.
HangSchedules(s, t) ==
  /\ Free(s) /\ ~scheduled
  /\ timer[t] = "none" /\ op[t] = Idle
  /\ scheduled' = TRUE
  /\ rebootTimer' = t
  /\ timer' = [timer EXCEPT ![t] = "armed"]
  /\ age' = [age EXCEPT ![t] = 0]
  /\ UNCHANGED <<commandVars, signal, stopping>>

\* handleGPURecovery copies rebootScheduled and gives the mutex back ...
RecoveryReads(s) ==
  /\ Free(s) /\ scheduled
  /\ signal' = [signal EXCEPT ![s] = "cancel"]
  /\ UNCHANGED <<commandVars, scheduled, rebootTimer, timer, age, stopping>>

\* cancelReboot: Stop succeeds only on a timer that has not fired.
CancelReboot ==
  IF scheduled /\ rebootTimer # Nil /\ timer[rebootTimer] = "armed"
  THEN /\ scheduled' = FALSE /\ rebootTimer' = Nil
       /\ timer' = [timer EXCEPT ![rebootTimer] = "none"]
  ELSE UNCHANGED <<scheduled, rebootTimer, timer>>

\* ... then cancels, and restarts the kiosk whether there was anything to cancel
\* by then or not.
RecoveryCancels(s) ==
  /\ signal[s] = "cancel"
  /\ CancelReboot
  /\ signal' = [signal EXCEPT ![s] = "restart"]
  /\ UNCHANGED <<commandVars, age, stopping>>

RecoveryRestarts(s) ==
  /\ signal[s] = "restart"
  /\ signal' = [signal EXCEPT ![s] = "idle"]
  /\ Calls(s, "restart")
  /\ UNCHANGED <<scheduled, rebootTimer, timer, age, stopping>>

TimerFires(t) ==
  /\ timer[t] = "armed" /\ age[t] = Delay
  /\ timer' = [timer EXCEPT ![t] = "fired"]
  /\ UNCHANGED <<commandVars, scheduled, rebootTimer, age, signal, stopping>>

\* The callback of a cancelled context leaves rebootScheduled as it is.
CallbackSkips(t) ==
  /\ timer[t] = "fired" /\ stopping
  /\ timer' = [timer EXCEPT ![t] = "none"]
  /\ UNCHANGED <<commandVars, scheduled, rebootTimer, age, signal, stopping>>

\* Mutant: the callback reboots and leaves the schedule as it is.
CallbackKeepsSchedule(t) ==
  /\ timer[t] = "fired" /\ ~stopping
  /\ timer' = [timer EXCEPT ![t] = "none"]
  /\ Calls(t, "reboot")
  /\ UNCHANGED <<scheduled, rebootTimer, age, signal, stopping>>

\* The callback clears the schedule under the mutex, then calls rebootSystem.
CallbackReboots(t) ==
  /\ timer[t] = "fired" /\ ~stopping
  /\ timer' = [timer EXCEPT ![t] = "none"]
  /\ scheduled' = FALSE /\ rebootTimer' = Nil
  /\ Calls(t, "reboot")
  /\ UNCHANGED <<age, signal, stopping>>

\* The process is told to end; main defers GracefulShutdown.
Shutdown ==
  /\ ~stopping /\ stopping' = TRUE
  /\ UNCHANGED <<commandVars, scheduled, rebootTimer, timer, age, signal>>

GracefulShutdown ==
  /\ stopping
  /\ CancelReboot
  /\ UNCHANGED <<commandVars, age, signal, stopping>>

\* The other monitors and the command handler go on.
CommandsGoOn ==
  /\ \/ \E c \in Callers : CommandStep(c)
     \/ \E o \in Others, command \in {"restart", "reboot", "clean"} : Calls(o, command)
  /\ UNCHANGED gpuVars

Next ==
  \/ Tick \/ Shutdown \/ GracefulShutdown \/ CommandsGoOn
  \/ \E s \in Signals :
       \/ \E t \in Timers : HangSchedules(s, t)
       \/ RecoveryReads(s) \/ RecoveryCancels(s) \/ RecoveryRestarts(s)
  \/ \E t \in Timers : TimerFires(t) \/ CallbackSkips(t) \/ CallbackReboots(t)

Spec == Init /\ [][Next]_vars

\* Time passes, timers fire, goroutines run, commands end and mutexes are served.
FairSpec ==
  /\ Spec
  /\ WF_vars(Tick)
  /\ \A t \in Timers : WF_vars(TimerFires(t)) /\ WF_vars(CallbackSkips(t) \/ CallbackReboots(t))
  /\ \A s \in Signals : WF_vars(RecoveryCancels(s) \/ RecoveryRestarts(s))
  /\ \A c \in Callers : SF_vars(Locks(c) /\ UNCHANGED gpuVars) /\ WF_vars(Ends(c) /\ UNCHANGED gpuVars)

-----------------------------------------------------------------------------
\* A timer that may still fire is the one rebootTimer names, and rebootScheduled
\* is set: a recovery can cancel it, and no second timer was ever started.
ArmedIsReachable ==
  \A t \in Timers : timer[t] \in {"armed", "fired"} => scheduled /\ rebootTimer = t

\* rebootScheduled is never left set without a timer, which would make the
\* watchdog ignore every later hang; only a process that is ending does that.
ScheduleHasTimer ==
  scheduled => \/ stopping
               \/ rebootTimer # Nil /\ timer[rebootTimer] \in {"armed", "fired"}

\* The schedule and the timers agree: what may still fire can be cancelled, and
\* what is scheduled will fire (gpu.go:46-104).
ScheduleMatchesTimer == ArmedIsReachable /\ ScheduleHasTimer

\* A hang leads to a reboot command, unless the GPU recovers before the timer
\* fires or the process is told to end: neither the goroutine that holds the
\* commands' mutex nor a recovery that came too late prevents it.
HangIsActedOn ==
  \A t \in Timers :
     timer[t] = "fired" ~> (op[t] = <<"reboot", "runs">> \/ stopping)
=============================================================================
