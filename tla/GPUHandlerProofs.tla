-------------------------- MODULE GPUHandlerProofs --------------------------
(***************************************************************************)
(* The command handler and the GPU reboot for any number of signals,       *)
(* timers and other monitors, and any delay.  What the properties of the   *)
(* command handler lack to be inductive is that a flag has one owner, and  *)
(* that a reboot command is run by who holds the mutex.                    *)
(***************************************************************************)
EXTENDS GPUHandler, TLAPS

Owns(c, k) == op[c] \in {<<k, "runs">>, <<k, "ended">>}

\* Each flag is set exactly while one caller has to give it back.
OwnerInv ==
  /\ FlagHasOwner
  /\ \A c, d \in Callers : \A k \in Flagged : Owns(c, k) /\ Owns(d, k) => c = d
  /\ \A c \in Callers : op[c] = <<"reboot", "runs">> => mu = c

CommandInv == CommandTypeOK /\ OwnerInv

GPUTypeOK ==
  /\ rebootTimer \in Timers \cup {Nil}
  /\ timer \in [Timers -> {"none", "armed", "fired"}]
  /\ age \in [Timers -> 0 .. Delay]
  /\ signal \in [Signals -> {"idle", "cancel", "restart"}]
  /\ scheduled \in BOOLEAN /\ stopping \in BOOLEAN

ScheduleInv == GPUTypeOK /\ ArmedIsReachable /\ ScheduleHasTimer

USE NilAssumption, CallerAssumption, DelayAssumption

LEMMA TypeOKParts == TypeOK <=> CommandTypeOK /\ GPUTypeOK
  BY DEF TypeOK, GPUTypeOK

-----------------------------------------------------------------------------
\* The command handler: a new call, and each step of a call.
LEMMA CallsKeepCommandInv ==
  ASSUME CommandInv, NEW c \in Callers, NEW command \in {"restart", "reboot", "clean"},
         Calls(c, command)
  PROVE  CommandInv'
<1> USE DEF CommandInv, CommandTypeOK, Idle, Flagged, Ops, Calls, Moves
<1>1. CommandTypeOK'
  OBVIOUS
<1>2. OwnerInv'
  BY DEF OwnerInv, FlagHasOwner, Owns
<1> QED
  BY <1>1, <1>2

LEMMA StepsKeepCommandInv ==
  ASSUME CommandInv, NEW c \in Callers, CommandStep(c)
  PROVE  CommandInv'
<1> USE DEF CommandInv, CommandTypeOK, OwnerInv, FlagHasOwner, Owns, Idle, Flagged, Ops, Moves
<1>1. ASSUME NEW k \in Flagged, Enters(c, k) PROVE CommandInv'
  BY <1>1 DEF Enters
<1>2. ASSUME NEW k \in Flagged, Skips(c, k) PROVE CommandInv'
  BY <1>2 DEF Skips
<1>3. ASSUME NEW k \in Flagged, CommandEnds(c, k) PROVE CommandInv'
  BY <1>3 DEF CommandEnds
<1>4. ASSUME NEW k \in Flagged, Leaves(c, k) PROVE CommandInv'
  BY <1>4 DEF Leaves
<1>5. CASE RebootEnters(c)
  BY <1>5 DEF RebootEnters
<1>6. CASE RebootFails(c)
  BY <1>6 DEF RebootFails
<1> HIDE DEF CommandInv
<1> QED
  BY <1>1, <1>2, <1>3, <1>4, <1>5, <1>6 DEF CommandStep, Locks, Ends

\* Whatever the GPU handler does, it uses the commands only by calling them.
LEMMA NextKeepsCommandInv ==
  ASSUME CommandInv, [Next]_vars
  PROVE  CommandInv'
<1>1. CASE UNCHANGED commandVars
  BY <1>1 DEF commandVars, CommandInv, CommandTypeOK, OwnerInv, FlagHasOwner, Owns
<1>2. ASSUME NEW s \in Signals, RecoveryRestarts(s)
      PROVE  CommandInv'
  BY <1>2, CallsKeepCommandInv DEF RecoveryRestarts
<1>3. ASSUME NEW t \in Timers, CallbackReboots(t)
      PROVE  CommandInv'
  BY <1>3, CallsKeepCommandInv DEF CallbackReboots
<1>4. CASE CommandsGoOn
  BY <1>4, CallsKeepCommandInv, StepsKeepCommandInv DEF CommandsGoOn
<1> QED
  BY <1>1, <1>2, <1>3, <1>4
  DEF Next, vars, Tick, Shutdown, GracefulShutdown, HangSchedules, RecoveryReads, RecoveryCancels,
      TimerFires, CallbackSkips

-----------------------------------------------------------------------------
\* The schedule: one case per action of the GPU handler.
LEMMA NextKeepsScheduleInv ==
  ASSUME ScheduleInv, [Next]_vars
  PROVE  ScheduleInv'
<1> USE DEF ScheduleInv, GPUTypeOK, ArmedIsReachable, ScheduleHasTimer
<1>1. CASE Tick
  BY <1>1 DEF Tick
<1>2. CASE Shutdown
  BY <1>2 DEF Shutdown
<1>3. CASE GracefulShutdown
  BY <1>3 DEF GracefulShutdown, CancelReboot
<1>4. CASE CommandsGoOn
  BY <1>4 DEF CommandsGoOn, gpuVars
<1>5. ASSUME NEW s \in Signals, NEW t \in Timers, HangSchedules(s, t)
      PROVE  ScheduleInv'
  BY <1>5 DEF HangSchedules
<1>6. ASSUME NEW s \in Signals, RecoveryReads(s)
      PROVE  ScheduleInv'
  BY <1>6 DEF RecoveryReads
<1>7. ASSUME NEW s \in Signals, RecoveryCancels(s)
      PROVE  ScheduleInv'
  BY <1>7 DEF RecoveryCancels, CancelReboot
<1>8. ASSUME NEW s \in Signals, RecoveryRestarts(s)
      PROVE  ScheduleInv'
  BY <1>8 DEF RecoveryRestarts
<1>9. ASSUME NEW t \in Timers, TimerFires(t)
      PROVE  ScheduleInv'
  BY <1>9 DEF TimerFires
<1>10. ASSUME NEW t \in Timers, CallbackSkips(t)
       PROVE  ScheduleInv'
  BY <1>10 DEF CallbackSkips
<1>11. ASSUME NEW t \in Timers, CallbackReboots(t)
       PROVE  ScheduleInv'
  BY <1>11 DEF CallbackReboots
<1>12. CASE UNCHANGED vars
  BY <1>12 DEF vars, gpuVars
<1> HIDE DEF ScheduleInv
<1> QED
  BY <1>1, <1>2, <1>3, <1>4, <1>5, <1>6, <1>7, <1>8, <1>9, <1>10, <1>11, <1>12 DEF Next

\* Both invariants hold when the watchdog starts.
LEMMA Initially == Init => CommandInv /\ ScheduleInv
<1> SUFFICES ASSUME Init PROVE CommandInv /\ ScheduleInv
  OBVIOUS
<1>1. CommandInv
  BY DEF Init, CommandInit, CommandInv, CommandTypeOK, OwnerInv, FlagHasOwner, Owns, Idle,
         Flagged, Ops
<1>2. GPUTypeOK
  <2>1. age \in [Timers -> 0 .. Delay]
    BY DEF Init
  <2>2. signal \in [Signals -> {"idle", "cancel", "restart"}]
    BY DEF Init
  <2>3. timer \in [Timers -> {"none", "armed", "fired"}] /\ rebootTimer \in Timers \cup {Nil}
    BY DEF Init
  <2>4. scheduled \in BOOLEAN /\ stopping \in BOOLEAN
    BY DEF Init
  <2> QED
    BY <2>1, <2>2, <2>3, <2>4 DEF GPUTypeOK
<1>3. ArmedIsReachable /\ ScheduleHasTimer
  BY DEF Init, ArmedIsReachable, ScheduleHasTimer
<1> QED
  BY <1>1, <1>2, <1>3 DEF ScheduleInv

\* The two invariants do not need each other.
THEOREM Inductive == Spec => [](CommandInv /\ ScheduleInv)
  BY Initially, NextKeepsCommandInv, NextKeepsScheduleInv, PTL DEF Spec

\* Every variable of the handlers keeps its type.
THEOREM TypeCorrect == Spec => []TypeOK
<1>1. CommandInv /\ ScheduleInv => TypeOK
  BY TypeOKParts DEF CommandInv, ScheduleInv
<1> QED
  BY Inductive, <1>1, PTL

\* No command runs twice at once.
THEOREM CommandsExclude == Spec => []OneAtATime
<1>1. CommandInv => OneAtATime
  <2> SUFFICES ASSUME CommandInv, NEW c \in Callers, NEW d \in Callers,
                      NEW k \in Flagged \cup {"reboot"},
                      op[c] = <<k, "runs">>, op[d] = <<k, "runs">>
               PROVE  c = d
    BY DEF OneAtATime
  <2>1. CASE k = "reboot"
    BY <2>1 DEF CommandInv, OwnerInv
  <2>2. CASE k \in Flagged
    BY <2>2 DEF CommandInv, OwnerInv, Owns
  <2> QED
    BY <2>1, <2>2
<1> QED
  BY Inductive, <1>1, PTL

\* Neither isRestartingKiosk nor isCleaningDisk is ever left behind.
THEOREM FlagIsReturned == Spec => []FlagHasOwner
<1>1. CommandInv => FlagHasOwner
  BY DEF CommandInv, OwnerInv
<1> QED
  BY Inductive, <1>1, PTL

\* A timer that may fire can be cancelled, and a schedule has a timer.
THEOREM ScheduleIsConsistent == Spec => []ScheduleMatchesTimer
<1>1. ScheduleInv => ScheduleMatchesTimer
  BY DEF ScheduleInv, ScheduleMatchesTimer
<1> QED
  BY Inductive, <1>1, PTL
=============================================================================
