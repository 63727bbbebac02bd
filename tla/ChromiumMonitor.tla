-------------------------- MODULE ChromiumMonitor --------------------------
(***************************************************************************)
(* The watchdog's monitor of the browser (feral-watchdog/chromium.go): a   *)
(* loop that asks Chromium for its version whenever the ticker fires,      *)
(* restarts the kiosk service when it has not answered for too long, and   *)
(* reboots the device when it had to do so too often.                      *)
(*                                                                         *)
(* Time is discrete.  A time the code remembers is kept as its age, which  *)
(* stops growing once it has passed the threshold the code compares it     *)
(* with, so that behaviours of any length are checked.  A request ends     *)
(* within a tick (its timeout is shorter than the check interval).         *)
(***************************************************************************)
EXTENDS Naturals, Sequences

CONSTANTS
  CheckInterval,  \* CHROMIUM_CHECK_INTERVAL
  HangThreshold,  \* CHROMIUM_HANG_THRESHOLD
  Window,         \* CHROMIUM_MAX_RESTARTS_WINDOW
  MaxRestarts,    \* CHROMIUM_MAX_RESTARTS_THRESHOLD = CHROMIUM_RESTART_HISTORY_SIZE
  CommandTime     \* longest time a systemctl command takes (external)

ASSUME DurationAssumption ==
  /\ CheckInterval \in Nat \ {0}
  /\ HangThreshold \in Nat /\ Window \in Nat /\ CommandTime \in Nat
  /\ HangThreshold <= Window
  /\ MaxRestarts \in Nat \ {0}

VARIABLES
  browser,   \* how Chromium answers: "up", "down", "half" (headers, no body)
  silence,   \* age of lastSuccessfulResp
  history,   \* ages of the restartHistory
  loop,      \* what the monitor does: "wait", "restart" or "reboot"
  busy,      \* age of the command it runs
  phase,     \* ticks since the ticker fired
  due,       \* the ticker has fired and the loop has not taken it yet
  restarted, \* history variable: ages of the last restarts that were executed
  rebooting  \* history variable: a reboot has been requested

vars == <<browser, silence, history, loop, busy, phase, due, restarted, rebooting>>

Ages(threshold) == 0 .. (threshold + 1)
Older(age, threshold) == IF age > threshold THEN age ELSE age + 1
AllOlder(ages) == [i \in DOMAIN ages |-> Older(ages[i], Window)]

\* Mutant: the newest entry replaces the last one.
KeepOldest(s, x, n) == IF Len(s) < n THEN Append(s, x) ELSE [s EXCEPT ![n] = x]

\* The last n of s followed by x (append, then drop the head if too long).
Keep(s, x, n) == IF Len(s) < n THEN Append(s, x) ELSE Append(Tail(s), x)

TypeOK ==
  /\ browser \in {"up", "down", "half"}
  /\ silence \in Ages(HangThreshold)
  /\ history \in Seq(Ages(Window)) /\ Len(history) <= MaxRestarts
  /\ loop \in {"wait", "restart", "reboot"}
  /\ busy \in 0 .. CommandTime
  /\ phase \in 0 .. (CheckInterval - 1)
  /\ due \in BOOLEAN
  /\ restarted \in Seq(Ages(Window)) /\ Len(restarted) <= MaxRestarts
  /\ rebooting \in BOOLEAN

\* lastSuccessfulResp is the zero time: longer ago than any threshold.
Init ==
  /\ browser = "up"  \* main has connected to Chromium before
  /\ silence = HangThreshold + 1
  /\ history = <<>>  /\ restarted = <<>>
  /\ loop = "wait"  /\ busy = 0
  /\ phase = 0  /\ due = FALSE
  /\ rebooting = FALSE

-----------------------------------------------------------------------------
\* The ticker's channel holds one firing; more are dropped while the loop is
\* busy.  A waiting loop takes a firing before more time passes.
Tick ==
  /\ ~(loop = "wait" /\ due)
  /\ loop # "wait" => busy < CommandTime
  /\ phase' = (phase + 1) % CheckInterval
  /\ due' = (due \/ phase' = 0)
  /\ silence' = Older(silence, HangThreshold)
  /\ history' = AllOlder(history)
  /\ restarted' = AllOlder(restarted)
  /\ busy' = IF loop = "wait" THEN 0 ELSE busy + 1
  /\ UNCHANGED <<browser, loop, rebooting>>

BrowserChanges(b) ==
  /\ browser' = b /\ b # browser
  /\ UNCHANGED <<silence, history, loop, busy, phase, due, restarted, rebooting>>

CheckAnswered ==
  /\ loop = "wait" /\ due /\ browser = "up"
  /\ due' = FALSE
  /\ silence' = 0
  /\ UNCHANGED <<browser, history, loop, busy, phase, restarted, rebooting>>

\* A status of 200 whose body cannot be read: check returns before anything else.
CheckCutShort ==
  /\ loop = "wait" /\ due /\ browser = "half"
  /\ due' = FALSE
  /\ UNCHANGED <<browser, silence, history, loop, busy, phase, restarted, rebooting>>

\* checkHangState: not silent for long enough.
CheckFailsEarly ==
  /\ loop = "wait" /\ due /\ browser = "down" /\ silence <= HangThreshold
  /\ due' = FALSE
  /\ UNCHANGED <<browser, silence, history, loop, busy, phase, restarted, rebooting>>

\* Mutant: one restart too few is enough.
TooManyRestartsEarly(h) == Len(h) >= MaxRestarts - 1 /\ h[1] <= Window

\* shouldTriggerReboot: the oldest restart kept is within the window.
TooManyRestarts(h) == Len(h) >= MaxRestarts /\ h[1] <= Window

\* checkHangState, restartChromium: the history decides between the commands.
CheckFindsHang ==
  /\ loop = "wait" /\ due /\ browser = "down" /\ silence > HangThreshold
  /\ due' = FALSE
  /\ history' = Keep(history, 0, MaxRestarts)
  /\ IF TooManyRestarts(history')
     THEN loop' = "reboot" /\ rebooting' = TRUE /\ UNCHANGED restarted
     ELSE /\ loop' = "restart" /\ UNCHANGED rebooting
          /\ restarted' = Keep(restarted, 0, MaxRestarts)
  /\ busy' = 0
  /\ UNCHANGED <<browser, silence, phase>>

\* Mutant: lastSuccessfulResp is not reset.
RestartReturnsStale ==
  /\ loop = "restart"
  /\ loop' = "wait" /\ busy' = 0
  /\ UNCHANGED <<browser, silence, history, phase, due, restarted, rebooting>>

\* restartKiosk returns, done, failed or skipped: lastSuccessfulResp is now.
RestartReturns ==
  /\ loop = "restart"
  /\ loop' = "wait" /\ busy' = 0
  /\ silence' = 0
  /\ UNCHANGED <<browser, history, phase, due, restarted, rebooting>>

\* rebootSystem returns, and the process is still there: nothing is reset.
RebootReturns ==
  /\ loop = "reboot"
  /\ loop' = "wait" /\ busy' = 0
  /\ UNCHANGED <<browser, silence, history, phase, due, restarted, rebooting>>

Monitor ==
  \/ CheckAnswered \/ CheckCutShort \/ CheckFailsEarly \/ CheckFindsHang
  \/ RestartReturns \/ RebootReturns

Next == Tick \/ Monitor \/ \E b \in {"up", "down", "half"} : BrowserChanges(b)

Spec == Init /\ [][Next]_vars

\* Time passes, and the loop takes what its ticker and its commands give it.
FairSpec == Spec /\ WF_vars(Tick) /\ WF_vars(Monitor)

-----------------------------------------------------------------------------
Begins(command) == loop = "wait" /\ loop' = command
Newest(ages) == ages[Len(ages)]

\* The kiosk is given time to come up: two restarts of this monitor are more
\* than the hang threshold apart, however long the first one took, whatever
\* the browser answered in between and even after a reboot that failed.
RestartsSpaced ==
  [][(Begins("restart") /\ restarted # <<>>) => Newest(restarted) > HangThreshold]_vars

\* The first reboot the monitor asks for follows restarts that it did execute,
\* all but one of the threshold, all of them within the window.
FirstRebootIsEarned ==
  [][(Begins("reboot") /\ ~rebooting) =>
        /\ Len(restarted) >= MaxRestarts - 1
        /\ MaxRestarts > 1 => restarted[Len(restarted) - MaxRestarts + 2] <= Window]_vars

\* A browser that stays down gets the device rebooted: no run of restarts, slow
\* or failing ones included, goes on for ever without reaching the last resort.
Escalates == <>[](browser = "down") => []<>(loop = "reboot")
=============================================================================
