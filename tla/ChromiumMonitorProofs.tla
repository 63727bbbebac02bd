----------------------- MODULE ChromiumMonitorProofs -----------------------
(***************************************************************************)
(* What the browser monitor promises, for every choice of its thresholds.  *)
(***************************************************************************)
EXTENDS ChromiumMonitor, TLAPS

USE DurationAssumption

\* The sequences of ages the monitor keeps.
History == {h \in Seq(Ages(Window)) : Len(h) <= MaxRestarts}

\* Growing older keeps a history, its length, and what happened before what.
LEMMA AllOlderKeeps ==
  ASSUME NEW h \in History
  PROVE  /\ AllOlder(h) \in History
         /\ Len(AllOlder(h)) = Len(h)
         /\ \A i \in 1 .. Len(h) : AllOlder(h)[i] = Older(h[i], Window)
<1>1. h \in Seq(Ages(Window)) /\ Len(h) <= MaxRestarts
  BY DEF History
<1>2. \A i \in 1 .. Len(h) : h[i] \in Ages(Window)
  BY <1>1
<1>3. \A a \in Ages(Window) : Older(a, Window) \in Ages(Window)
  BY DEF Ages, Older
<1>4. DOMAIN h = 1 .. Len(h) /\ Len(h) \in Nat
  BY <1>1
<1>5. AllOlder(h) = [i \in 1 .. Len(h) |-> Older(h[i], Window)]
  BY <1>4 DEF AllOlder
<1>6. \A i \in 1 .. Len(h) : AllOlder(h)[i] \in Ages(Window)
  BY <1>2, <1>3, <1>5
<1>7. AllOlder(h) \in Seq(Ages(Window)) /\ Len(AllOlder(h)) = Len(h)
  BY <1>4, <1>5, <1>6
<1> QED
  BY <1>1, <1>5, <1>7 DEF History

\* Keep appends, and forgets the oldest entry of a full history.
LEMMA KeepAppends ==
  ASSUME NEW h \in History
  PROVE  LET k == Keep(h, 0, MaxRestarts) IN
         /\ k \in History /\ k # <<>> /\ k[Len(k)] = 0
         /\ Len(h) < MaxRestarts =>
              /\ Len(k) = Len(h) + 1
              /\ \A i \in 1 .. Len(h) : k[i] = h[i]
         /\ Len(h) = MaxRestarts =>
              /\ Len(k) = MaxRestarts
              /\ \A i \in 1 .. (Len(h) - 1) : k[i] = h[i + 1]
<1>1. h \in Seq(Ages(Window)) /\ Len(h) <= MaxRestarts /\ Len(h) \in Nat
  BY DEF History
<1>2. 0 \in Ages(Window)
  BY DEF Ages
<1>3. CASE Len(h) < MaxRestarts
  <2>1. Keep(h, 0, MaxRestarts) = Append(h, 0)
    BY <1>3 DEF Keep
  <2> QED
    BY <1>1, <1>2, <1>3, <2>1 DEF History
<1>4. CASE Len(h) = MaxRestarts
  <2>1. Keep(h, 0, MaxRestarts) = Append(Tail(h), 0)
    BY <1>4 DEF Keep
  <2>2. /\ Tail(h) \in Seq(Ages(Window)) /\ Len(Tail(h)) = MaxRestarts - 1
        /\ \A i \in 1 .. (Len(h) - 1) : Tail(h)[i] = h[i + 1]
    BY <1>1, <1>4
  <2> QED
    BY <1>1, <1>2, <1>4, <2>1, <2>2 DEF History
<1> QED
  BY <1>1, <1>3, <1>4

-----------------------------------------------------------------------------
\* What the code remembers and where its loop is.
Remembered ==
  /\ browser \in {"up", "down", "half"}
  /\ silence \in Ages(HangThreshold)
  /\ history \in History /\ restarted \in History
  /\ loop \in {"wait", "restart", "reboot"}
  /\ busy \in 0 .. CommandTime /\ phase \in 0 .. (CheckInterval - 1)

Flags == due \in BOOLEAN /\ rebooting \in BOOLEAN

\* Once the restart has returned, the browser has not been silent for longer
\* than since that restart.
Spacing ==
  (restarted # <<>> /\ loop # "restart") => silence <= Newest(restarted)

\* Until the first reboot, restartHistory holds restarts that were executed.
Executed == rebooting = FALSE => history = restarted

IInv == Remembered /\ Flags /\ Spacing /\ Executed

LEMMA TypeOKParts == Remembered /\ Flags => TypeOK
  BY DEF TypeOK, Remembered, Flags, History

LEMMA Initially == Init => IInv
<1> SUFFICES ASSUME Init PROVE IInv
  OBVIOUS
<1>1. Remembered
  <2>1. <<>> \in History
    BY DEF History
  <2> QED
    BY <2>1 DEF Init, Remembered, Ages
<1>2. Flags
  BY DEF Init, Flags
<1>3. Spacing /\ Executed
  BY DEF Init, Spacing, Executed
<1> QED
  BY <1>1, <1>2, <1>3 DEF IInv

\* Every step preserves the invariant.
LEMMA StepKeepsIInv ==
  ASSUME IInv, Next
  PROVE  IInv'
<1> USE DEF IInv
<1>1. CASE Tick
  <2>1. /\ AllOlder(history) \in History /\ AllOlder(restarted) \in History
        /\ restarted' # <<>> => restarted # <<>> /\ Newest(restarted') = Older(Newest(restarted), Window)
        /\ restarted # <<>> => Newest(restarted) \in Ages(Window)
    <3>1. history \in History /\ restarted \in History
      BY DEF Remembered
    <3>2. Len(restarted) \in Nat /\ (restarted # <<>> => Len(restarted) \in 1 .. Len(restarted))
      BY <3>1 DEF History
    <3>3. restarted' = AllOlder(restarted)
      BY <1>1 DEF Tick
    <3>4. /\ AllOlder(restarted) \in History /\ Len(AllOlder(restarted)) = Len(restarted)
          /\ \A i \in 1 .. Len(restarted) : AllOlder(restarted)[i] = Older(restarted[i], Window)
      BY <3>1, AllOlderKeeps
    <3>5. restarted = <<>> => AllOlder(restarted) = <<>>
      BY <3>1, <3>4 DEF History
    <3>6. restarted # <<>> => Newest(restarted) \in Ages(Window)
      BY <3>1, <3>2 DEF History, Newest
    <3> QED
      BY <3>1, <3>2, <3>3, <3>4, <3>5, <3>6, AllOlderKeeps DEF Newest
  <2>2. (phase + 1) % CheckInterval \in 0 .. (CheckInterval - 1)
    BY DEF Remembered
  <2>3. Remembered'
    BY <1>1, <2>1, <2>2 DEF Tick, Remembered, Ages, Older
  <2>4. Flags'
    BY <1>1 DEF Tick, Flags
  <2>5. Spacing'
    BY <1>1, <2>1 DEF Tick, Remembered, Spacing, Ages, Older
  <2>6. Executed'
    BY <1>1 DEF Tick, Executed
  <2> QED
    BY <2>3, <2>4, <2>5, <2>6
<1>2. ASSUME NEW b \in {"up", "down", "half"}, BrowserChanges(b)
      PROVE  IInv'
  <2>1. Remembered' /\ Spacing' /\ Executed'
    BY <1>2 DEF BrowserChanges, Remembered, Spacing, Executed
  <2>2. Flags'
    BY <1>2 DEF BrowserChanges, Flags
  <2> QED
    BY <2>1, <2>2
<1>3. CASE CheckAnswered
  <2>1. restarted # <<>> => Newest(restarted) \in Nat
    BY DEF Remembered, History, Newest, Ages
  <2>2. Remembered' /\ Spacing' /\ Executed'
    BY <1>3, <2>1 DEF CheckAnswered, Remembered, Ages, Spacing, Executed
  <2>3. Flags'
    BY <1>3 DEF CheckAnswered, Flags
  <2> QED
    BY <2>2, <2>3
<1>4. CASE CheckCutShort \/ CheckFailsEarly
  <2>1. Remembered' /\ Spacing' /\ Executed'
    BY <1>4 DEF CheckCutShort, CheckFailsEarly, Remembered, Spacing, Executed
  <2>2. Flags'
    BY <1>4 DEF CheckCutShort, CheckFailsEarly, Flags
  <2> QED
    BY <2>1, <2>2
<1>5. CASE CheckFindsHang
  <2>1. Keep(history, 0, MaxRestarts) \in History /\ Keep(restarted, 0, MaxRestarts) \in History
    BY KeepAppends DEF Remembered
  <2>2. Remembered'
    BY <1>5, <2>1 DEF CheckFindsHang, Remembered
  <2>3. Flags' /\ Executed'
    BY <1>5 DEF CheckFindsHang, Flags, Executed
  <2>4. Spacing'
    BY <1>5 DEF CheckFindsHang, Spacing
  <2> QED
    BY <2>2, <2>3, <2>4
<1>6. CASE RestartReturns
  <2>1. restarted # <<>> => Newest(restarted) \in Nat
    BY DEF Remembered, History, Newest, Ages
  <2>2. Remembered' /\ Spacing' /\ Executed'
    BY <1>6, <2>1 DEF RestartReturns, Remembered, Ages, Spacing, Executed
  <2>3. Flags'
    BY <1>6 DEF RestartReturns, Flags
  <2> QED
    BY <2>2, <2>3
<1>7. CASE RebootReturns
  <2>1. Remembered' /\ Spacing' /\ Executed'
    BY <1>7 DEF RebootReturns, Remembered, Spacing, Executed
  <2>2. Flags'
    BY <1>7 DEF RebootReturns, Flags
  <2> QED
    BY <2>1, <2>2
<1> QED
  BY <1>1, <1>2, <1>3, <1>4, <1>5, <1>6, <1>7 DEF Next, Monitor

LEMMA StutterKeepsIInv == IInv /\ UNCHANGED vars => IInv'
  BY DEF IInv, Remembered, Flags, Spacing, Executed, vars

\* The invariant the theorems follow from.
THEOREM Inductive == Spec => []IInv
<1>1. IInv /\ [Next]_vars => IInv'
  BY StepKeepsIInv, StutterKeepsIInv
<1> QED
  BY Initially, <1>1, PTL DEF Spec

\* Every variable of the monitor keeps its type; the history never grows
\* beyond what restartChromium keeps.
THEOREM TypeCorrect == Spec => []TypeOK
  BY Inductive, TypeOKParts, PTL DEF IInv

\* Only a check that finds a hang begins a command.
LEMMA HangBegins ==
  ASSUME [Next]_vars, NEW command \in {"restart", "reboot"}, Begins(command)
  PROVE  CheckFindsHang /\ (command = "reboot" <=> TooManyRestarts(history'))
  BY DEF Begins, Next, Monitor, vars, Tick, BrowserChanges, CheckAnswered, CheckCutShort,
     CheckFailsEarly, CheckFindsHang, RestartReturns, RebootReturns

\* Two restarts by the monitor are more than the hang threshold apart.
THEOREM RestartsAreSpaced == Spec => RestartsSpaced
<1>1. ASSUME IInv, [Next]_vars, Begins("restart"), restarted # <<>>
      PROVE  Newest(restarted) > HangThreshold
  <2>1. silence > HangThreshold
    BY <1>1, HangBegins DEF CheckFindsHang
  <2>2. silence <= Newest(restarted)
    BY <1>1 DEF IInv, Spacing, Begins
  <2>3. silence \in Nat /\ Newest(restarted) \in Nat
    BY <1>1 DEF IInv, Remembered, History, Newest, Ages
  <2> QED
    BY <2>1, <2>2, <2>3
<1> QED
  BY Inductive, <1>1, PTL DEF Spec, RestartsSpaced

\* The first reboot follows restarts that were executed within the window.
THEOREM FirstRebootFollowsRestarts == Spec => FirstRebootIsEarned
<1>1. ASSUME IInv, [Next]_vars, Begins("reboot"), ~rebooting
      PROVE  /\ Len(restarted) >= MaxRestarts - 1
             /\ MaxRestarts > 1 => restarted[Len(restarted) - MaxRestarts + 2] <= Window
  <2>1. history = restarted /\ restarted \in History
    BY <1>1 DEF IInv, Executed, Flags, Remembered
  <2>2. history' = Keep(history, 0, MaxRestarts) /\ TooManyRestarts(history')
    BY <1>1, HangBegins DEF CheckFindsHang
  <2> DEFINE k == Keep(restarted, 0, MaxRestarts)
  <2>3. Len(k) >= MaxRestarts /\ k[1] <= Window
    BY <2>1, <2>2 DEF TooManyRestarts
  <2>4. Len(restarted) \in Nat /\ Len(restarted) <= MaxRestarts
    BY <2>1 DEF History
  <2>5. CASE Len(restarted) < MaxRestarts
    <3>1. Len(k) = Len(restarted) + 1 /\ \A i \in 1 .. Len(restarted) : k[i] = restarted[i]
      BY <2>1, <2>5, KeepAppends
    <3>2. Len(restarted) = MaxRestarts - 1
      BY <2>3, <2>4, <2>5, <3>1
    <3> QED
      BY <2>3, <2>4, <3>1, <3>2
  <2>6. CASE Len(restarted) = MaxRestarts
    <3>1. \A i \in 1 .. (Len(restarted) - 1) : k[i] = restarted[i + 1]
      BY <2>1, <2>6, KeepAppends
    <3> QED
      BY <2>3, <2>4, <2>6, <3>1
  <2> QED
    BY <2>4, <2>5, <2>6
<1> QED
  BY Inductive, <1>1, PTL DEF Spec, FirstRebootIsEarned
=============================================================================
