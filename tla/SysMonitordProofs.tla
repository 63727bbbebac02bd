------------------------- MODULE SysMonitordProofs -------------------------
(***************************************************************************)
(* What TLAPS proves of feral-sys-monitord with all three watchers moving, *)
(* for any targets, tickers and readers.                                   *)
(***************************************************************************)
EXTENDS SysMonitord, SequenceTheorems, TLAPS

\* Nobody but an ending process leaves a watcher that is not restarting with
\* a closed doneChan.
ChannelOpen ==
  /\ poll \in {"start", "first", "wait", "restart"} => open \/ ctxDone
  /\ poll = "wait" => interval = IntervalFor(last)

\* The event watcher is stopped, and its channels are closed, by the end of
\* the process only; what is handed over is an event.
WatchesOn ==
  /\ scan = "send" => line # "other"
  /\ stopped => ctxDone
  /\ ~watching => ctxDone
  /\ panicked => ctxDone

Inv == TypeOK /\ ChannelOpen /\ WatchesOn

\* The process's own steps: the watchers stand still.
LEMMA ProcessKeeps ==
  ASSUME Inv, ProcessStep(ProcessNext)
  PROVE  Inv'
<1>1. ProcessTypeOK'
  BY Zenon DEF ProcessStep, ProcessNext, MediatorStarts, Sigterm, MediatorStops, Inv, TypeOK,
               ProcessTypeOK
<1>2. ConnTypeOK' /\ EventTypeOK' /\ SampleTypeOK'
  <2>1. UNCHANGED <<connVars, eventVars, sampleVars>> /\ TypeOK
    BY DEF ProcessStep, Inv
  <2>2. ConnTypeOK'
    BY <2>1, SMT DEF connVars, TypeOK, ConnTypeOK
  <2>3. EventTypeOK'
    BY <2>1, SMT DEF eventVars, TypeOK, EventTypeOK
  <2>4. SampleTypeOK'
    BY <2>1, SMT DEF sampleVars, TypeOK, SampleTypeOK
  <2> QED
    BY <2>2, <2>3, <2>4
<1>3. ChannelOpen' /\ WatchesOn'
  BY DEF ProcessStep, ProcessNext, MediatorStarts, Sigterm, MediatorStops, connVars, eventVars,
         Inv, ChannelOpen, WatchesOn, IntervalFor
<1>4. QED
  BY <1>1, <1>2, <1>3 DEF Inv, TypeOK

\* A step of the connectivity watcher keeps its type and its channel open.
LEMMA ConnKeeps ==
  ASSUME ConnTypeOK, ChannelOpen, ConnNext, UNCHANGED ctxDone
  PROVE  ConnTypeOK' /\ ChannelOpen'
<1>1. CASE NetworkChanges \/ WatcherStopped
  BY <1>1 DEF NetworkChanges, WatcherStopped, ConnTypeOK, ChannelOpen, IntervalFor
<1>2. CASE PollStarts \/ RestartStops \/ RestartRenews \/ PollStops
  BY <1>2 DEF PollStarts, RestartStops, RestartRenews, PollStops, ConnTypeOK, ChannelOpen,
              IntervalFor
<1>3. ASSUME NEW state \in States, FirstCheck(state) \/ Tick(state) \/ NotifierRuns(state)
      PROVE  ConnTypeOK' /\ ChannelOpen'
  BY <1>3 DEF FirstCheck, Tick, NotifierRuns, NotifyHandlers, CheckConnectivity, States,
              ConnTypeOK, ChannelOpen, IntervalFor
<1>4. QED
  BY <1>1, <1>2, <1>3 DEF ConnNext, PollStep

\* A step of the event watcher leaves its channels open while the process runs.
LEMMA EventsGoOn ==
  ASSUME WatchesOn, EventNext, UNCHANGED ctxDone
  PROVE  WatchesOn'
BY DEF EventNext, ScanStep, WatchStep, JournalStarts, LineScanned, LineLookedAt, ScanEnds,
       SendPanics, EventReceived, ErrorReceived, WatcherEnds, EventsStopped, EventSignalled,
       WatchesOn, Ending, EventOf

\* A step of the event watcher keeps the types of what is not Boolean ...
LEMMA EventKeepsLines ==
  ASSUME EventTypeOK, WatchesOn, EventNext
  PROVE  /\ scan' \in {"start", "scan", "select", "send", "error", "ended"}
         /\ line' \in Lines
         /\ \A e \in events' : e \in {"gpu_hanging", "gpu_recover"}
<1>1. CASE EventReceived
  <2>1. line \in Lines /\ \A e \in events : e \in {"gpu_hanging", "gpu_recover"}
    BY DEF EventTypeOK
  <2>2. \A e \in events' : e \in events \/ e = EventOf[line]
    BY <1>1 DEF EventReceived
  <2>3. line # "other"
    BY <1>1 DEF EventReceived, WatchesOn
  <2>4. EventOf[line] \in {"gpu_hanging", "gpu_recover"}
    BY <2>1, <2>3 DEF EventOf, Lines
  <2>5. QED
    BY <1>1, <2>1, <2>2, <2>4 DEF EventReceived, Lines
<1>2. CASE EventNext /\ ~EventReceived
  BY <1>2 DEF EventNext, ScanStep, WatchStep, JournalStarts, LineScanned, LineLookedAt, ScanEnds,
     SendPanics, ErrorReceived, WatcherEnds, EventsStopped, EventSignalled, EventTypeOK, Lines
<1>3. QED
  BY <1>1, <1>2

\* ... and of what is.
LEMMA EventKeeps ==
  ASSUME EventTypeOK, WatchesOn, EventNext
  PROVE  EventTypeOK'
<1>1. watching' \in BOOLEAN /\ stopped' \in BOOLEAN /\ panicked' \in BOOLEAN
  BY Zenon DEF EventNext, ScanStep, WatchStep, JournalStarts, LineScanned, LineLookedAt, ScanEnds,
       SendPanics, EventReceived, ErrorReceived, WatcherEnds, EventsStopped, EventSignalled,
       EventTypeOK
<1>2. QED
  BY <1>1, EventKeepsLines DEF EventTypeOK

\* A step of the sampler keeps its type.
LEMMA SampleKeeps ==
  ASSUME SampleTypeOK, SampleNext
  PROVE  SampleTypeOK'
<1>1. PICK t \in Tickers : TickerStep(t) \/ NotifierSends(t)
  BY DEF SampleNext
<1>2. Len(Rounds[t]) \in Nat
  BY RoundsAreReaders, LenProperties
<1>3. CASE TickerFires(t) \/ RoundEnds(t) \/ TickerStops(t) \/ NotifierSends(t)
  BY <1>2, <1>3 DEF TickerFires, RoundEnds, TickerStops, NotifierSends, SampleTypeOK
<1>4. CASE ReaderReturns(t)
  <2>1. Rounds[t][turn[t]] \in Readers
    BY <1>4, RoundsAreReaders, ElementOfSeq DEF ReaderReturns
  <2>2. QED
    BY <1>4, <2>1 DEF ReaderReturns, SampleTypeOK
<1>5. QED
  BY <1>1, <1>3, <1>4 DEF TickerStep

THEOREM Inductive == Spec => []Inv
<1>1. Init => Inv
  <2> SUFFICES ASSUME Init PROVE Inv
    OBVIOUS
  <2>1. ProcessTypeOK /\ EventTypeOK
    BY Zenon DEF Init, ProcessInit, EventInit, ProcessTypeOK, EventTypeOK, Lines
  <2>2. ConnTypeOK
    BY DEF Init, ConnInit, ConnTypeOK
  <2>3. SampleTypeOK
    BY DEF Init, SampleInit, SampleTypeOK
  <2>4. ChannelOpen /\ WatchesOn
    BY DEF Init, ConnInit, EventInit, ChannelOpen, WatchesOn
  <2>5. QED
    BY <2>1, <2>2, <2>3, <2>4 DEF Inv, TypeOK
<1>2. Inv /\ [Next]_vars => Inv'
  <2> SUFFICES ASSUME Inv, [Next]_vars PROVE Inv'
    OBVIOUS
  <2>1. CASE ProcessStep(ProcessNext)
    BY <2>1, ProcessKeeps
  <2>2. CASE ConnStep(ConnNext)
    BY <2>2, ConnKeeps DEF ConnStep, Inv, TypeOK, WatchesOn, processVars, eventVars, sampleVars,
       ProcessTypeOK, EventTypeOK, SampleTypeOK
  <2>3. CASE EventStep(EventNext)
    BY <2>3, EventKeeps, EventsGoOn DEF EventStep, Inv, TypeOK, ChannelOpen, processVars, connVars, sampleVars,
       ProcessTypeOK, ConnTypeOK, SampleTypeOK
  <2>4. CASE SampleStep(SampleNext)
    BY <2>4, SampleKeeps DEF SampleStep, Inv, TypeOK, ChannelOpen, WatchesOn, processVars,
       connVars, eventVars, ProcessTypeOK, ConnTypeOK, EventTypeOK
  <2>5. CASE UNCHANGED vars
    BY <2>5 DEF Inv, TypeOK, ChannelOpen, WatchesOn, vars, processVars, connVars, eventVars,
       sampleVars, ProcessTypeOK, ConnTypeOK, EventTypeOK, SampleTypeOK
  <2>6. QED
    BY <2>1, <2>2, <2>3, <2>4, <2>5 DEF Next
<1>3. QED
  BY <1>1, <1>2, PTL DEF Spec

\* Every variable of the process keeps its type, with all watchers moving.
THEOREM TypeCorrect == Spec => []TypeOK
BY Inductive, PTL DEF Inv

\* The waiting watcher polls at the rate of what it recorded, on an open channel.
THEOREM RateIsRight == Spec => []PollsAtItsRate
<1>1. Inv => PollsAtItsRate
  BY DEF Inv, ChannelOpen, PollsAtItsRate
<1>2. QED
  BY <1>1, Inductive, PTL

\* No channel is closed under the scanning goroutine before the process ends.
THEOREM NoPanicRunning == Spec => []PanicsOnlyEnding
<1>1. Inv => PanicsOnlyEnding
  BY DEF Inv, WatchesOn, PanicsOnlyEnding
<1>2. QED
  BY <1>1, Inductive, PTL

\* A GPU event that was found stays found until it is notified.
THEOREM NoEventDropped == Spec => FoundIsNotified
<1> DEFINE Kept(e) == Found(e) /\ ~Found(e)' => e \in events' \/ Ending \/ ~registered
<1>1. ASSUME Inv, [Next]_vars, NEW e \in {"gpu_hanging", "gpu_recover"}
      PROVE  Kept(e)
  <2>1. CASE UNCHANGED <<scan, line>>
    BY <2>1 DEF Found
  <2>2. CASE EventNext
    BY <1>1, <2>2 DEF Inv, TypeOK, EventTypeOK, WatchesOn, Found, EventNext, ScanStep, WatchStep,
       JournalStarts, LineScanned, LineLookedAt, ScanEnds, SendPanics, EventReceived,
       ErrorReceived, WatcherEnds, EventsStopped, EventSignalled, Ending
  <2>3. QED
    BY <1>1, <2>1, <2>2 DEF Next, ProcessStep, ConnStep, EventStep, SampleStep, eventVars, vars
<1>2. Inv /\ [Next]_vars => [\A e \in {"gpu_hanging", "gpu_recover"} : Kept(e)]_eventVars
  BY <1>1
<1>3. QED
  BY <1>2, Inductive, PTL DEF Spec, FoundIsNotified
=============================================================================
