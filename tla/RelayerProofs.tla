--------------------------- MODULE RelayerProofs ---------------------------
(***************************************************************************)
(* The safety properties of Relayer and RelayerWrites for any connections, *)
(* callers and dial errors.  The invariant that is inductive, IInv, adds   *)
(* to them who holds the mutex, and what a thread between the unlock of    *)
(* Connect and the start of the reader goroutine may rely on.  It leaves   *)
(* open who else may hold the mutex, so that the writers keep it as well:  *)
(* with them, WriteInv adds that Send holds it for the connection it is    *)
(* writing to.                                                             *)
(***************************************************************************)
EXTENDS RelayerWrites, TLAPS

\* The mutex is held across a dial, and no connection appears meanwhile; it
\* is held between a ping and its read deadline.
LockInv ==
  /\ \A t \in Threads : pc[t] = "dial" => lock = <<"dial", t>> /\ conn = Nil
  /\ \A c \in Conns : pinger[c] = "arm" => lock = <<"ping", c>> /\ conn # Nil

\* A connection whose goroutines are still to be started belongs to one
\* thread, has no reader yet, and nobody holds its channel before it is made.
StartInv ==
  \A t \in Threads :
    /\ pc[t] \in {"pinger", "reader"} <=> dialed[t] # Nil
    /\ dialed[t] # Nil =>
         /\ pc[dialed[t]] = "none"
         /\ ~done => conn = dialed[t]
         /\ \A u \in Threads : dialed[u] = dialed[t] => u = t
         /\ pc[t] = "pinger" =>
              /\ pinger[dialed[t]] = "none" /\ pingDone # dialed[t]
              /\ \A d \in Conns : watch[d] # dialed[t]

\* What is in r.conn has not been closed.
CurrentIsOpen == conn # Nil => link[conn] # "closed"

IInv ==
  /\ StateTypeOK /\ CurrentIsOpen /\ LockInv /\ StartInv
  /\ OnlyCurrentReader /\ NoSocketLeak /\ ListeningUnlessClosed
  /\ PingDoneIsOpen /\ NoOrphanPinger

-----------------------------------------------------------------------------
\* The invariant holds before any thread has run.
LEMMA Initially == Init => IInv
<1>1. Init => StateTypeOK
  <2> SUFFICES ASSUME Init PROVE StateTypeOK
    OBVIOUS
  <2>1. pc \in [Threads -> PcStates]
    BY DEF Init, PcStates
  <2>2. ctx \in [Threads -> Ctxs]
    BY DEF Init, Ctxs
  <2> QED
    BY <2>1, <2>2 DEF Init, StateTypeOK, LinkStates, PingStates
<1> USE ConstantsAreDistinct DEF Init, Callers, Threads, Ctxs
<1>2. Init => CurrentIsOpen /\ LockInv /\ StartInv
  BY DEF CurrentIsOpen, LockInv, StartInv
<1>3. Init => /\ OnlyCurrentReader /\ NoSocketLeak /\ ListeningUnlessClosed
             /\ PingDoneIsOpen /\ NoOrphanPinger
  BY DEF OnlyCurrentReader, InLoop, NoSocketLeak, ListeningUnlessClosed,
         PingDoneIsOpen, NoOrphanPinger
<1> QED
  BY <1>1, <1>2, <1>3 DEF IInv

\* Every step of every thread keeps the invariant: one case per action.
LEMMA StepKeepsIInv ==
  ASSUME IInv, Next PROVE IInv'
<1> USE ConstantsAreDistinct
    DEF IInv, StateTypeOK, CurrentIsOpen, LinkStates, PcStates, PingStates, LockInv,
        StartInv, OnlyCurrentReader, InLoop, NoSocketLeak, ListeningUnlessClosed, Starting,
        PingDoneIsOpen, NoOrphanPinger, Callers, Threads, Ctxs,
        chanVars, sockVars, pingVars
\* The process, signals and calls.
<1>1. ASSUME MainConnects PROVE IInv'
  BY <1>1 DEF MainConnects, Goto
<1>2. ASSUME MainSkipsConnect PROVE IInv'
  BY <1>2 DEF MainSkipsConnect, Goto
<1>3. ASSUME MainReturns PROVE IInv'
  BY <1>3 DEF MainReturns, Goto, Close, CloseConn, ClosePingDone, Cancelled
<1>4. ASSUME Sigterm PROVE IInv'
  BY <1>4 DEF Sigterm
<1>5. ASSUME ProcessExits PROVE IInv'
  BY <1>5 DEF ProcessExits
<1>6. ASSUME NEW s \in Signals, SignalArrives(s) PROVE IInv'
  BY <1>6 DEF SignalArrives, Goto
<1>7. ASSUME NEW k \in Calls, CallArrives(k) PROVE IInv'
  BY <1>7 DEF CallArrives, Goto
<1>8. ASSUME NEW k \in Calls, CallSucceeds(k) PROVE IInv'
  BY <1>8 DEF CallSucceeds, Goto
<1>9. ASSUME NEW k \in Calls, CallFails(k) PROVE IInv'
  BY <1>9 DEF CallFails, Goto
\* Connect and RetryableConnect.
<1>10. ASSUME NEW t \in Threads, lock = Nil, ConnectDials(t) PROVE IInv'
  BY <1>10 DEF ConnectDials, Goto
<1>11. ASSUME NEW t \in Threads, lock = Nil, ConnectFindsConn(t) PROVE IInv'
  BY <1>11 DEF ConnectFindsConn, Goto, Returned
<1>12. ASSUME NEW t \in Threads, NEW c \in Conns, DialSucceeds(t, c) PROVE IInv'
  BY <1>12 DEF DialSucceeds, Goto, Fresh
<1>13. ASSUME NEW t \in Threads, DialFailsForNow(t) PROVE IInv'
  BY <1>13 DEF DialFailsForNow, Goto
<1>14. ASSUME NEW t \in Threads, DialGivesUp(t) PROVE IInv'
  BY <1>14 DEF DialGivesUp, Goto
<1>15. ASSUME NEW t \in Threads, Wakes(t) PROVE IInv'
  BY <1>15 DEF Wakes, Goto
<1>16. ASSUME NEW t \in Threads, StartPinger(t) PROVE IInv'
  BY <1>16 DEF StartPinger, Goto
<1>17. ASSUME NEW t \in Threads, StartReader(t) PROVE IInv'
  BY <1>17 DEF StartReader, Returned
\* The reader goroutine.
<1>18. ASSUME NEW c \in Conns, ReaderPasses(c) PROVE IInv'
  BY <1>18 DEF ReaderPasses, Goto
<1>19. ASSUME NEW c \in Conns, ReaderSeesCancel(c) PROVE IInv'
  BY <1>19 DEF ReaderSeesCancel, Goto, Close, CloseConn, ClosePingDone
<1>20. ASSUME NEW c \in Conns, ReaderSeesDone(c) PROVE IInv'
  BY <1>20 DEF ReaderSeesDone, Goto
<1>21. ASSUME NEW c \in Conns, ReaderEnters(c) PROVE IInv'
  BY <1>21 DEF ReaderEnters, Goto
<1>22. ASSUME NEW c \in Conns, ReaderReads(c) PROVE IInv'
  <2>1. topic' \in BOOLEAN
    BY <1>22 DEF ReaderReads
  <2> QED
    BY <1>22, <2>1 DEF ReaderReads, Goto
<1>23. ASSUME NEW c \in Conns, ReaderGetsPong(c) PROVE IInv'
  BY <1>23 DEF ReaderGetsPong
<1>24. ASSUME NEW c \in Conns, ReaderFails(c) PROVE IInv'
  BY <1>24 DEF ReaderFails, Goto
<1>25. ASSUME NEW c \in Conns, Reconnect(c) PROVE IInv'
  BY <1>25 DEF Reconnect, Goto, CloseConn, ClosePingDone
\* The pinger goroutine and the link.
<1>26. ASSUME NEW c \in Conns, PingerSelects(c) PROVE IInv'
  BY <1>26 DEF PingerSelects
<1>27. ASSUME NEW c \in Conns, PingerStops(c) PROVE IInv'
  BY <1>27 DEF PingerStops
<1>28. ASSUME NEW c \in Conns, PingerTicks(c) PROVE IInv'
  BY <1>28 DEF PingerTicks
<1>29. ASSUME NEW c \in Conns, PingWrites(c) PROVE IInv'
  BY <1>29 DEF PingWrites
<1>30. ASSUME NEW c \in Conns, PingArms(c) PROVE IInv'
  BY <1>30 DEF PingArms
<1>31. ASSUME NEW c \in Conns, NEW how \in {"silent", "broken"}, LinkFails(c, how) PROVE IInv'
  BY <1>31 DEF LinkFails
<1> HIDE DEF IInv
<1> QED
  BY <1>1, <1>2, <1>3, <1>4, <1>5, <1>6, <1>7, <1>8, <1>9, <1>10, <1>11,
     <1>12, <1>13, <1>14, <1>15, <1>16, <1>17, <1>18, <1>19, <1>20, <1>21, <1>22,
     <1>23, <1>24, <1>25, <1>26, <1>27, <1>28, <1>29, <1>30, <1>31
  DEF Next, ThreadStep, ConnectLocks, ReaderStep, PingerStep

\* A stuttering step changes nothing the invariant speaks of.
LEMMA StutterKeepsIInv ==
  ASSUME IInv, UNCHANGED vars PROVE IInv'
  BY DEF vars, IInv, StateTypeOK, CurrentIsOpen, LockInv, StartInv, OnlyCurrentReader,
         InLoop, NoSocketLeak, ListeningUnlessClosed, Starting, PingDoneIsOpen, NoOrphanPinger

\* The inductive invariant is an invariant of the specification.
THEOREM Inductive == Spec => []IInv
<1>1. IInv /\ [Next]_vars => IInv'
  BY StepKeepsIInv, StutterKeepsIInv
<1> QED
  BY Initially, <1>1, PTL DEF Spec

-----------------------------------------------------------------------------
(***************************************************************************)
(* What the steps of the relayer do to its mutex.                          *)
(***************************************************************************)
Held == lock \in {Nil} \cup ({"dial"} \X Threads) \cup ({"ping"} \X Conns)

\* A dial and a ping take the mutex; nothing else of the relayer keeps it.
LEMMA RelayerHolds == ASSUME Next PROVE lock' = lock \/ Held'
<1>1. ASSUME NEW t \in Threads, ThreadStep(t) PROVE lock' = lock \/ Held'
  BY <1>1 DEF Held, ThreadStep, ConnectLocks, ConnectDials, ConnectFindsConn, DialSucceeds,
              DialFailsForNow, DialGivesUp, Wakes, StartPinger, StartReader
<1>2. ASSUME NEW c \in Conns, ReaderStep(c) PROVE lock' = lock
  BY <1>2 DEF ReaderStep, ReaderPasses, ReaderSeesCancel, ReaderSeesDone, ReaderEnters,
              ReaderReads, ReaderGetsPong, ReaderFails, Reconnect
<1>3. ASSUME NEW c \in Conns, PingerStep(c) PROVE lock' = lock \/ Held'
  BY <1>3 DEF Held, PingerStep, PingerSelects, PingerStops, PingerTicks, PingWrites, PingArms
<1> QED
  BY <1>1, <1>2, <1>3 DEF Next, MainConnects, MainSkipsConnect, MainReturns, Sigterm,
     ProcessExits, SignalArrives, CallArrives, CallSucceeds, CallFails, LinkFails

\* Somebody else's lock is neither released nor does r.conn change under it.
LEMMA OthersRespectLock ==
  ASSUME IInv, Next, lock # Nil,
         \A t \in Threads : lock # <<"dial", t>>, \A c \in Conns : lock # <<"ping", c>>
  PROVE  UNCHANGED <<lock, conn>>
<1> USE DEF IInv, LockInv
<1>1. ASSUME NEW t \in Threads, ThreadStep(t) PROVE UNCHANGED <<lock, conn>>
  BY <1>1 DEF ThreadStep, ConnectLocks, DialSucceeds, DialFailsForNow, DialGivesUp, Goto,
              Wakes, StartPinger, StartReader
<1>2. ASSUME NEW c \in Conns, ReaderStep(c) PROVE UNCHANGED <<lock, conn>>
  BY <1>2 DEF ReaderStep, ReaderPasses, ReaderSeesCancel, ReaderSeesDone, ReaderEnters,
              ReaderReads, ReaderGetsPong, ReaderFails, Reconnect, Close
<1>3. ASSUME NEW c \in Conns, PingerStep(c) PROVE UNCHANGED <<lock, conn>>
  BY <1>3 DEF PingerStep, PingerSelects, PingerStops, PingerTicks, PingWrites, PingArms
<1> HIDE DEF IInv, LockInv
<1> QED
  BY <1>1, <1>2, <1>3 DEF Next, MainConnects, MainSkipsConnect, MainReturns, Sigterm, Close,
     ProcessExits, SignalArrives, CallArrives, CallSucceeds, CallFails, LinkFails

\* Every variable keeps its type.
THEOREM TypeCorrect == Spec => []TypeOK
<1>1. Init => Held
  BY DEF Init, Held
<1>2. Held /\ [Next]_vars => Held'
  BY RelayerHolds DEF Held, vars
<1>3. IInv /\ Held => TypeOK
  BY DEF IInv, TypeOK, Held
<1> QED
  BY Inductive, <1>1, <1>2, <1>3, PTL DEF Spec

\* Until the relayer is closed only the reader of the current connection runs.
THEOREM ReaderIsCurrent == Spec => []OnlyCurrentReader
<1>1. IInv => OnlyCurrentReader
  BY DEF IInv
<1> QED
  BY Inductive, <1>1, PTL

\* No socket that was dialled is lost without being closed.
THEOREM SocketsAreClosed == Spec => []NoSocketLeak
<1>1. IInv => NoSocketLeak
  BY DEF IInv
<1> QED
  BY Inductive, <1>1, PTL

\* Until the relayer is closed, a connection in r.conn has its reader.
THEOREM ConnectedListens == Spec => []ListeningUnlessClosed
<1>1. IInv => ListeningUnlessClosed
  BY DEF IInv
<1> QED
  BY Inductive, <1>1, PTL

\* pingDoneChan is never closed twice, and no pinger waits on a lost channel.
THEOREM PingChannels == Spec => [](PingDoneIsOpen /\ NoOrphanPinger)
<1>1. IInv => PingDoneIsOpen /\ NoOrphanPinger
  BY DEF IInv
<1> QED
  BY Inductive, <1>1, PTL

\* A connection is dropped only by the reader that saw it fail, or by Close.
THEOREM OnlyItsReaderDrops == Spec => DroppedByItsReader
<1> DEFINE Drop == (conn # Nil /\ conn' # conn) => conn' = Nil /\ (pc[conn] = "fail" \/ done')
<1>1. ASSUME IInv, Next PROVE Drop
  <2> USE DEF IInv, StateTypeOK, LockInv
  <2>1. ASSUME NEW t \in Threads, NEW c \in Conns, DialSucceeds(t, c) PROVE Drop
    BY <1>1, <2>1 DEF DialSucceeds, Goto
  <2>2. ASSUME NEW c \in Conns, Reconnect(c) PROVE Drop
    <3>1. ~done => conn = c
      BY <1>1, <2>2 DEF Reconnect, Goto, OnlyCurrentReader, InLoop
    <3> QED
      BY <2>2, <3>1 DEF Reconnect, CloseConn, Goto
  <2>3. ASSUME NEW c \in Conns, ReaderSeesCancel(c) PROVE Drop
    BY <2>3 DEF ReaderSeesCancel, Close, CloseConn
  <2>4. CASE MainReturns
    BY <2>4 DEF MainReturns, Close, CloseConn
  <2>5. CASE conn' = conn
    BY <2>5
  <2> HIDE DEF IInv
  <2> QED
    BY <1>1, <2>1, <2>2, <2>3, <2>4, <2>5
    DEF Next, ThreadStep, ConnectLocks, ReaderStep, PingerStep, MainConnects,
        MainSkipsConnect, Sigterm, ProcessExits, SignalArrives, CallArrives, CallSucceeds,
        CallFails, ConnectDials, ConnectFindsConn, DialFailsForNow, DialGivesUp, Wakes, StartPinger, StartReader,
        ReaderPasses, ReaderSeesDone, ReaderEnters, ReaderReads, ReaderGetsPong,
        ReaderFails, PingerSelects, PingerStops, PingerTicks, PingWrites, PingArms, LinkFails
<1>2. IInv /\ [Next]_vars => [Drop]_vars
  BY <1>1
<1> QED
  BY Inductive, <1>2, PTL DEF Spec, DroppedByItsReader

-----------------------------------------------------------------------------
\* No step of a thread but the four below touches the session.
SessionStays == UNCHANGED <<conn, done>> /\ (HasReader' <=> HasReader)

\* Every step of the relayer is a step of the session it promises, or none.
LEMMA StepKeepsPromise ==
  ASSUME IInv, IInv', Next PROVE Promise!Next \/ SessionStays
<1> USE ConstantsAreDistinct
    DEF IInv, StateTypeOK, HasReader, InLoop, Callers, Threads, OnlyCurrentReader, SessionStays
\* A dial opens a session, which the reader it starts attends.
<1>1. ASSUME NEW t \in Threads, NEW c \in Conns, DialSucceeds(t, c) PROVE Promise!Next
  <2>1. conn = Nil /\ conn' = c /\ ~HasReader' /\ done' = done
    BY <1>1 DEF DialSucceeds, Goto, LockInv, Fresh, PcStates
  <2>2. Promise!Open(c)
    BY <2>1 DEF Promise!Open
  <2> QED
    BY <2>2 DEF Promise!Next
<1>2. ASSUME NEW t \in Threads, StartReader(t) PROVE Promise!Next \/ SessionStays
  <2>1. conn' = conn /\ done' = done
    BY <1>2 DEF StartReader
  <2>2. CASE conn # Nil /\ ~HasReader /\ HasReader'
    BY <2>1, <2>2 DEF Promise!Next, Promise!Attend
  <2>3. HasReader => HasReader'
    BY <1>2, <2>1 DEF StartReader, StartInv, Returned, PcStates
  <2> QED
    BY <2>1, <2>2, <2>3
\* A reader that saw it fail gives it up, and one that finds the relayer shut leaves.
<1>3. ASSUME NEW c \in Conns, Reconnect(c) PROVE Promise!Next
  <2>1. conn' = Nil /\ ~HasReader' /\ done' = done /\ (HasReader \/ done)
    BY <1>3 DEF Reconnect, CloseConn, Goto
  <2> QED
    BY <2>1 DEF Promise!Next, Promise!Drop
<1>4. ASSUME NEW c \in Conns, ReaderSeesDone(c) PROVE Promise!Next \/ SessionStays
  <2>1. conn' = conn /\ done /\ done' = done /\ (HasReader' => HasReader)
    BY <1>4 DEF ReaderSeesDone, Goto
  <2> QED
    BY <2>1 DEF Promise!Next, Promise!Leave
<1>5. ASSUME NEW c \in Conns, ReaderEnters(c) PROVE SessionStays
  BY <1>5 DEF ReaderEnters, Goto
\* A thread that asks for a connection is no reader in its loop.
<1>6. ASSUME NEW t \in Threads,
             ConnectDials(t) \/ ConnectFindsConn(t) \/ DialFailsForNow(t) \/ DialGivesUp(t)
               \/ Wakes(t) \/ StartPinger(t)
      PROVE SessionStays
  <2>1. pc[t] \in {"connect", "dial", "sleep", "pinger"}
    BY <1>6 DEF ConnectDials, ConnectFindsConn, DialFailsForNow, DialGivesUp, Wakes, StartPinger, Goto
  <2>2. UNCHANGED <<conn, done>> /\ \A c \in Conns : c # t => pc'[c] = pc[c]
    BY <1>6 DEF ConnectDials, ConnectFindsConn, DialFailsForNow, DialGivesUp, Wakes, StartPinger, Goto
  <2>3. t \in Conns => pc'[t] \in {"dial", "none", "sleep", "connect", "reader"}
    BY <1>6 DEF ConnectDials, ConnectFindsConn, DialFailsForNow, DialGivesUp, Wakes, StartPinger,
                Goto, Returned
  <2> QED
    BY <2>1, <2>2, <2>3
<1>7. ASSUME NEW c \in Conns,
             ReaderPasses(c) \/ ReaderReads(c) \/ ReaderGetsPong(c) \/ ReaderFails(c)
      PROVE SessionStays
  BY <1>7 DEF ReaderPasses, ReaderReads, ReaderGetsPong, ReaderFails, Goto
\* Close shuts the relayer.
<1>8. ASSUME Close PROVE Promise!Next
  <2>1. done' /\ conn' = Nil /\ ~HasReader'
    BY <1>8 DEF Close, CloseConn
  <2> QED
    BY <2>1 DEF Promise!Next, Promise!Shut
\* The others change the place of main, a signal or a call, or none.
<1>9. ASSUME NEW t \in Callers, UNCHANGED <<conn, done>>,
             \E q : pc' = [pc EXCEPT ![t] = q]
      PROVE SessionStays
  BY <1>9
<1>10. ASSUME UNCHANGED <<conn, done, pc>> PROVE SessionStays
  BY <1>10
<1> HIDE DEF IInv, SessionStays
<1>11. CASE \/ MainConnects \/ MainSkipsConnect
            \/ \E s \in Signals : SignalArrives(s)
            \/ \E k \in Calls : CallArrives(k) \/ CallSucceeds(k) \/ CallFails(k)
  BY <1>9, <1>11 DEF MainConnects, MainSkipsConnect, SignalArrives, CallArrives, CallSucceeds,
                     CallFails, Goto
<1>12. CASE MainReturns \/ \E c \in Conns : ReaderSeesCancel(c)
  BY <1>8, <1>12 DEF MainReturns, ReaderSeesCancel
<1>13. CASE \/ Sigterm \/ ProcessExits
            \/ \E c \in Conns : PingerStep(c)
            \/ \E c \in Conns, how \in {"silent", "broken"} : LinkFails(c, how)
  BY <1>10, <1>13 DEF Sigterm, ProcessExits, PingerStep, PingerSelects, PingerStops, PingerTicks,
                      PingWrites, PingArms, LinkFails
<1> QED
  BY <1>1, <1>2, <1>3, <1>4, <1>5, <1>6, <1>7, <1>11, <1>12, <1>13
  DEF Next, ThreadStep, ConnectLocks, ReaderStep

\* The relayer implements Session: one session at a time, attended by its own
\* reader, and ended only by that reader or by Close.
THEOREM SessionKept == Spec => KeepsSession
<1>1. Init => Promise!Init
  BY DEF Init, Promise!Init, HasReader
<1>2. IInv /\ IInv' /\ [Next]_vars => [Promise!Next]_(Promise!sessionVars)
  <2>1. CASE Next
    BY <2>1, StepKeepsPromise DEF SessionStays, Promise!sessionVars, HasReader
  <2>2. CASE UNCHANGED vars
    BY <2>2 DEF vars, Promise!sessionVars, HasReader, InLoop
  <2> QED
    BY <2>1, <2>2
<1> QED
  BY Inductive, <1>1, <1>2, PTL DEF Spec, KeepsSession, Promise!Spec

-----------------------------------------------------------------------------
(***************************************************************************)
(* The same with the writers.  Send adds a holder of the mutex; what it    *)
(* relies on is that it holds it for the connection it is writing to.      *)
(***************************************************************************)
SendInv == sending # Nil => lock = <<"send", sending>> /\ conn = sending

WriteInv == IInv /\ WriteTypeOK /\ SendInv

\* Steps that leave every variable IInv speaks of but the mutex.
IInvVars == <<conn, done, pingDone, pingClosed, link, deadline, pong, pc, ctx, dialed, reads,
              pinger, watch, cancelled, topic>>

\* IInv asks of the mutex only that the thread that dials or pings holds it.
LEMMA WriterKeepsIInv ==
  ASSUME IInv, UNCHANGED IInvVars, exited' \in BOOLEAN,
         \/ lock' = lock
         \/ (\A t \in Threads : lock # <<"dial", t>>) /\ (\A c \in Conns : lock # <<"ping", c>>)
  PROVE  IInv'
  BY DEF IInvVars, IInv, StateTypeOK, CurrentIsOpen, LockInv, StartInv, OnlyCurrentReader,
         InLoop, NoSocketLeak, ListeningUnlessClosed, Starting, PingDoneIsOpen, NoOrphanPinger

\* A step of the relayer while a Send is writing leaves it the mutex and r.conn.
LEMMA RelayerKeepsWrites ==
  ASSUME WriteInv, Next, UNCHANGED writeVars PROVE WriteInv'
<1> USE DEF WriteInv
<1>1. IInv'
  BY StepKeepsIInv
<1>2. SendInv'
  <2>1. ASSUME sending # Nil PROVE UNCHANGED <<lock, conn>>
    BY <2>1, OthersRespectLock, ConstantsAreDistinct DEF SendInv, WriteTypeOK, Threads
  <2> QED
    BY <2>1 DEF writeVars, SendInv
<1>3. WriteTypeOK'
  BY <1>1, RelayerHolds DEF IInv, writeVars, WriteTypeOK, Held
<1> QED
  BY <1>1, <1>2, <1>3

\* Each step of a writer keeps it, too.
LEMMA StepKeepsWriteInv ==
  ASSUME WriteInv, [WriteNext]_allVars PROVE WriteInv'
<1> USE ConstantsAreDistinct DEF WriteInv, SendInv, Threads
<1>1. CASE RelayerStep
  BY <1>1, RelayerKeepsWrites DEF RelayerStep
<1>2. CASE SendBegins
  <2>1. IInv' /\ exited' \in BOOLEAN
    BY <1>2, WriterKeepsIInv DEF SendBegins, IInvVars, chanVars, sockVars, pingVars,
       WriteTypeOK, StateTypeOK
  <2>2. StateTypeOK' /\ conn \in Conns
    BY <1>2, <2>1 DEF SendBegins, IInv, StateTypeOK
  <2> QED
    BY <1>2, <2>1, <2>2 DEF SendBegins, WriteTypeOK
<1>3. CASE SendReturns
  <2>1. IInv'
    BY <1>3, WriterKeepsIInv DEF SendReturns, IInvVars, chanVars, sockVars, pingVars,
       WriteTypeOK, StateTypeOK
  <2> QED
    BY <1>3, <2>1 DEF SendReturns, WriteTypeOK, IInv
<1>4. CASE NotifyChecks
  BY <1>4, StutterKeepsIInv DEF NotifyChecks, vars, WriteTypeOK, IInv
<1>5. CASE NotifyWrites
  <2>1. IInv'
    BY <1>5, WriterKeepsIInv DEF NotifyWrites, IInvVars, chanVars, sockVars, pingVars,
       WriteTypeOK, StateTypeOK
  <2>2. StateTypeOK' /\ conn \in Conns \cup {Nil}
    BY <2>1 DEF IInv, StateTypeOK
  <2> QED
    BY <1>5, <2>1, <2>2 DEF NotifyWrites, WriteTypeOK
<1>6. CASE NotifyReturns
  BY <1>6, StutterKeepsIInv DEF NotifyReturns, vars, WriteTypeOK, IInv
<1>7. CASE UNCHANGED allVars
  BY <1>7, StutterKeepsIInv DEF allVars, vars, writeVars, WriteTypeOK, IInv
<1> QED
  BY <1>1, <1>2, <1>3, <1>4, <1>5, <1>6, <1>7 DEF WriteNext

\* The relayer's invariant holds beside any number of writes.
THEOREM WritersInductive == WriteSpec => []WriteInv
<1>1. WriteInit => WriteInv
  BY Initially DEF WriteInit, WriteInv, WriteTypeOK, SendInv, IInv, Init
<1>2. WriteInv /\ [WriteNext]_allVars => WriteInv'
  BY StepKeepsWriteInv
<1> QED
  BY <1>1, <1>2, PTL DEF WriteSpec

\* A message Send is writing is never cut off by a close or a reconnect: the
\* connection stays open and current until the write returns.
THEOREM SendIsNotCutOff == WriteSpec => []SendKeepsConn
<1>1. WriteInv => SendKeepsConn
  BY DEF WriteInv, IInv, SendInv, CurrentIsOpen, SendKeepsConn
<1> QED
  BY WritersInductive, <1>1, PTL

\* Only the status notification, which takes no lock, ever writes to a
\* connection while another goroutine is writing to it.
THEOREM WritersExclude == WriteSpec => []OnlyNotifyOverlaps
<1>1. ASSUME WriteInv PROVE OnlyNotifyOverlaps
  <2> SUFFICES ASSUME NEW c \in Conns, NEW w \in Writers(c), NEW x \in Writers(c),
                      w[1] # "notify", x[1] # "notify"
               PROVE  w = x
    BY DEF OnlyNotifyOverlaps
  <2>1. ASSUME NEW v \in Writers(c), v[1] # "notify" PROVE lock = v
    BY <1>1, <2>1 DEF Writers, WriteInv, SendInv, IInv, LockInv
  <2> QED
    BY <2>1
<1> QED
  BY WritersInductive, <1>1, PTL

\* Neither Send nor a notification disturbs the reader, the socket, or the
\* pingers: what holds of the relayer alone holds beside them.
THEOREM WritersDisturbNothing ==
  WriteSpec => [](OnlyCurrentReader /\ NoSocketLeak /\ ListeningUnlessClosed
                    /\ PingDoneIsOpen /\ NoOrphanPinger)
<1>1. WriteInv => /\ OnlyCurrentReader /\ NoSocketLeak /\ ListeningUnlessClosed
                  /\ PingDoneIsOpen /\ NoOrphanPinger
  BY DEF WriteInv, IInv
<1> QED
  BY WritersInductive, <1>1, PTL

\* Whoever holds the mutex is where it will let go of it.
MutexHasHolder ==
  \/ lock = Nil
  \/ \E t \in Threads : lock = <<"dial", t>> /\ pc[t] = "dial"
  \/ \E c \in Conns : lock = <<"ping", c>> /\ pinger[c] = "arm"
  \/ sending # Nil /\ lock = <<"send", sending>>

LEMMA RelayerKeepsHolder ==
  ASSUME WriteInv, MutexHasHolder, Next, UNCHANGED writeVars PROVE MutexHasHolder'
<1> USE ConstantsAreDistinct DEF WriteInv, IInv, StateTypeOK, LockInv, MutexHasHolder, writeVars,
        Callers, Threads, chanVars, sockVars, pingVars
\* A dial begins or ends: nobody else holds the mutex.
<1>1. ASSUME NEW t \in Threads,
             \/ lock = Nil /\ (ConnectDials(t) \/ ConnectFindsConn(t))
             \/ DialFailsForNow(t) \/ DialGivesUp(t) \/ \E c \in Conns : DialSucceeds(t, c)
      PROVE  MutexHasHolder'
  BY <1>1 DEF ConnectDials, ConnectFindsConn, DialFailsForNow, DialGivesUp, DialSucceeds, Goto
\* Meanwhile no other thread, and no pinger between its ping and the deadline, is moved.
<1>2. ASSUME NEW t \in Threads, pc[t] # "dial", \E q : pc' = [pc EXCEPT ![t] = q],
             UNCHANGED <<lock, pinger>>
      PROVE  MutexHasHolder'
  BY <1>2
<1>3. CASE UNCHANGED <<lock, pc, pinger>>
  BY <1>3
<1>4. ASSUME NEW t \in Threads, StartPinger(t) PROVE MutexHasHolder'
  BY <1>4 DEF StartPinger, Goto, StartInv
<1>5. ASSUME NEW t \in Threads, StartReader(t) PROVE MutexHasHolder'
  BY <1>5 DEF StartReader, StartInv
<1>6. ASSUME NEW t \in Threads, Wakes(t) PROVE MutexHasHolder'
  BY <1>2, <1>6 DEF Wakes, Goto
<1>7. ASSUME NEW c \in Conns, ReaderStep(c) PROVE MutexHasHolder'
  BY <1>2, <1>3, <1>7 DEF ReaderStep, ReaderPasses, ReaderSeesCancel, ReaderSeesDone, ReaderEnters,
     ReaderReads, ReaderGetsPong, ReaderFails, Reconnect, Goto
<1>8. ASSUME NEW c \in Conns, PingerStep(c) PROVE MutexHasHolder'
  BY <1>8 DEF PingerStep, PingerSelects, PingerStops, PingerTicks, PingWrites, PingArms
<1>9. CASE \/ MainConnects \/ MainSkipsConnect \/ MainReturns
           \/ \E s \in Signals : SignalArrives(s)
           \/ \E k \in Calls : CallArrives(k) \/ CallSucceeds(k) \/ CallFails(k)
  BY <1>2, <1>9 DEF MainConnects, MainSkipsConnect, MainReturns, SignalArrives, CallArrives,
     CallSucceeds, CallFails, Goto
<1>10. CASE \/ Sigterm \/ ProcessExits
            \/ \E c \in Conns, how \in {"silent", "broken"} : LinkFails(c, how)
  BY <1>3, <1>10 DEF Sigterm, ProcessExits, LinkFails
<1> HIDE DEF WriteInv, IInv, MutexHasHolder
<1> QED
  BY <1>1, <1>4, <1>5, <1>6, <1>7, <1>8, <1>9, <1>10 DEF Next, ThreadStep, ConnectLocks

\* No path out of Connect, ping, Send, reconnect or Close keeps the mutex: while
\* it is held, one thread is dialling, pinging or sending under it, and the only
\* steps of that thread give it back.
THEOREM MutexIsGivenBack == WriteSpec => []MutexHasHolder
<1>1. WriteInit => MutexHasHolder
  BY DEF WriteInit, Init, MutexHasHolder
<1>2. WriteInv /\ MutexHasHolder /\ [WriteNext]_allVars => MutexHasHolder'
  <2> SUFFICES ASSUME WriteInv, MutexHasHolder, [WriteNext]_allVars PROVE MutexHasHolder'
    OBVIOUS
  <2>1. CASE RelayerStep
    BY <2>1, RelayerKeepsHolder DEF RelayerStep
  <2>2. CASE SendBegins
    BY <2>2, ConstantsAreDistinct DEF SendBegins, MutexHasHolder
  <2>3. CASE SendReturns
    BY <2>3 DEF SendReturns, MutexHasHolder
  <2>4. CASE UNCHANGED <<lock, pc, pinger, sending>>
    BY <2>4 DEF MutexHasHolder
  <2> QED
    BY <2>1, <2>2, <2>3, <2>4 DEF WriteNext, NotifyChecks, NotifyWrites, NotifyReturns, pingVars,
       allVars, vars, writeVars
<1> QED
  BY WritersInductive, <1>1, <1>2, PTL DEF WriteSpec

\* With the writers the relayer still keeps the promise of Session.
THEOREM SessionKeptBesideWrites == WriteSpec => KeepsSession
<1>1. WriteInit => Promise!Init
  BY DEF WriteInit, Init, Promise!Init, HasReader
<1>2. WriteInv /\ WriteInv' /\ [WriteNext]_allVars => [Promise!Next]_(Promise!sessionVars)
  <2> SUFFICES ASSUME WriteInv, WriteInv', [WriteNext]_allVars
               PROVE  [Promise!Next]_(Promise!sessionVars)
    OBVIOUS
  <2>1. CASE RelayerStep
    BY <2>1, StepKeepsPromise DEF RelayerStep, WriteInv, SessionStays, Promise!sessionVars, HasReader
  <2>2. ASSUME UNCHANGED <<conn, done, pc>> PROVE UNCHANGED Promise!sessionVars
    BY <2>2 DEF Promise!sessionVars, HasReader, InLoop
  <2> QED
    BY <2>1, <2>2 DEF WriteNext, SendBegins, SendReturns, NotifyChecks, NotifyWrites,
       NotifyReturns, allVars, vars
<1> QED
  BY WritersInductive, <1>1, <1>2, PTL DEF WriteSpec, KeepsSession, Promise!Spec
=============================================================================
