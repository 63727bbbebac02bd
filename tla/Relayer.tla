------------------------------ MODULE Relayer ------------------------------
(***************************************************************************)
(* The client feral-connectd keeps to the relay server (relayer.go): one   *)
(* shared socket, the goroutine that reads it and redials when it fails,   *)
(* the goroutine that pings it, and the three kinds of threads that ask    *)
(* for a connection:                                                       *)
(*   Main     main.run, which calls Connect once at start-up (main.go);    *)
(*   Signals  the mediator's handlers of connectivity_change(true), under  *)
(*            context.Background(), which nothing cancels;                 *)
(*   Calls    GetRelayerTopicID D-Bus calls, each with a context of its    *)
(*            own that it cancels when the call fails (dbus.go).           *)
(* A connection c stands for the socket, for the reader goroutine started  *)
(* for it (thread c) and for its pinger.  Once all three are gone c may    *)
(* stand for another connection, so that a behaviour may hold any number   *)
(* of sessions.                                                            *)
(***************************************************************************)
EXTENDS Naturals, FiniteSets

CONSTANTS
  Conns,       \* connections
  Signals,     \* handlers of connectivity signals
  Calls,       \* GetRelayerTopicID calls
  Main,        \* the main goroutine
  App,         \* the context of the process
  Background,  \* context.Background(), under which D-Bus signals are handled
  DialErrors,  \* how a dial may fail: "retry" (transient, busy), "permanent"
  Nil          \* nil: no connection, no channel, a free mutex

Callers == Signals \cup Calls \cup {Main}
Threads == Callers \cup Conns
Ctxs    == Calls \cup {App, Background}

ASSUME ConstantsAreDistinct ==
  /\ Signals \cap Calls = {}  /\ Conns \cap Callers = {}
  /\ Main \notin Signals \cup Calls
  /\ Nil \notin Threads \cup Ctxs  /\ App \notin Threads
  /\ Background \notin Threads \cup {App}
  /\ DialErrors \subseteq {"retry", "permanent"}
  /\ <<"dial", Nil>> # Nil
  /\ \A w \in {"dial", "ping", "send"}, t \in Threads : <<w, t>> # Nil

VARIABLES
  lock,        \* the relayer's mutex: Nil or <<what is done, by whom>>
  conn,        \* r.conn
  done,        \* r.done is closed
  pingDone,    \* r.pingDoneChan, named after the connection it was made for
  pingClosed,  \* the pingDoneChan channels that have been closed
  link,        \* the socket of each connection
  deadline,    \* connections whose read deadline is armed
  pong,        \* connections whose peer has sent a pong nobody read yet
  pc,          \* where each thread is
  ctx,         \* the context each thread runs under
  dialed,      \* the local conn of a thread inside Connect
  reads,       \* the local conn of a reader goroutine
  pinger,      \* where each pinger goroutine is
  watch,       \* the channel a pinger's select evaluated last
  cancelled,   \* the contexts that have been cancelled
  topic,       \* the relay server has given this device its topic
  exited       \* the process has ended

sockVars == <<link, deadline, pong>>
pingVars == <<pinger, watch>>
chanVars == <<pingDone, pingClosed>>
vars == <<lock, conn, done, pingDone, pingClosed, link, deadline, pong, pc, ctx,
          dialed, reads, pinger, watch, cancelled, topic, exited>>

\* "silent": the peer is gone but no error will ever be reported by the socket.
LinkStates == {"closed", "open", "silent", "broken"}
PcStates == {"none", "idle", "connect", "dial", "pinger", "reader", "sleep",
             "wait", "exit", "top", "enter", "read", "fail"}
PingStates == {"none", "top", "select", "tick", "arm"}

StateTypeOK ==
  /\ conn \in Conns \cup {Nil}
  /\ done \in BOOLEAN
  /\ pingDone \in Conns \cup {Nil}
  /\ pingClosed \in SUBSET Conns
  /\ link \in [Conns -> LinkStates]
  /\ deadline \in SUBSET Conns  /\ pong \in SUBSET Conns
  /\ pc \in [Threads -> PcStates]
  /\ ctx \in [Threads -> Ctxs]
  /\ dialed \in [Threads -> Conns \cup {Nil}]
  /\ reads \in [Conns -> Conns \cup {Nil}]
  /\ pinger \in [Conns -> PingStates]
  /\ watch \in [Conns -> Conns \cup {Nil}]
  /\ cancelled \in SUBSET Ctxs
  /\ topic \in BOOLEAN
  /\ exited \in BOOLEAN

\* Without the writers of RelayerWrites, only a dial and a ping hold the mutex.
TypeOK == StateTypeOK /\ lock \in {Nil} \cup ({"dial"} \X Threads) \cup ({"ping"} \X Conns)

Init ==
  /\ lock = Nil  /\ conn = Nil  /\ done = FALSE
  /\ pingDone = Nil  /\ pingClosed = {}
  /\ link = [c \in Conns |-> "closed"]
  /\ deadline = {}  /\ pong = {}
  /\ pc = [t \in Threads |-> IF t \in Conns THEN "none" ELSE "idle"]
  /\ ctx = [t \in Threads |-> IF t \in Calls THEN t ELSE IF t \in Signals THEN Background ELSE App]
  /\ dialed = [t \in Threads |-> Nil]
  /\ reads = [c \in Conns |-> Nil]
  /\ pinger = [c \in Conns |-> "none"]
  /\ watch = [c \in Conns |-> Nil]
  /\ topic \in BOOLEAN  \* FALSE: a device that was never paired
  /\ cancelled = {}  /\ exited = FALSE

Cancelled(t) == ctx[t] \in cancelled
Goto(t, from, to) == ~exited /\ pc[t] = from /\ pc' = [pc EXCEPT ![t] = to]

(***************************************************************************)
(* closeConn: the socket is closed and forgotten.  Caller holds the lock.  *)
(***************************************************************************)
CloseConn ==
  /\ conn' = Nil
  /\ link' = [c \in Conns |-> IF c = conn THEN "closed" ELSE link[c]]
  /\ deadline' = deadline \ {conn}
  /\ pong' = pong \ {conn}

\* Mutant: the channel is closed but not forgotten.
ClosePingDoneKeeps == UNCHANGED pingDone /\ pingClosed' = pingClosed \cup ({pingDone} \ {Nil})

\* Mutant: the channel is forgotten but not closed.
ForgetPingDone == pingDone' = Nil /\ UNCHANGED pingClosed

ClosePingDone ==
  /\ pingDone' = Nil
  /\ pingClosed' = pingClosed \cup ({pingDone} \ {Nil})

\* Close: close(done), close(pingDoneChan), closeConn, all under the lock.
Close ==
  /\ lock = Nil
  /\ done' = TRUE
  /\ ClosePingDone
  /\ CloseConn

-----------------------------------------------------------------------------
(***************************************************************************)
(* Connect and RetryableConnect.                                           *)
(***************************************************************************)

\* Mutant: a reader whose reconnect succeeded goes on reading.
ReturnedToLoop(t) == IF t \in Conns THEN "top" ELSE IF t \in Signals THEN "idle" ELSE "wait"

\* Where a thread goes when its Connect or RetryableConnect returns nil.
Returned(t) == IF t \in Conns THEN "none" ELSE IF t \in Signals THEN "idle" ELSE "wait"

\* main.run calls Connect once, if the device is online and has a topic.
MainConnects ==
  /\ topic
  /\ Goto(Main, "idle", "connect")
  /\ UNCHANGED <<topic, lock, conn, done, chanVars, sockVars, ctx, dialed, reads, pingVars,
                 cancelled, exited>>

\* Offline or without a topic: run only waits for the signal, and defers no Close.
MainSkipsConnect ==
  /\ Goto(Main, "idle", "exit")
  /\ UNCHANGED <<topic, lock, conn, done, chanVars, sockVars, ctx, dialed, reads, pingVars,
                 cancelled, exited>>

\* connectivity_change(true): redial unless IsConnected (which takes the lock).
SignalArrives(s) ==
  /\ lock = Nil /\ conn = Nil
  /\ Goto(s, "idle", "connect")
  /\ UNCHANGED <<topic, lock, conn, done, chanVars, sockVars, ctx, dialed, reads, pingVars,
                 cancelled, exited>>

\* A call on a device that has its topic answers without connecting.
CallArrives(k) ==
  /\ ~topic
  /\ Goto(k, "idle", "connect")
  /\ UNCHANGED <<topic, lock, conn, done, chanVars, sockVars, ctx, dialed, reads, pingVars,
                 cancelled, exited>>

\* Mutant: Connect relies on the check its caller made before.
ConnectDialsUnchecked(t) ==
  /\ Goto(t, "connect", "dial")
  /\ lock' = <<"dial", t>>
  /\ UNCHANGED <<topic, conn, done, chanVars, sockVars, ctx, dialed, reads, pingVars,
                 cancelled, exited>>

\* No connection: Connect keeps the lock while it dials.
ConnectDials(t) ==
  /\ conn = Nil
  /\ Goto(t, "connect", "dial")
  /\ lock' = <<"dial", t>>
  /\ UNCHANGED <<topic, conn, done, chanVars, sockVars, ctx, dialed, reads, pingVars,
                 cancelled, exited>>

\* ErrAlreadyConnected: nil to RetryableConnect, an error to main.run, which is fatal.
ConnectFindsConn(t) ==
  /\ conn # Nil
  /\ Goto(t, "connect", Returned(t))
  /\ reads' = [c \in Conns |-> IF c = t THEN Nil ELSE reads[c]]
  /\ exited' = (exited \/ t = Main)
  /\ UNCHANGED <<topic, lock, conn, done, chanVars, sockVars, ctx, dialed, pingVars, cancelled>>

\* Connect takes the lock and looks at r.conn under it.
ConnectLocks(t) == lock = Nil /\ (ConnectDials(t) \/ ConnectFindsConn(t))

\* Nothing refers to c any more: a new connection may be called c.
Fresh(c) ==
  /\ link[c] = "closed" /\ pc[c] = "none" /\ pinger[c] = "none" /\ pingDone # c
  /\ \A t \in Threads : dialed[t] # c
  /\ \A d \in Conns : watch[d] # c /\ reads[d] # c

DialSucceeds(t, c) ==
  /\ ~Cancelled(t) /\ Fresh(c)
  /\ Goto(t, "dial", "pinger")
  /\ lock' = Nil /\ conn' = c
  /\ link' = [link EXCEPT ![c] = "open"]
  /\ dialed' = [dialed EXCEPT ![t] = c]
  /\ ctx' = [ctx EXCEPT ![c] = ctx[t]]
  /\ UNCHANGED <<topic, done, chanVars, deadline, pong, reads, pingVars, cancelled, exited>>

\* Mutant: a transient error ends RetryableConnect.
DialFailsOnce(t) ==
  /\ "retry" \in DialErrors /\ ~Cancelled(t)
  /\ Goto(t, "dial", IF t \in Conns THEN "none" ELSE "exit")
  /\ lock' = Nil
  /\ exited' = (exited \/ t = Main)
  /\ UNCHANGED <<topic, conn, done, chanVars, sockVars, ctx, dialed, reads, pingVars, cancelled>>

\* A transient or busy error: RetryableConnect sleeps; main.run fails.
DialFailsForNow(t) ==
  /\ "retry" \in DialErrors /\ ~Cancelled(t)
  /\ Goto(t, "dial", IF t = Main THEN "exit" ELSE "sleep")
  /\ lock' = Nil
  /\ exited' = (exited \/ t = Main)
  /\ UNCHANGED <<topic, conn, done, chanVars, sockVars, ctx, dialed, reads, pingVars, cancelled>>

\* A permanent error, or a dial whose context is cancelled: everybody gives up.
DialGivesUp(t) ==
  /\ "permanent" \in DialErrors \/ Cancelled(t)
  /\ Goto(t, "dial", IF t \in Conns THEN "none" ELSE IF t \in Signals THEN "idle" ELSE "exit")
  /\ lock' = Nil
  /\ reads' = [c \in Conns |-> IF c = t THEN Nil ELSE reads[c]]
  /\ cancelled' = cancelled \cup ({t} \cap Calls)
  /\ exited' = (exited \/ t = Main)
  /\ UNCHANGED <<topic, conn, done, chanVars, sockVars, ctx, dialed, pingVars>>

Wakes(t) ==
  /\ Goto(t, "sleep", "connect")
  /\ UNCHANGED <<topic, lock, conn, done, chanVars, sockVars, ctx, dialed, reads, pingVars,
                 cancelled, exited>>

\* After the unlock: make pingDoneChan if it is nil, start the pinger.
StartPinger(t) ==
  LET c == dialed[t] IN
  /\ Goto(t, "pinger", "reader")
  /\ pingDone' = IF pingDone = Nil THEN c ELSE pingDone
  /\ pingClosed' = IF pingDone = Nil THEN pingClosed \ {c} ELSE pingClosed
  /\ pinger' = [pinger EXCEPT ![c] = "top"]
  /\ UNCHANGED <<topic, lock, conn, done, sockVars, ctx, dialed, reads, watch, cancelled, exited>>

\* background: start the reader goroutine; Connect returns nil.
StartReader(t) ==
  LET c == dialed[t] IN
  /\ ~exited /\ pc[t] = "reader"
  /\ pc' = [pc EXCEPT ![t] = Returned(t), ![c] = "top"]
  /\ dialed' = [dialed EXCEPT ![t] = Nil]
  /\ reads' = [d \in Conns |-> IF d = t THEN Nil ELSE reads[d]]
  /\ UNCHANGED <<topic, lock, conn, done, chanVars, sockVars, ctx, pingVars, cancelled, exited>>

\* GetRelayerTopicID got its topic: the context of its connection lives on.
CallSucceeds(k) ==
  /\ k \in Calls /\ topic
  /\ Goto(k, "wait", "exit")
  /\ UNCHANGED <<topic, lock, conn, done, chanVars, sockVars, ctx, dialed, reads, pingVars,
                 cancelled, exited>>

\* It timed out or a handler failed: retryCancel().
CallFails(k) ==
  /\ k \in Calls
  /\ Goto(k, "wait", "exit")
  /\ cancelled' = cancelled \cup {k}
  /\ UNCHANGED <<topic, lock, conn, done, chanVars, sockVars, ctx, dialed, reads, pingVars, exited>>

-----------------------------------------------------------------------------
(***************************************************************************)
(* background: the reader goroutine of connection c.                       *)
(***************************************************************************)

ReaderPasses(c) ==
  /\ ~Cancelled(c) /\ ~done
  /\ Goto(c, "top", "enter")
  /\ UNCHANGED <<topic, lock, conn, done, chanVars, sockVars, ctx, dialed, reads, pingVars,
                 cancelled, exited>>

ReaderSeesCancel(c) ==
  /\ Cancelled(c)
  /\ Goto(c, "top", "none")
  /\ Close
  /\ UNCHANGED <<topic, lock, ctx, dialed, reads, pingVars, cancelled, exited>>

ReaderSeesDone(c) ==
  /\ done
  /\ Goto(c, "top", "none")
  /\ UNCHANGED <<topic, lock, conn, done, chanVars, sockVars, ctx, dialed, reads, pingVars,
                 cancelled, exited>>

\* Under the lock, copy r.conn; return if it is nil.
ReaderEnters(c) ==
  /\ lock = Nil
  /\ Goto(c, "enter", IF conn = Nil THEN "none" ELSE "read")
  /\ reads' = [reads EXCEPT ![c] = conn]
  /\ UNCHANGED <<topic, lock, conn, done, chanVars, sockVars, ctx, dialed, pingVars, cancelled, exited>>

\* ReadMessage returns a message, which is dispatched; it may bring the topic,
\* but a handler whose context is cancelled returns without looking at it.
ReaderReads(c) ==
  /\ pc[c] = "read" /\ link[reads[c]] = "open"
  /\ Goto(c, "read", "top")
  /\ reads' = [reads EXCEPT ![c] = Nil]
  /\ UNCHANGED topic \/ (~Cancelled(c) /\ ~done /\ topic' = TRUE)
  /\ UNCHANGED <<lock, conn, done, chanVars, sockVars, ctx, dialed, pingVars, cancelled, exited>>

\* ReadMessage runs the pong handler, which lifts the read deadline.
ReaderGetsPong(c) ==
  /\ ~exited /\ pc[c] = "read" /\ reads[c] \in pong
  /\ pong' = pong \ {reads[c]}
  /\ deadline' = deadline \ {reads[c]}
  /\ UNCHANGED <<topic, lock, conn, done, chanVars, link, pc, ctx, dialed, reads, pingVars,
                 cancelled, exited>>

\* Mutant: the reader returns without reconnecting.
ReaderReturns(c) ==
  /\ pc[c] = "read"
  /\ link[reads[c]] \in {"broken", "closed"} \/ reads[c] \in deadline
  /\ Goto(c, "read", "none")
  /\ UNCHANGED <<topic, lock, conn, done, chanVars, sockVars, ctx, dialed, reads, pingVars,
                 cancelled, exited>>

\* ReadMessage fails: socket error, socket closed here, or read deadline.
ReaderFails(c) ==
  /\ pc[c] = "read"
  /\ link[reads[c]] \in {"broken", "closed"} \/ reads[c] \in deadline
  /\ Goto(c, "read", "fail")
  /\ UNCHANGED <<topic, lock, conn, done, chanVars, sockVars, ctx, dialed, reads, pingVars,
                 cancelled, exited>>

\* Mutant: reconnect does not take the lock.
ReconnectUnlocked(c) ==
  /\ Goto(c, "fail", "connect")
  /\ CloseConn
  /\ ClosePingDone
  /\ UNCHANGED <<topic, lock, done, ctx, dialed, reads, pingVars, cancelled, exited>>

\* reconnect: closeConn and close(pingDoneChan) under the lock, then RetryableConnect.
Reconnect(c) ==
  /\ lock = Nil
  /\ Goto(c, "fail", "connect")
  /\ CloseConn
  /\ ClosePingDone
  /\ UNCHANGED <<topic, lock, done, ctx, dialed, reads, pingVars, cancelled, exited>>

-----------------------------------------------------------------------------
(***************************************************************************)
(* The pinger goroutine started with connection c.                         *)
(***************************************************************************)

\* Each pass through the loop evaluates r.pingDoneChan anew, without the lock.
PingerSelects(c) ==
  /\ ~exited /\ pinger[c] = "top"
  /\ pinger' = [pinger EXCEPT ![c] = "select"]
  /\ watch' = [watch EXCEPT ![c] = pingDone]
  /\ UNCHANGED <<topic, lock, conn, done, chanVars, sockVars, pc, ctx, dialed, reads,
                 cancelled, exited>>

PingerStops(c) ==
  /\ ~exited /\ pinger[c] = "select"
  /\ Cancelled(c) \/ done \/ watch[c] \in pingClosed
  /\ pinger' = [pinger EXCEPT ![c] = "none"]
  /\ watch' = [watch EXCEPT ![c] = Nil]
  /\ UNCHANGED <<topic, lock, conn, done, chanVars, sockVars, pc, ctx, dialed, reads,
                 cancelled, exited>>

PingerTicks(c) ==
  /\ ~exited /\ pinger[c] = "select"
  /\ pinger' = [pinger EXCEPT ![c] = "tick"]
  /\ watch' = [watch EXCEPT ![c] = Nil]
  /\ UNCHANGED <<topic, lock, conn, done, chanVars, sockVars, pc, ctx, dialed, reads,
                 cancelled, exited>>

\* Mutant: ping does not take the lock.
PingWritesUnlocked(c) ==
  /\ ~exited /\ pinger[c] = "tick"
  /\ IF conn = Nil
     THEN pinger' = [pinger EXCEPT ![c] = "top"] /\ UNCHANGED pong
     ELSE /\ pinger' = [pinger EXCEPT ![c] = "arm"]
          /\ pong' = IF link[conn] = "open" THEN pong \cup {conn} ELSE pong
  /\ UNCHANGED <<topic, lock, conn, done, chanVars, link, deadline, pc, ctx, dialed, reads, watch,
                 cancelled, exited>>

\* ping: under the lock, write the ping to r.conn (whosever connection it is) ...
PingWrites(c) ==
  /\ ~exited /\ pinger[c] = "tick" /\ lock = Nil
  /\ IF conn = Nil
     THEN pinger' = [pinger EXCEPT ![c] = "top"] /\ UNCHANGED <<topic, lock, pong>>
     ELSE /\ pinger' = [pinger EXCEPT ![c] = "arm"]
          /\ lock' = <<"ping", c>>
          /\ pong' = IF link[conn] = "open" THEN pong \cup {conn} ELSE pong
  /\ UNCHANGED <<topic, conn, done, chanVars, link, deadline, pc, ctx, dialed, reads, watch,
                 cancelled, exited>>

\* Mutant: no read deadline is set.
PingForgetsDeadline(c) ==
  /\ ~exited /\ pinger[c] = "arm"
  /\ pinger' = [pinger EXCEPT ![c] = "top"]
  /\ lock' = Nil
  /\ UNCHANGED <<topic, conn, done, chanVars, sockVars, pc, ctx, dialed, reads, watch,
                 cancelled, exited>>

\* ... and only then arm the read deadline, unless the write failed.
PingArms(c) ==
  /\ ~exited /\ pinger[c] = "arm"
  /\ pinger' = [pinger EXCEPT ![c] = "top"]
  /\ lock' = Nil
  /\ \/ deadline' = deadline \cup {conn}
     \/ link[conn] = "broken" /\ UNCHANGED deadline
  /\ UNCHANGED <<topic, conn, done, chanVars, link, pong, pc, ctx, dialed, reads, watch,
                 cancelled, exited>>

-----------------------------------------------------------------------------
(***************************************************************************)
(* The network and the process around the relayer.                         *)
(***************************************************************************)

\* The link to the relay server fails, with or without the socket noticing.
LinkFails(c, how) ==
  /\ ~exited /\ link[c] = "open" /\ how \in {"silent", "broken"}
  /\ link' = [link EXCEPT ![c] = how]
  /\ pong' = pong \ {c}
  /\ UNCHANGED <<topic, lock, conn, done, chanVars, deadline, pc, ctx, dialed, reads, pingVars,
                 cancelled, exited>>

\* SIGTERM cancels the process context and the calls' contexts derived from
\* it; what a signal connected under Background goes on.
Sigterm ==
  /\ ~exited /\ App \notin cancelled
  /\ cancelled' = Ctxs \ {Background}
  /\ UNCHANGED <<topic, lock, conn, done, chanVars, sockVars, pc, ctx, dialed, reads, pingVars, exited>>

\* main.run returns and runs the deferred Close.
MainReturns ==
  /\ Cancelled(Main)
  /\ Goto(Main, "wait", "exit")
  /\ Close
  /\ UNCHANGED <<topic, lock, ctx, dialed, reads, pingVars, cancelled, exited>>

\* main ends after run, or SHUTDOWN_TIMEOUT after the signal in any case.
ProcessExits ==
  /\ ~exited /\ App \in cancelled
  /\ exited' = TRUE
  /\ UNCHANGED <<topic, lock, conn, done, chanVars, sockVars, pc, ctx, dialed, reads, pingVars,
                 cancelled>>

ThreadStep(t) ==
  \/ ConnectLocks(t) \/ (\E c \in Conns : DialSucceeds(t, c))
  \/ DialFailsForNow(t) \/ DialGivesUp(t) \/ Wakes(t) \/ StartPinger(t) \/ StartReader(t)

ReaderStep(c) ==
  \/ ReaderPasses(c) \/ ReaderSeesCancel(c) \/ ReaderSeesDone(c) \/ ReaderEnters(c)
  \/ ReaderReads(c) \/ ReaderGetsPong(c) \/ ReaderFails(c) \/ Reconnect(c)

PingerStep(c) ==
  \/ PingerSelects(c) \/ PingerStops(c) \/ PingerTicks(c) \/ PingWrites(c) \/ PingArms(c)

Next ==
  \/ MainConnects \/ MainSkipsConnect \/ MainReturns \/ Sigterm \/ ProcessExits
  \/ \E s \in Signals : SignalArrives(s)
  \/ \E k \in Calls : CallArrives(k) \/ CallSucceeds(k) \/ CallFails(k)
  \/ \E t \in Threads : ThreadStep(t)
  \/ \E c \in Conns : ReaderStep(c) \/ PingerStep(c)
  \/ \E c \in Conns, how \in {"silent", "broken"} : LinkFails(c, how)

Spec == Init /\ [][Next]_vars

(***************************************************************************)
(* Goroutines that can run do run, a waiting Lock is served in turn        *)
(* (sync.Mutex is starvation free), timers fire, and a dial ends (the      *)
(* dialer's handshake timeout).  That a dial succeeds again and again is   *)
(* assumed of the network, and only where a property needs it.             *)
(***************************************************************************)
Dialled(t) == DialFailsForNow(t) \/ DialGivesUp(t) \/ \E c \in Conns : DialSucceeds(t, c)

\* What a thread does without waiting for the mutex, and what it waits for it to do.
Runs(t) ==
  \/ Dialled(t) \/ Wakes(t) \/ StartPinger(t) \/ StartReader(t)
  \/ t \in Conns /\ (ReaderPasses(t) \/ ReaderSeesDone(t) \/ ReaderFails(t))
Locks(t) ==
  \/ ConnectLocks(t)
  \/ t \in Conns /\ (ReaderEnters(t) \/ ReaderSeesCancel(t) \/ Reconnect(t))

Fairness ==
  /\ \A t \in Threads : WF_vars(Runs(t)) /\ SF_vars(Locks(t))
  /\ \A c \in Conns :
       /\ WF_vars(PingerSelects(c) \/ PingerStops(c) \/ PingerTicks(c) \/ PingArms(c))
       /\ SF_vars(PingWrites(c))

ServerReachable == \A t \in Threads : SF_vars(\E c \in Conns : DialSucceeds(t, c))

FairSpec == Spec /\ Fairness
ReachableSpec == FairSpec /\ ServerReachable

-----------------------------------------------------------------------------
(***************************************************************************)
(* Safety.                                                                 *)
(***************************************************************************)

\* A thread past the unlock of Connect that has yet to start c's goroutines.
Starting(t, c) == dialed[t] = c /\ pc[t] \in {"pinger", "reader"}
InLoop(c) == pc[c] \in {"top", "enter", "read", "fail"}

\* While the relayer is not closed, only the reader of the current connection
\* runs: a reader left over from an earlier connection never reads, and in
\* particular never tears down, the connection that replaced its own.
OnlyCurrentReader ==
  ~done => \A c \in Conns : InLoop(c) => conn = c

\* A socket that was dialled and not closed is the one in r.conn: no thread's
\* Connect overwrites, and so leaks, the connection of another.
NoSocketLeak == \A c \in Conns : link[c] # "closed" => conn = c

\* The connection in r.conn is read by its goroutine, or one thread is about
\* to start that goroutine: IsConnected never answers true for a connection
\* nobody listens to, as long as the relayer has not been closed.
ListeningUnlessClosed ==
  (conn # Nil /\ ~done) =>
     \/ InLoop(conn)
     \/ \E t \in Threads : Starting(t, conn)

\* reconnect and Close never close a pingDoneChan twice (a panic in Go).
PingDoneIsOpen == pingDone # Nil => pingDone \notin pingClosed

\* A pinger blocked in its select waits for the channel that the next
\* reconnect closes, or for one that is closed already (or for no channel, if
\* it looked between a reconnect and the next Connect): none is orphaned.
NoOrphanPinger ==
  \A c \in Conns : pinger[c] = "select" =>
     watch[c] = Nil \/ watch[c] = pingDone \/ watch[c] \in pingClosed

\* The connection is only ever dropped by the reader that saw it fail, or by
\* Close; it is never replaced without having been dropped.
DroppedByItsReader ==
  [][(conn # Nil /\ conn' # conn) => conn' = Nil /\ (pc[conn] = "fail" \/ done')]_vars

\* All of them together keep the promise of Session: there is one session at
\* a time, and only its own reader, or Close, ends it (relayer.go:306-321).
HasReader == conn # Nil /\ InLoop(conn)
Promise == INSTANCE Session WITH session <- conn, attended <- HasReader, shut <- done
KeepsSession == Promise!Spec

\* "Connect connects to the Relayer server and listens for messages"
\* (relayer.go:228): until the process is told to end, a connection that
\* IsConnected reports has a goroutine that reads it.
Listening ==
  (conn # Nil /\ App \notin cancelled) =>
     \/ InLoop(conn)
     \/ \E t \in Threads : Starting(t, conn)

-----------------------------------------------------------------------------
(***************************************************************************)
(* Liveness.                                                               *)
(***************************************************************************)

\* A link that dies without an error is noticed: a ping goes unanswered, the
\* read deadline passes and the connection is dropped, as long as the context
\* it was made under is not cancelled.
HalfOpenIsDropped ==
  \A c \in Conns :
    (conn = c /\ link[c] = "silent") ~> (conn # c \/ Cancelled(c) \/ done \/ exited)

\* "Failed to read message. Will attempt to reconnect shortly" (relayer.go:365):
\* if the server can be reached again and no dial fails for good, a lost
\* connection is followed by another, as long as the names of Conns, a bound of
\* the model, are not all held by pingers that have yet to notice.
LostIsReplaced ==
  []<>(\E c \in Conns : Fresh(c)) =>
    \A c \in Conns :
      pc[c] = "fail" ~> (conn # Nil /\ pc[c] # "fail") \/ Cancelled(c) \/ exited
=============================================================================
