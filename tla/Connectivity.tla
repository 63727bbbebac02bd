---------------------------- MODULE Connectivity ----------------------------
(***************************************************************************)
(* The connectivity watcher of feral-sys-monitord (connectivity.go): one   *)
(* goroutine dials the ping targets, records whether the device is online, *)
(* and on a change starts a goroutine that tells the handlers, closes and  *)
(* replaces doneChan, and hands over to a new polling goroutine.           *)
(***************************************************************************)
EXTENDS Monitord

CONSTANT Targets  \* PING_TARGET_ADDRESS

VARIABLES
  reach,     \* the targets that can be reached now
  last,      \* lastConnected
  poll,      \* where the polling goroutine is
  interval,  \* the ticker it waits on
  open,      \* the channel in doneChan is open
  reports    \* notifier goroutines that have yet to run, by what they report

connVars == <<reach, last, poll, interval, open, reports>>

States == {"online", "offline"}

ConnTypeOK ==
  /\ reach \subseteq Targets
  /\ last \in States \cup {"unknown"}
  /\ poll \in {"start", "first", "wait", "restart", "renew", "ended"}
  /\ interval \in {"none", "slow", "fast"}
  /\ open \in BOOLEAN
  /\ reports \subseteq States

ConnInit ==
  /\ reach \in SUBSET Targets
  /\ last = "unknown"  /\ poll = "start"  /\ interval = "none"
  /\ open = TRUE  /\ reports = {}

\* The network between the device and the targets.
NetworkChanges ==
  /\ reach' \in SUBSET Targets /\ reach' # reach
  /\ UNCHANGED <<last, poll, interval, open, reports>>

\* Online if some dial succeeds; the first dial that fails cancels the others,
\* so that a target that cannot be reached may hide one that can.
CheckConnectivity ==
  (IF reach # {} THEN {"online"} ELSE {})
    \cup (IF reach # Targets \/ ctxDone THEN {"offline"} ELSE {})

\* notifyHandlers: one goroutine for the one registered handler.  Bound of the
\* model: at most one of them per state is waiting to run.
NotifyHandlers(state) ==
  /\ state \notin reports
  /\ reports' = IF registered THEN reports \cup {state} ELSE reports

IntervalFor(state) == IF state = "online" THEN "slow" ELSE "fast"

\* background: look at lastConnected; if it is known only a ticker is made.
PollStarts ==
  /\ poll = "start"
  /\ IF last = "unknown"
     THEN poll' = "first" /\ UNCHANGED interval
     ELSE poll' = "wait" /\ interval' = IntervalFor(last)
  /\ UNCHANGED <<reach, last, open, reports>>

FirstCheck(state) ==
  /\ poll = "first" /\ state \in CheckConnectivity
  /\ last' = state
  /\ NotifyHandlers(state)
  /\ poll' = "wait" /\ interval' = IntervalFor(state)
  /\ UNCHANGED <<reach, open>>

\* Mutant: the watcher goes on with the ticker it has.
TickGoesOn(state) ==
  /\ poll = "wait" /\ state \in CheckConnectivity
  /\ last' = state
  /\ IF state = last THEN UNCHANGED reports ELSE NotifyHandlers(state)
  /\ UNCHANGED <<reach, poll, interval, open>>

\* A tick: record the state; a change is reported and the watcher restarts.
Tick(state) ==
  /\ poll = "wait" /\ state \in CheckConnectivity
  /\ last' = state
  /\ IF state = last
     THEN UNCHANGED <<poll, reports>>
     ELSE poll' = "restart" /\ NotifyHandlers(state)
  /\ UNCHANGED <<reach, interval, open>>

\* restart: Stop closes doneChan, ...
RestartStops ==
  /\ poll = "restart"
  /\ poll' = "renew" /\ open' = FALSE
  /\ UNCHANGED <<reach, last, interval, reports>>

\* Mutant: the closed channel is not replaced.
RestartKeepsChannel ==
  /\ poll = "renew"
  /\ poll' = "start"
  /\ UNCHANGED <<reach, last, interval, open, reports>>

\* ... which is replaced without the lock; Start runs the next goroutine.
RestartRenews ==
  /\ poll = "renew"
  /\ poll' = "start" /\ open' = TRUE
  /\ UNCHANGED <<reach, last, interval, reports>>

PollStops ==
  /\ poll = "wait" /\ (ctxDone \/ ~open)
  /\ poll' = "ended"
  /\ UNCHANGED <<reach, last, interval, open, reports>>

\* A notifier looks at the context and at whatever doneChan is by now.
NotifierRuns(state) ==
  /\ state \in reports
  /\ reports' = reports \ {state}
  /\ UNCHANGED <<reach, last, poll, interval, open>>

\* main's deferred Stop.
WatcherStopped ==
  /\ ctxDone /\ open
  /\ open' = FALSE
  /\ UNCHANGED <<reach, last, poll, interval, reports>>

PollStep ==
  \/ PollStarts \/ RestartStops \/ RestartRenews \/ PollStops
  \/ \E state \in States : FirstCheck(state) \/ Tick(state)

ConnNext ==
  \/ NetworkChanges \/ PollStep \/ WatcherStopped
  \/ \E state \in States : NotifierRuns(state)

-----------------------------------------------------------------------------
\* While it waits, the watcher polls at the rate of the state it recorded:
\* slowly online, fast offline; and unless the process ends its doneChan is
\* open, so that no restart leaves a device without a watcher.
PollsAtItsRate ==
  poll = "wait" => interval = IntervalFor(last) /\ (open \/ ctxDone)

\* The network settled for good is recorded for good: a device that stays
\* online (offline) is in the end known to be online (offline).
Settles ==
  /\ <>[](reach = Targets /\ ~ctxDone) => <>[](last = "online")
  /\ <>[](reach = {} /\ ~ctxDone) => <>[](last = "offline")

\* "notifyHandlers notifies all registered handlers about connectivity status"
\* (connectivity.go:101): no report of a change is dropped while the process runs.
NotifiesAll ==
  [][\A state \in States : state \in reports /\ state \notin reports' => open \/ ctxDone]_connVars
=============================================================================
