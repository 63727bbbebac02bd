----------------------------- MODULE TopicCall -----------------------------
(***************************************************************************)
(* How a device learns the topic it is reached under: GetRelayerTopicID of *)
(* dbus.go, which adds a handler to the relayer, asks for a connection and *)
(* waits for the relay server's system message; the reader's dispatch of a *)
(* message to the handlers, each in a goroutine of its own (relayer.go);   *)
(* the mediator's own handler; and the state file (state.go).              *)
(*                                                                         *)
(* Of the connection only what decides whether a message is handled is     *)
(* kept: whose context it runs under, and whether the relayer is closed.   *)
(* Module Relayer has the rest.  The name of a call, or of a handler's     *)
(* goroutine, is used again when nothing refers to it.                     *)
(***************************************************************************)
EXTENDS Naturals, FiniteSets, SequencesExt

CONSTANTS
  Calls,     \* GetRelayerTopicID calls
  Handling,  \* goroutines that run a handler; bounds how many run at once
  Topics,    \* topics the server may send
  Mediator,  \* the mediator's handler
  App,       \* the context of the process
  Dead,      \* a context that has been cancelled
  Nil        \* no topic, no connection, nobody dialling, no goroutine

Ctxs  == Calls \cup {App, Dead}
Tasks == [who : Calls \cup {Mediator}, ctx : Ctxs, topic : Topics \cup {Nil},
          at : {"start", "save", "remove", "err"}]

ASSUME ConstantsAreDistinct ==
  /\ Mediator \notin Calls /\ App \notin Calls /\ Dead \notin Calls /\ App # Dead
  /\ Nil \notin Topics \cup Ctxs \cup Tasks

VARIABLES
  memory,    \* the topic in the shared State
  file,      \* the topic in the state file
  handlers,  \* r.handlers
  view,      \* what the reader's range over r.handlers has yet to visit
  msg,       \* the topic in the message it dispatches
  dialing,   \* who holds the relayer's mutex to dial: a call or App
  owner,     \* the context of the connection and its reader
  closed,    \* r.done is closed: no reader will ever run again
  pc,        \* where each call is
  received,  \* calls whose doneChan is closed
  task,      \* the goroutine of each handler
  crowded,   \* history variable: calls that met another call, or what it left
  told       \* history variable: how calls were answered

stateVars == <<memory, file>>
readVars == <<view, msg>>
connVars == <<dialing, owner, closed>>
histVars == <<crowded, told>>
vars == <<stateVars, handlers, readVars, connVars, pc, received, task, histVars>>

TypeOK ==
  /\ memory \in Topics \cup {Nil} /\ file \in Topics \cup {Nil}
  /\ handlers \in Seq(Calls \cup {Mediator}) /\ view \in Seq(Calls \cup {Mediator})
  /\ msg \in Topics \cup {Nil}
  /\ dialing \in Calls \cup {App, Nil} /\ owner \in Ctxs \cup {Nil}
  /\ closed \in BOOLEAN
  /\ pc \in [Calls -> {"idle", "register", "connect", "wait"}]
  /\ received \in SUBSET Calls
  /\ task \in [Handling -> Tasks \cup {Nil}]
  /\ crowded \in SUBSET Calls
  /\ told \in SUBSET {"received", "known"}

Init ==
  /\ memory = Nil /\ file = Nil
  /\ handlers = <<Mediator>> /\ view = <<>> /\ msg = Nil
  /\ dialing = Nil /\ owner = Nil /\ closed = FALSE
  /\ pc = [k \in Calls |-> "idle"] /\ received = {}
  /\ task = [g \in Handling |-> Nil]
  /\ crowded = {} /\ told = {}

Active(k) == pc[k] # "idle"
Runs(h) == \E g \in Handling : task[g] # Nil /\ task[g].who = h
\* The call is not over, or a handler of it is still to run.
Around(k) == Active(k) \/ Runs(k) \/ k \in Range(view)

-----------------------------------------------------------------------------
(***************************************************************************)
(* RemoveRelayerMessage compares handlers by the address of their code,    *)
(* which all handlers of calls share: it removes the first of them.  The   *)
(* removal moves the entries behind it in the array the reader may be      *)
(* ranging over, and leaves the last one where it was, if it still is that *)
(* array: adding a handler may have moved the list to another one.         *)
(***************************************************************************)
Shifted(s) == {s} \cup {Append(RemoveAt(s, i), Last(s)) : i \in DOMAIN s}

IsFirstCall(i) == handlers[i] \in Calls /\ \A j \in 1 .. i - 1 : handlers[j] \notin Calls

RemoveHandler ==
  \/ \E i \in DOMAIN handlers :
       /\ IsFirstCall(i)
       /\ handlers' = RemoveAt(handlers, i)
       /\ view' \in Shifted(view)
  \/ Range(handlers) \cap Calls = {} /\ UNCHANGED <<handlers, view>>

(***************************************************************************)
(* GetRelayerTopicID.                                                      *)
(***************************************************************************)

\* A topic in memory is the answer, saved or not.
CallAnsweredAtOnce(k) ==
  /\ pc[k] = "idle" /\ memory # Nil
  /\ told' = told \cup {"known"}
  /\ UNCHANGED <<stateVars, handlers, readVars, connVars, pc, received, task, crowded>>

\* No goroutine, message or context refers to the name any more.
Free(k) ==
  /\ ~Around(k) /\ k \notin Range(handlers) /\ owner # k
  /\ \A g \in Handling : task[g] # Nil => task[g].ctx # k

CallArrives(k) ==
  /\ Free(k) /\ memory = Nil
  /\ pc' = [pc EXCEPT ![k] = "register"]
  /\ crowded' = LET others == {j \in Calls : Around(j)}
                IN IF others = {} THEN crowded \ {k} ELSE crowded \cup others \cup {k}
  /\ UNCHANGED <<stateVars, handlers, readVars, connVars, received, task, told>>

\* OnRelayerMessage takes the relayer's mutex, which a dial in progress holds.
CallRegisters(k) ==
  /\ pc[k] = "register" /\ dialing = Nil
  /\ handlers' = Append(handlers, k)
  /\ pc' = [pc EXCEPT ![k] = "connect"]
  /\ UNCHANGED <<stateVars, readVars, connVars, received, task, histVars>>

\* RetryableConnect returns at once if there is a connection, whoever's it is.
CallFindsConn(k) ==
  /\ pc[k] = "connect" /\ dialing = Nil /\ owner # Nil
  /\ pc' = [pc EXCEPT ![k] = "wait"]
  /\ UNCHANGED <<stateVars, handlers, readVars, connVars, received, task, histVars>>

CallDials(k) ==
  /\ pc[k] = "connect" /\ dialing = Nil /\ owner = Nil
  /\ dialing' = k
  /\ UNCHANGED <<stateVars, handlers, readVars, owner, closed, pc, received, task, histVars>>

CallConnects(k) ==
  /\ dialing = k
  /\ dialing' = Nil /\ owner' = k
  /\ pc' = [pc EXCEPT ![k] = "wait"]
  /\ UNCHANGED <<stateVars, handlers, readVars, closed, received, task, histVars>>

\* RetryableConnect sleeps and dials again, past the call's deadline if need be.
DialFails ==
  /\ dialing # Nil
  /\ dialing' = Nil
  /\ UNCHANGED <<stateVars, handlers, readVars, owner, closed, pc, received, task, histVars>>

\* A handler's goroutine that waits on errChan is left behind by the call's return.
Abandoned(k, g) == task[g] # Nil /\ task[g].who = k /\ task[g].at = "err"

\* Every return runs the deferred RemoveRelayerMessage, which takes the mutex.
CallReturns(k) ==
  /\ pc' = [pc EXCEPT ![k] = "idle"]
  /\ received' = received \ {k}
  /\ RemoveHandler

\* retryCancel: the context is that of the connection too, if this call dialled it.
CallFails(k) ==
  /\ CallReturns(k)
  /\ owner' = IF owner = k THEN Dead ELSE owner
  /\ task' = [g \in Handling |->
                IF Abandoned(k, g) THEN Nil
                ELSE IF task[g] # Nil /\ task[g].ctx = k THEN [task[g] EXCEPT !.ctx = Dead]
                ELSE task[g]]
  /\ UNCHANGED <<stateVars, msg, closed, histVars>>

\* A permanent dial error.
CallGivesUp(k) ==
  /\ dialing = k /\ dialing' = Nil
  /\ CallFails(k)

\* Mutant: the deferred removal is missing.
CallIsAnsweredKeeping(k) ==
  /\ pc[k] = "wait" /\ k \in received
  /\ pc' = [pc EXCEPT ![k] = "idle"] /\ received' = received \ {k}
  /\ told' = told \cup {"received"}
  /\ task' = [g \in Handling |-> IF Abandoned(k, g) THEN Nil ELSE task[g]]
  /\ UNCHANGED <<stateVars, handlers, view, msg, connVars, crowded>>

\* <-doneChan
CallIsAnswered(k) ==
  /\ pc[k] = "wait" /\ k \in received /\ dialing = Nil
  /\ CallReturns(k)
  /\ told' = told \cup {"received"}
  /\ task' = [g \in Handling |-> IF Abandoned(k, g) THEN Nil ELSE task[g]]
  /\ UNCHANGED <<stateVars, msg, connVars, crowded>>

\* <-errChan: a handler of this call could not save, or got no topic.
CallGetsError(k) ==
  /\ pc[k] = "wait" /\ \E g \in Handling : Abandoned(k, g)
  /\ dialing = Nil /\ UNCHANGED dialing
  /\ CallFails(k)

\* The deadline, which is looked at only here.
CallTimesOut(k) ==
  /\ pc[k] = "wait"
  /\ dialing = Nil /\ UNCHANGED dialing
  /\ CallFails(k)

-----------------------------------------------------------------------------
(***************************************************************************)
(* The connection and its reader.                                          *)
(***************************************************************************)

\* main.run at start-up, or the mediator on a connectivity signal.
AppDials ==
  /\ dialing = Nil /\ owner = Nil
  /\ dialing' = App
  /\ UNCHANGED <<stateVars, handlers, readVars, owner, closed, pc, received, task, histVars>>

AppConnects ==
  /\ dialing = App
  /\ dialing' = Nil /\ owner' = App
  /\ UNCHANGED <<stateVars, handlers, readVars, closed, pc, received, task, histVars>>

\* The link is lost and the reader's reconnect gives up; one that succeeds keeps
\* the context and is no step.  (Who dials while it retries is in Relayer.)
LinkLost ==
  /\ owner # Nil /\ view = <<>> /\ ~closed
  /\ owner' = Nil
  /\ UNCHANGED <<stateVars, handlers, readVars, dialing, closed, pc, received, task, histVars>>

\* The reader sees that its context is cancelled and closes the relayer.
ReaderCloses ==
  /\ owner = Dead /\ dialing = Nil /\ view = <<>> /\ ~closed
  /\ closed' = TRUE /\ owner' = Nil
  /\ UNCHANGED <<stateVars, handlers, readVars, dialing, pc, received, task, histVars>>

\* A system message, with a topic or without; the range takes the handlers of now.
MessageArrives(topic) ==
  /\ owner # Nil /\ dialing = Nil /\ ~closed /\ view = <<>>
  /\ view' = handlers /\ msg' = topic
  /\ UNCHANGED <<stateVars, handlers, connVars, pc, received, task, histVars>>

Dispatches(g) ==
  /\ view # <<>> /\ task[g] = Nil
  /\ task' = [task EXCEPT ![g] = [who |-> Head(view), ctx |-> owner,
                                  topic |-> msg, at |-> "start"]]
  /\ view' = Tail(view)
  /\ UNCHANGED <<stateVars, handlers, msg, connVars, pc, received, histVars>>

-----------------------------------------------------------------------------
(***************************************************************************)
(* A handler's goroutine: handleRelayerMessage, or the closure of a call.  *)
(***************************************************************************)
At(g, place) == task[g] # Nil /\ task[g].at = place

\* An error blocks on errChan while the call lives, and is logged by the mediator.
Failed(g) ==
  IF task[g].who \in Calls /\ Active(task[g].who)
  THEN task' = [task EXCEPT ![g].at = "err"]
  ELSE task' = [task EXCEPT ![g] = Nil]

HandlerIsCut(g) ==
  /\ At(g, "start") /\ (task[g].ctx = Dead \/ closed)
  /\ task' = [task EXCEPT ![g] = Nil]
  /\ UNCHANGED <<stateVars, handlers, readVars, connVars, pc, received, histVars>>

\* Mutant: a handler that got no topic removes itself and reports nothing.
HandlerGivesUp(g) ==
  /\ At(g, "start") /\ task[g].ctx # Dead /\ ~closed /\ task[g].topic = Nil
  /\ IF task[g].who = Mediator THEN UNCHANGED <<handlers, view>> ELSE RemoveHandler
  /\ task' = [task EXCEPT ![g] = Nil]
  /\ UNCHANGED <<stateVars, msg, connVars, pc, received, histVars>>

HandlerGetsNoTopic(g) ==
  /\ At(g, "start") /\ task[g].ctx # Dead /\ ~closed /\ task[g].topic = Nil
  /\ Failed(g)
  /\ UNCHANGED <<stateVars, handlers, readVars, connVars, pc, received, histVars>>

\* The topic is put into the State everybody shares ...
HandlerSetsTopic(g) ==
  /\ At(g, "start") /\ task[g].ctx # Dead /\ ~closed /\ task[g].topic # Nil
  /\ memory' = task[g].topic
  /\ task' = [task EXCEPT ![g].at = "save"]
  /\ UNCHANGED <<file, handlers, readVars, connVars, pc, received, histVars>>

\* Mutant: doneChan is closed whether or not the state could be saved.
HandlerSaveFailsSilently(g) ==
  /\ At(g, "save")
  /\ IF task[g].who = Mediator
     THEN task' = [task EXCEPT ![g] = Nil] /\ UNCHANGED received
     ELSE /\ task' = [task EXCEPT ![g].at = "remove"]
          /\ received' = received \cup ({task[g].who} \cap {k \in Calls : Active(k)})
  /\ UNCHANGED <<stateVars, handlers, readVars, connVars, pc, histVars>>

\* ... before Save has failed ...
HandlerSaveFails(g) ==
  /\ At(g, "save")
  /\ Failed(g)
  /\ UNCHANGED <<stateVars, handlers, readVars, connVars, pc, received, histVars>>

\* ... or has written the State as it is by now, through a temporary file.
HandlerSaves(g) ==
  /\ At(g, "save")
  /\ file' = memory
  /\ IF task[g].who = Mediator
     THEN task' = [task EXCEPT ![g] = Nil] /\ UNCHANGED received
     ELSE /\ task' = [task EXCEPT ![g].at = "remove"]
          /\ received' = received \cup ({task[g].who} \cap {k \in Calls : Active(k)})
  /\ UNCHANGED <<memory, handlers, readVars, connVars, pc, histVars>>

\* The handler removes itself, or the first of its kind.
HandlerRemoves(g) ==
  /\ At(g, "remove") /\ dialing = Nil
  /\ RemoveHandler
  /\ task' = [task EXCEPT ![g] = Nil]
  /\ UNCHANGED <<stateVars, msg, connVars, pc, received, histVars>>

-----------------------------------------------------------------------------
\* The app's connect command saves the same State, on account of its device.
CommandSaves ==
  /\ file' = memory
  /\ UNCHANGED <<memory, handlers, readVars, connVars, pc, received, task, histVars>>

\* The process ends, killed or for lack of power, and is started again: Load
\* brings back what was saved.
Restart ==
  /\ memory' = file
  /\ handlers' = <<Mediator>> /\ view' = <<>> /\ msg' = Nil
  /\ dialing' = Nil /\ owner' = Nil /\ closed' = FALSE
  /\ pc' = [k \in Calls |-> "idle"] /\ received' = {}
  /\ task' = [g \in Handling |-> Nil]
  /\ crowded' = {}
  /\ UNCHANGED <<file, told>>

Next ==
  \/ \E k \in Calls :
       \/ CallAnsweredAtOnce(k) \/ CallArrives(k) \/ CallRegisters(k) \/ CallFindsConn(k)
       \/ CallDials(k) \/ CallConnects(k) \/ CallGivesUp(k) \/ CallIsAnswered(k)
       \/ CallGetsError(k) \/ CallTimesOut(k)
  \/ \E topic \in Topics \cup {Nil} : MessageArrives(topic)
  \/ \E g \in Handling :
       \/ Dispatches(g) \/ HandlerIsCut(g) \/ HandlerGetsNoTopic(g) \/ HandlerSetsTopic(g)
       \/ HandlerSaveFails(g) \/ HandlerSaves(g) \/ HandlerRemoves(g)
  \/ AppDials \/ AppConnects \/ DialFails \/ LinkLost \/ ReaderCloses
  \/ CommandSaves \/ Restart

Spec == Init /\ [][Next]_vars

-----------------------------------------------------------------------------
\* No handler outlives its call: however calls overlap and whichever handler a
\* removal picks, there are never more of them than calls that wait for one.
NoHandlerLeft ==
  Cardinality({i \in DOMAIN handlers : handlers[i] \in Calls})
     <= Cardinality({k \in Calls : pc[k] \in {"connect", "wait"}})

\* A call that was answered through its doneChan has its topic on disk, and
\* keeps it there: after a restart the device is still paired.
AnsweredIsSaved == "received" \in told => file # Nil

\* A call that never met another one, or a late handler of one, hears the next
\* topic: it is on the list, or it has been told already.
HearsTopic ==
  \A k \in Calls : (pc[k] = "wait" /\ k \notin crowded) =>
     k \in Range(handlers) \/ k \in received
=============================================================================
