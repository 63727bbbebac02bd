-------------------------- MODULE TopicCallProofs --------------------------
(***************************************************************************)
(* Pairing for any number of calls, of handlers that run at once and of    *)
(* topics.  Answered topics: what that lacks to be inductive is that a     *)
(* handler that saves has put its topic into the shared State, that        *)
(* doneChan is closed only once a topic is saved, and that, whoever writes *)
(* the file, memory is never behind it.  Handlers: a removal takes the     *)
(* first one of any call, so what is kept is a count, in which every       *)
(* removal still to come has its call.  Hearing: as long as a call is      *)
(* alone, the handlers, the goroutines and the mutex are its own.          *)
(***************************************************************************)
EXTENDS TopicCall, FiniteSetTheorems, SequenceTheorems, TLAPS

Hs == Calls \cup {Mediator}

Places ==
  /\ memory \in Topics \cup {Nil} /\ file \in Topics \cup {Nil}
  /\ msg \in Topics \cup {Nil}
  /\ dialing \in Calls \cup {App, Nil} /\ owner \in Ctxs \cup {Nil}
  /\ pc \in [Calls -> {"idle", "register", "connect", "wait"}]
  /\ received \in SUBSET Calls
  /\ crowded \in SUBSET Calls /\ told \in SUBSET {"received", "known"}
Lists == handlers \in Seq(Hs) /\ view \in Seq(Hs)
Tasked == task \in [Handling -> Tasks \cup {Nil}]
\* A reader that dispatches has a context to give its handlers.
Owned == view # <<>> => owner # Nil

SavedInv ==
  /\ \A g \in Handling : At(g, "save") => memory # Nil
  /\ received # {} => file # Nil
  /\ file # Nil => memory # Nil
  /\ AnsweredIsSaved

USE ConstantsAreDistinct

LEMMA TypeOKParts == TypeOK <=> Places /\ Lists /\ Tasked /\ closed \in BOOLEAN
  BY DEF TypeOK, Places, Lists, Tasked, Hs

-----------------------------------------------------------------------------
\* Removing an entry of a sequence leaves a sequence, one entry shorter.
LEMMA RemoveAtIsSeq ==
  ASSUME NEW S, NEW s \in Seq(S), NEW i \in DOMAIN s
  PROVE  RemoveAt(s, i) \in Seq(S) /\ Len(RemoveAt(s, i)) = Len(s) - 1
<1> DEFINE before == SubSeq(s, 1, i - 1)
           after  == SubSeq(s, i + 1, Len(s))
<1>1. Len(s) \in Nat /\ i \in 1 .. Len(s)
  OBVIOUS
<1>2. before \in Seq(S) /\ Len(before) = i - 1
  BY <1>1, SubSeqProperties
<1>3. after \in Seq(S) /\ Len(after) = Len(s) - i
  BY <1>1, SubSeqProperties
<1>4. RemoveAt(s, i) = before \o after
  BY DEF RemoveAt
<1> HIDE DEF before, after
<1>5. before \o after \in Seq(S) /\ Len(before \o after) = Len(before) + Len(after)
  BY <1>2, <1>3, ConcatProperties
<1>6. Len(before) + Len(after) = Len(s) - 1
  BY <1>1, <1>2, <1>3
<1> QED
  BY <1>4, <1>5, <1>6

\* A removal under a running range leaves it with as many entries to visit.
LEMMA ShiftedIsSeq ==
  ASSUME NEW S, NEW s \in Seq(S), NEW r \in Shifted(s)
  PROVE  r \in Seq(S) /\ (r = <<>> <=> s = <<>>)
<1>1. CASE r = s
  BY <1>1
<1>2. CASE \E i \in DOMAIN s : r = Append(RemoveAt(s, i), Last(s))
  <2>1. PICK i \in DOMAIN s : r = Append(RemoveAt(s, i), Last(s))
    BY <1>2
  <2>2. Last(s) \in S /\ s # <<>>
    BY DEF Last
  <2>3. RemoveAt(s, i) \in Seq(S)
    BY RemoveAtIsSeq
  <2> QED
    BY <2>1, <2>2, <2>3, AppendProperties
<1> QED
  BY <1>1, <1>2 DEF Shifted

LEMMA RemoveKeepsLists ==
  ASSUME Lists, RemoveHandler
  PROVE  Lists' /\ (view' = <<>> <=> view = <<>>)
<1>1. CASE UNCHANGED <<handlers, view>>
  BY <1>1 DEF Lists
<1>2. CASE \E i \in DOMAIN handlers : handlers' = RemoveAt(handlers, i) /\ view' \in Shifted(view)
  BY <1>2, RemoveAtIsSeq, ShiftedIsSeq DEF Lists
<1> QED
  BY <1>1, <1>2 DEF RemoveHandler

Types == Places /\ Lists /\ Tasked /\ Owned

\* The three ways a call fails, up to what lets them happen.
LEMMA FailingKeepsTypes ==
  ASSUME Types, NEW k \in Calls, CallFails(k), dialing' \in {dialing, Nil}
  PROVE  Types'
<1>1. Lists' /\ (view' = <<>> <=> view = <<>>)
  BY RemoveKeepsLists DEF CallFails, CallReturns, Types
<1>2. Places'
  BY DEF Types, Places, CallFails, CallReturns, stateVars, histVars, Ctxs
<1>3. Tasked'
  <2>1. \A g \in Handling : task'[g] \in Tasks \cup {Nil}
    BY DEF Types, Tasked, CallFails, Tasks, Ctxs
  <2> QED
    BY <2>1 DEF Types, Tasked, CallFails
<1>4. Owned'
  BY <1>1 DEF Types, Owned, CallFails, Ctxs
<1> QED
  BY <1>1, <1>2, <1>3, <1>4 DEF Types

LEMMA CallsKeepTypes ==
  ASSUME Types, NEW k \in Calls
  PROVE  /\ CallAnsweredAtOnce(k) => Types'
         /\ CallArrives(k) => Types'
         /\ CallRegisters(k) => Types'
         /\ CallFindsConn(k) => Types'
         /\ CallDials(k) => Types'
         /\ CallConnects(k) => Types'
         /\ CallGivesUp(k) => Types'
         /\ CallIsAnswered(k) => Types'
         /\ CallGetsError(k) => Types'
         /\ CallTimesOut(k) => Types'
<1> USE DEF Types, Places, Lists, Tasked, Owned, stateVars, readVars, connVars, histVars
<1>1. ASSUME CallAnsweredAtOnce(k) PROVE Types'
  BY <1>1 DEF CallAnsweredAtOnce
<1>2. ASSUME CallArrives(k) PROVE Types'
  BY <1>2 DEF CallArrives
<1>3. ASSUME CallRegisters(k) PROVE Types'
  <2>1. Lists'
    BY <1>3, AppendProperties DEF CallRegisters, Hs
  <2> QED
    BY <1>3, <2>1 DEF CallRegisters
<1>4. ASSUME CallFindsConn(k) PROVE Types'
  BY <1>4 DEF CallFindsConn
<1>5. ASSUME CallDials(k) PROVE Types'
  BY <1>5 DEF CallDials
<1>6. ASSUME CallConnects(k) PROVE Types'
  BY <1>6 DEF CallConnects, Ctxs
<1>7. ASSUME CallGivesUp(k) PROVE Types'
  BY <1>7, FailingKeepsTypes DEF CallGivesUp
<1>8. ASSUME CallIsAnswered(k) PROVE Types'
  <2>1. Lists' /\ (view' = <<>> <=> view = <<>>)
    BY <1>8, RemoveKeepsLists DEF CallIsAnswered, CallReturns
  <2>2. Tasked'
    BY <1>8 DEF CallIsAnswered
  <2> QED
    BY <1>8, <2>1, <2>2 DEF CallIsAnswered, CallReturns
<1>9. ASSUME CallGetsError(k) PROVE Types'
  BY <1>9, FailingKeepsTypes DEF CallGetsError
<1>10. ASSUME CallTimesOut(k) PROVE Types'
  BY <1>10, FailingKeepsTypes DEF CallTimesOut
<1> QED
  BY <1>1, <1>2, <1>3, <1>4, <1>5, <1>6, <1>7, <1>8, <1>9, <1>10

LEMMA ConnectionsKeepTypes ==
  ASSUME Types
  PROVE  /\ AppDials \/ AppConnects \/ DialFails \/ LinkLost \/ ReaderCloses => Types'
         /\ \A topic \in Topics \cup {Nil} : MessageArrives(topic) => Types'
         /\ CommandSaves => Types'
         /\ Restart => Types'
<1> USE DEF Types, Places, Lists, Tasked, Owned, stateVars, readVars, connVars, histVars, Ctxs
<1>1. ASSUME AppDials \/ AppConnects \/ DialFails \/ LinkLost \/ ReaderCloses PROVE Types'
  BY <1>1 DEF AppDials, AppConnects, DialFails, LinkLost, ReaderCloses
<1>2. ASSUME NEW topic \in Topics \cup {Nil}, MessageArrives(topic) PROVE Types'
  BY <1>2 DEF MessageArrives
<1>3. ASSUME CommandSaves PROVE Types'
  BY <1>3 DEF CommandSaves
<1>4. ASSUME Restart PROVE Types'
  BY <1>4 DEF Restart, Hs
<1> QED
  BY <1>1, <1>2, <1>3, <1>4

LEMMA FailedKeepsTypes ==
  ASSUME Types, NEW g \in Handling, task[g] # Nil, Failed(g)
  PROVE  Tasked'
<1>1. task[g] \in Tasks
  BY DEF Types, Tasked
<1>2. [task[g] EXCEPT !.at = "err"] \in Tasks
  BY <1>1 DEF Tasks
<1> QED
  BY <1>2 DEF Failed, Types, Tasked

LEMMA HandlersKeepTypes ==
  ASSUME Types, NEW g \in Handling
  PROVE  /\ Dispatches(g) => Types'
         /\ HandlerIsCut(g) => Types'
         /\ HandlerGetsNoTopic(g) => Types'
         /\ HandlerSetsTopic(g) => Types'
         /\ HandlerSaveFails(g) => Types'
         /\ HandlerSaves(g) => Types'
         /\ HandlerRemoves(g) => Types'
<1> USE DEF Types, Places, Lists, Tasked, Owned, stateVars, readVars, connVars, histVars
<1>1. ASSUME Dispatches(g) PROVE Types'
  <2>1. Head(view) \in Hs /\ Tail(view) \in Seq(Hs)
    BY <1>1 DEF Dispatches
  <2>2. [who |-> Head(view), ctx |-> owner, topic |-> msg, at |-> "start"] \in Tasks
    BY <1>1, <2>1 DEF Dispatches, Tasks, Hs
  <2> QED
    BY <1>1, <2>1, <2>2 DEF Dispatches
<1>2. ASSUME HandlerIsCut(g) PROVE Types'
  BY <1>2 DEF HandlerIsCut
<1>3. ASSUME HandlerGetsNoTopic(g) PROVE Types'
  <2>1. Tasked'
    BY <1>3, FailedKeepsTypes DEF HandlerGetsNoTopic, At
  <2> QED
    BY <1>3, <2>1 DEF HandlerGetsNoTopic
<1>4. ASSUME HandlerSetsTopic(g) PROVE Types'
  <2>1. task[g] \in Tasks /\ [task[g] EXCEPT !.at = "save"] \in Tasks
    BY <1>4 DEF HandlerSetsTopic, At, Tasks
  <2>2. task[g].topic \in Topics
    BY <1>4, <2>1 DEF HandlerSetsTopic, Tasks
  <2> QED
    BY <1>4, <2>1, <2>2 DEF HandlerSetsTopic
<1>5. ASSUME HandlerSaveFails(g) PROVE Types'
  <2>1. Tasked'
    BY <1>5, FailedKeepsTypes DEF HandlerSaveFails, At
  <2> QED
    BY <1>5, <2>1 DEF HandlerSaveFails
<1>6. ASSUME HandlerSaves(g) PROVE Types'
  <2>1. task[g] \in Tasks /\ [task[g] EXCEPT !.at = "remove"] \in Tasks
    BY <1>6 DEF HandlerSaves, At, Tasks
  <2>2. task' = [task EXCEPT ![g] = Nil] \/ task' = [task EXCEPT ![g].at = "remove"]
    BY <1>6 DEF HandlerSaves
  <2>3. \A k \in received' : k \in Calls
    BY <1>6 DEF HandlerSaves
  <2>4. Tasked'
    BY <2>1, <2>2
  <2> QED
    BY <1>6, <2>3, <2>4 DEF HandlerSaves
<1>7. ASSUME HandlerRemoves(g) PROVE Types'
  <2>1. Lists' /\ (view' = <<>> <=> view = <<>>)
    BY <1>7, RemoveKeepsLists DEF HandlerRemoves
  <2> QED
    BY <1>7, <2>1 DEF HandlerRemoves
<1> QED
  BY <1>1, <1>2, <1>3, <1>4, <1>5, <1>6, <1>7

LEMMA NextKeepsTypes == Types /\ [Next]_vars => Types'
<1> SUFFICES ASSUME Types, [Next]_vars PROVE Types'
  OBVIOUS
<1>1. CASE UNCHANGED vars
  BY <1>1 DEF Types, Places, Lists, Tasked, Owned, vars, stateVars, readVars, connVars, histVars
<1>2. CASE Next
  BY <1>2, CallsKeepTypes, HandlersKeepTypes, ConnectionsKeepTypes DEF Next
<1> QED
  BY <1>1, <1>2

LEMMA InitTypes == Init => Types
  BY DEF Init, Types, Places, Lists, Tasked, Owned, Hs

\* r.done is closed once, or not at all, until the process starts again.
LEMMA ClosedIsBoolean == closed \in BOOLEAN /\ [Next]_vars => (closed \in BOOLEAN)'
  BY Zenon DEF Next, vars, connVars, CallAnsweredAtOnce, CallArrives, CallRegisters,
     CallFindsConn, CallDials, CallConnects, CallGivesUp, CallFails, CallIsAnswered,
     CallGetsError, CallTimesOut, AppDials, AppConnects, DialFails, LinkLost, ReaderCloses,
     MessageArrives, Dispatches, HandlerIsCut, HandlerGetsNoTopic, HandlerSetsTopic,
     HandlerSaveFails, HandlerSaves, HandlerRemoves, CommandSaves, Restart

\* Every variable of the pairing keeps its type: the lists of handlers stay lists
\* of handlers whichever entry a removal picks and wherever the reader is in them.
THEOREM TypeCorrect == Spec => []TypeOK
<1>1. Init => Types /\ closed \in BOOLEAN
  BY InitTypes DEF Init
<1>2. Types /\ closed \in BOOLEAN /\ [Next]_vars => (Types /\ closed \in BOOLEAN)'
  BY NextKeepsTypes, ClosedIsBoolean
<1>3. Types /\ closed \in BOOLEAN => TypeOK
  BY TypeOKParts DEF Types
<1> QED
  BY <1>1, <1>2, <1>3, PTL DEF Spec

-----------------------------------------------------------------------------
\* A step that writes no state, answers nobody and lets no handler save.
LEMMA QuietKeepsSaved ==
  ASSUME SavedInv,
         memory' = memory, file' = file, received' \subseteq received,
         "received" \in told' => "received" \in told \/ received # {},
         \A g \in Handling : At(g, "save")' => At(g, "save")
  PROVE  SavedInv'
  BY DEF SavedInv, AnsweredIsSaved

LEMMA CallsKeepSaved ==
  ASSUME Types, SavedInv, NEW k \in Calls
  PROVE  /\ CallAnsweredAtOnce(k) => SavedInv'
         /\ CallArrives(k) \/ CallRegisters(k) \/ CallFindsConn(k) => SavedInv'
         /\ CallDials(k) \/ CallConnects(k) => SavedInv'
         /\ CallIsAnswered(k) => SavedInv'
         /\ CallGivesUp(k) \/ CallGetsError(k) \/ CallTimesOut(k) => SavedInv'
<1> USE DEF stateVars, readVars, connVars, histVars
<1>1. ASSUME CallAnsweredAtOnce(k) PROVE SavedInv'
  <2>1. "received" \in told' => "received" \in told
    BY <1>1 DEF CallAnsweredAtOnce
  <2> QED
    BY <1>1, <2>1, QuietKeepsSaved DEF CallAnsweredAtOnce, At
<1>2. ASSUME CallArrives(k) \/ CallRegisters(k) \/ CallFindsConn(k) PROVE SavedInv'
  BY <1>2, QuietKeepsSaved DEF CallArrives, CallRegisters, CallFindsConn, At
<1>3. ASSUME CallDials(k) \/ CallConnects(k) PROVE SavedInv'
  BY <1>3, QuietKeepsSaved DEF CallDials, CallConnects, At
<1>4. ASSUME CallIsAnswered(k) PROVE SavedInv'
  <2>1. received # {} /\ received' \subseteq received
    BY <1>4 DEF CallIsAnswered, CallReturns
  <2>2. \A g \in Handling : At(g, "save")' => At(g, "save")
    BY <1>4 DEF CallIsAnswered, At
  <2> QED
    BY <1>4, <2>1, <2>2, QuietKeepsSaved DEF CallIsAnswered
<1>5. ASSUME CallGivesUp(k) \/ CallGetsError(k) \/ CallTimesOut(k) PROVE SavedInv'
  <2>1. CallFails(k)
    BY <1>5 DEF CallGivesUp, CallGetsError, CallTimesOut
  <2>2. ASSUME NEW g \in Handling, At(g, "save")' PROVE At(g, "save")
    <3>1. task'[g] = task[g] \/ task'[g] = [task[g] EXCEPT !.ctx = Dead]
      BY <2>1, <2>2 DEF CallFails, At
    <3>2. task[g] # Nil /\ task'[g].at = task[g].at
      <4>1. CASE task[g] \in Tasks
        BY <3>1, <4>1 DEF Tasks
      <4>2. CASE task[g] = Nil
        BY <2>1, <2>2, <4>2 DEF CallFails, At
      <4> QED
        BY <4>1, <4>2 DEF Types, Tasked
    <3> QED
      BY <2>2, <3>2 DEF At
  <2> QED
    BY <2>1, <2>2, QuietKeepsSaved DEF CallFails, CallReturns
<1> QED
  BY <1>1, <1>2, <1>3, <1>4, <1>5

LEMMA ConnectionsKeepSaved ==
  ASSUME SavedInv
  PROVE  /\ AppDials \/ AppConnects \/ DialFails \/ LinkLost \/ ReaderCloses => SavedInv'
         /\ \A topic \in Topics \cup {Nil} : MessageArrives(topic) => SavedInv'
         /\ CommandSaves => SavedInv'
         /\ Restart => SavedInv'
<1> USE DEF stateVars, readVars, connVars, histVars
<1>1. ASSUME AppDials \/ AppConnects \/ DialFails \/ LinkLost \/ ReaderCloses PROVE SavedInv'
  BY <1>1, QuietKeepsSaved DEF AppDials, AppConnects, DialFails, LinkLost, ReaderCloses, At
<1>2. ASSUME NEW topic \in Topics \cup {Nil}, MessageArrives(topic) PROVE SavedInv'
  BY <1>2, QuietKeepsSaved DEF MessageArrives, At
<1>3. ASSUME CommandSaves PROVE SavedInv'
  BY <1>3 DEF CommandSaves, SavedInv, AnsweredIsSaved, At
<1>4. ASSUME Restart PROVE SavedInv'
  BY <1>4 DEF Restart, SavedInv, AnsweredIsSaved, At
<1> QED
  BY <1>1, <1>2, <1>3, <1>4

LEMMA HandlersKeepSaved ==
  ASSUME Types, SavedInv, NEW g \in Handling
  PROVE  /\ Dispatches(g) => SavedInv'
         /\ HandlerIsCut(g) => SavedInv'
         /\ HandlerGetsNoTopic(g) \/ HandlerSaveFails(g) => SavedInv'
         /\ HandlerSetsTopic(g) => SavedInv'
         /\ HandlerSaves(g) => SavedInv'
         /\ HandlerRemoves(g) => SavedInv'
<1> USE DEF stateVars, readVars, connVars, histVars
<1>0. task \in [Handling -> Tasks \cup {Nil}]
  BY DEF Types, Tasked
<1>1. ASSUME Dispatches(g) PROVE SavedInv'
  BY <1>0, <1>1, QuietKeepsSaved DEF Dispatches, At
<1>2. ASSUME HandlerIsCut(g) PROVE SavedInv'
  BY <1>0, <1>2, QuietKeepsSaved DEF HandlerIsCut, At
<1>3. ASSUME HandlerGetsNoTopic(g) \/ HandlerSaveFails(g) PROVE SavedInv'
  <2>1. Failed(g) /\ task[g] \in Tasks
    BY <1>0, <1>3 DEF HandlerGetsNoTopic, HandlerSaveFails, At
  <2>2. \A h \in Handling : At(h, "save")' => At(h, "save")
    BY <1>0, <2>1 DEF Failed, At, Tasks
  <2> QED
    BY <1>3, <2>2, QuietKeepsSaved DEF HandlerGetsNoTopic, HandlerSaveFails
<1>4. ASSUME HandlerSetsTopic(g) PROVE SavedInv'
  <2>1. memory' # Nil
    BY <1>0, <1>4 DEF HandlerSetsTopic, Tasks
  <2> QED
    BY <1>4, <2>1 DEF HandlerSetsTopic, SavedInv, AnsweredIsSaved
<1>5. ASSUME HandlerSaves(g) PROVE SavedInv'
  <2>1. file' # Nil /\ memory' # Nil
    BY <1>5 DEF HandlerSaves, SavedInv
  <2> QED
    BY <2>1 DEF SavedInv, AnsweredIsSaved
<1>6. ASSUME HandlerRemoves(g) PROVE SavedInv'
  BY <1>0, <1>6, QuietKeepsSaved DEF HandlerRemoves, At
<1> QED
  BY <1>1, <1>2, <1>3, <1>4, <1>5, <1>6

\* A call answered through its doneChan leaves a topic on disk that no later call,
\* handler, lost connection or restart takes away: doneChan is closed only after
\* Save returned, and what Save wrote was a topic some handler had set.
THEOREM AnsweredTopicIsSaved == Spec => []AnsweredIsSaved
<1>1. Init => Types /\ SavedInv
  BY InitTypes DEF Init, SavedInv, AnsweredIsSaved, At
<1>2. Types /\ SavedInv /\ [Next]_vars => (Types /\ SavedInv)'
  <2> SUFFICES ASSUME Types, SavedInv, [Next]_vars PROVE SavedInv'
    BY NextKeepsTypes
  <2>1. CASE UNCHANGED vars
    BY <2>1, QuietKeepsSaved DEF vars, stateVars, histVars, At
  <2>2. CASE Next
    BY <2>2, CallsKeepSaved, ConnectionsKeepSaved, HandlersKeepSaved DEF Next
  <2> QED
    BY <2>1, <2>2
<1>3. Types /\ SavedInv => AnsweredIsSaved
  BY DEF SavedInv
<1> QED
  BY <1>1, <1>2, <1>3, PTL DEF Spec
-----------------------------------------------------------------------------
(***************************************************************************)
(* Counting the handlers on the list against the calls that wait.          *)
(***************************************************************************)
Entries(h) == {i \in DOMAIN h : h[i] \in Calls}
Waiting == {k \in Calls : pc[k] \in {"connect", "wait"}}

\* Calls may be infinite; at any time only finitely many of them wait.
LeftInv == IsFiniteSet(Waiting) /\ NoHandlerLeft

LEMMA NoHandlerLeftCounts ==
  NoHandlerLeft <=> Cardinality(Entries(handlers)) <= Cardinality(Waiting)
  BY DEF NoHandlerLeft, Entries, Waiting

LEMMA EntriesAreFinite ==
  ASSUME NEW h \in Seq(Hs) PROVE IsFiniteSet(Entries(h)) /\ Cardinality(Entries(h)) \in Nat
<1>1. IsFiniteSet(1 .. Len(h))
  BY FS_Interval
<1>2. Entries(h) \subseteq 1 .. Len(h)
  BY DEF Entries
<1>3. IsFiniteSet(Entries(h))
  BY <1>1, <1>2, FS_Subset
<1> QED
  BY <1>3, FS_CardinalityType

\* What is left after a removal is what was before, without the entry.
LEMMA RemoveAtEntries ==
  ASSUME NEW S, NEW s \in Seq(S), NEW i \in DOMAIN s, NEW j \in DOMAIN RemoveAt(s, i)
  PROVE  RemoveAt(s, i)[j] = (IF j < i THEN s[j] ELSE s[j + 1])
<1> DEFINE before == SubSeq(s, 1, i - 1)
           after  == SubSeq(s, i + 1, Len(s))
<1>1. Len(s) \in Nat /\ i \in 1 .. Len(s)
  OBVIOUS
<1>2. before \in Seq(S) /\ Len(before) = i - 1 /\ \A n \in 1 .. i - 1 : before[n] = s[n]
  BY <1>1, SubSeqProperties
<1>3. /\ after \in Seq(S) /\ Len(after) = Len(s) - i
      /\ \A n \in 1 .. Len(s) - i : after[n] = s[i + n]
  BY <1>1, SubSeqProperties
<1>4. RemoveAt(s, i) = before \o after
  BY DEF RemoveAt
<1>5. RemoveAt(s, i) \in Seq(S) /\ Len(RemoveAt(s, i)) = Len(s) - 1
  BY RemoveAtIsSeq
<1>6. j \in 1 .. Len(s) - 1
  BY <1>5
<1> HIDE DEF before, after
<1>7. RemoveAt(s, i)[j] = IF j <= i - 1 THEN before[j] ELSE after[j - (i - 1)]
  BY <1>1, <1>2, <1>3, <1>4, <1>6, ConcatProperties
<1>8. CASE j < i
  BY <1>1, <1>2, <1>6, <1>7, <1>8
<1>9. CASE ~(j < i)
  <2>1. j - (i - 1) \in 1 .. Len(s) - i /\ i + (j - (i - 1)) = j + 1
    BY <1>1, <1>6, <1>9
  <2> QED
    BY <1>1, <1>3, <1>6, <1>7, <1>9, <2>1
<1> QED
  BY <1>8, <1>9

\* Removing a call's handler leaves one fewer: the entries that stay are, each
\* moved up or not, among those that were there.
LEMMA RemovalTakesOne ==
  ASSUME NEW h \in Seq(Hs), NEW i \in Entries(h)
  PROVE  Cardinality(Entries(RemoveAt(h, i))) <= Cardinality(Entries(h)) - 1
<1> DEFINE r    == RemoveAt(h, i)
           back == [j \in Entries(r) |-> IF j < i THEN j ELSE j + 1]
<1>1. Len(h) \in Nat /\ i \in 1 .. Len(h) /\ h[i] \in Calls
  BY DEF Entries
<1>2. r \in Seq(Hs) /\ Len(r) = Len(h) - 1
  BY <1>1, RemoveAtIsSeq
<1>3. \A j \in DOMAIN r : r[j] = IF j < i THEN h[j] ELSE h[j + 1]
  BY <1>1, RemoveAtEntries
<1> HIDE DEF r
<1>4. ASSUME NEW j \in Entries(r) PROVE back[j] \in Entries(h) \ {i}
  <2>1. j \in 1 .. Len(h) - 1 /\ r[j] \in Calls
    BY <1>2, <1>4 DEF Entries
  <2>2. (IF j < i THEN h[j] ELSE h[j + 1]) \in Calls
    BY <1>2, <1>3, <2>1
  <2>3. back[j] \in 1 .. Len(h) /\ back[j] # i
    BY <1>1, <2>1
  <2> QED
    BY <2>1, <2>2, <2>3 DEF Entries
<1>5. ASSUME NEW j \in Entries(r), NEW n \in Entries(r), back[j] = back[n] PROVE j = n
  BY <1>1, <1>2, <1>5 DEF Entries
<1>6. back \in Injection(Entries(r), Entries(h) \ {i})
  <2> HIDE DEF back
  <2>1. back \in [Entries(r) -> Entries(h) \ {i}]
    <3>1. back = [j \in Entries(r) |-> back[j]]
      BY DEF back
    <3> QED
      BY <1>4, <3>1
  <2> QED
    BY <1>5, <2>1 DEF Injection, IsInjective
<1>7. IsFiniteSet(Entries(h) \ {i}) /\ Cardinality(Entries(h) \ {i}) = Cardinality(Entries(h)) - 1
  BY EntriesAreFinite, FS_RemoveElement
<1>8. Cardinality(Entries(r)) <= Cardinality(Entries(h) \ {i})
  BY <1>6, <1>7, FS_Injection
<1> QED
  BY <1>7, <1>8 DEF r

\* RemoveRelayerMessage takes one handler of a call off the list, if there is one.
LEMMA RemovalCounts ==
  ASSUME Lists, RemoveHandler
  PROVE  \/ Cardinality(Entries(handlers')) = 0
         \/ Cardinality(Entries(handlers')) <= Cardinality(Entries(handlers)) - 1
<1>1. CASE \E i \in DOMAIN handlers : IsFirstCall(i) /\ handlers' = RemoveAt(handlers, i)
  <2>1. PICK i \in Entries(handlers) : handlers' = RemoveAt(handlers, i)
    BY <1>1 DEF IsFirstCall, Entries
  <2> QED
    BY <2>1, RemovalTakesOne DEF Lists
<1>2. CASE Range(handlers) \cap Calls = {} /\ UNCHANGED handlers
  <2>1. Entries(handlers') = {}
    BY <1>2 DEF Entries, Range
  <2> QED
    BY <2>1, FS_EmptySet
<1> QED
  BY <1>1, <1>2 DEF RemoveHandler

LEMMA RegistrationCounts ==
  ASSUME NEW h \in Seq(Hs), NEW k \in Calls
  PROVE  Cardinality(Entries(Append(h, k))) = Cardinality(Entries(h)) + 1
<1>1. Entries(Append(h, k)) = Entries(h) \cup {Len(h) + 1}
  BY AppendProperties DEF Entries, Hs
<1>2. Len(h) + 1 \notin Entries(h)
  BY DEF Entries
<1> QED
  BY <1>1, <1>2, EntriesAreFinite, FS_AddElement

-----------------------------------------------------------------------------
\* A step that takes a handler off the list, and at most one call from the waiting.
LEMMA RemovalKeepsLeft ==
  ASSUME Types, LeftInv, RemoveHandler,
         UNCHANGED pc \/ \E k \in Calls : pc' = [pc EXCEPT ![k] = "idle"]
  PROVE  LeftInv'
<1> DEFINE before == Cardinality(Entries(handlers))
           after  == Cardinality(Entries(handlers'))
<1>1. /\ IsFiniteSet(Waiting')
      /\ Cardinality(Waiting') \in {Cardinality(Waiting), Cardinality(Waiting) - 1}
  <2>1. ASSUME NEW k \in Calls, pc' = [pc EXCEPT ![k] = "idle"] PROVE Waiting' = Waiting \ {k}
    BY <2>1 DEF Waiting, Types, Places
  <2>2. UNCHANGED pc => Waiting' = Waiting
    BY DEF Waiting
  <2> QED
    BY <2>1, <2>2, FS_RemoveElement DEF LeftInv
<1>2. Cardinality(Waiting) \in Nat /\ Cardinality(Waiting') \in Nat
  BY <1>1, FS_CardinalityType DEF LeftInv
<1>3. before \in Nat /\ after \in Nat
  BY RemoveKeepsLists, EntriesAreFinite DEF Types, Lists
<1>4. before <= Cardinality(Waiting)
  BY NoHandlerLeftCounts DEF LeftInv
<1>5. after = 0 \/ after <= before - 1
  BY RemovalCounts DEF Types
<1> HIDE DEF before, after
<1>6. after <= Cardinality(Waiting')
  BY <1>1, <1>2, <1>3, <1>4, <1>5
<1>7. NoHandlerLeft'
  BY <1>6, NoHandlerLeftCounts DEF after, NoHandlerLeft, Entries, Waiting
<1> QED
  BY <1>1, <1>7 DEF LeftInv

\* A step that leaves the list alone and from which no call stops waiting.
LEMMA WaitingKeepsLeft ==
  ASSUME Types, LeftInv, UNCHANGED handlers,
         Waiting' = Waiting \/ \E k \in Calls : Waiting' = Waiting \cup {k}
  PROVE  LeftInv'
<1>1. IsFiniteSet(Waiting') /\ Waiting \subseteq Waiting'
  BY FS_AddElement DEF LeftInv
<1>2. Cardinality(Waiting) <= Cardinality(Waiting')
  BY <1>1, FS_Subset
<1>3. /\ Cardinality(Waiting) \in Nat /\ Cardinality(Waiting') \in Nat
      /\ Cardinality(Entries(handlers)) \in Nat
  BY <1>1, FS_CardinalityType, EntriesAreFinite DEF LeftInv, Types, Lists
<1>4. Cardinality(Entries(handlers)) <= Cardinality(Waiting')
  BY <1>2, <1>3, NoHandlerLeftCounts DEF LeftInv
<1> QED
  BY <1>1, <1>4 DEF LeftInv, NoHandlerLeft, Entries, Waiting

LEMMA RegisteringKeepsLeft ==
  ASSUME Types, LeftInv, NEW k \in Calls, CallRegisters(k)
  PROVE  LeftInv'
<1>1. Waiting' = Waiting \cup {k} /\ k \notin Waiting
  BY DEF Types, Places, CallRegisters, Waiting
<1>2. IsFiniteSet(Waiting') /\ Cardinality(Waiting') = Cardinality(Waiting) + 1
  BY <1>1, FS_AddElement DEF LeftInv
<1>3. Cardinality(Entries(handlers')) = Cardinality(Entries(handlers)) + 1
  BY RegistrationCounts DEF CallRegisters, Types, Lists
<1>4. Cardinality(Waiting) \in Nat /\ Cardinality(Entries(handlers)) \in Nat
  BY FS_CardinalityType, EntriesAreFinite DEF LeftInv, Types, Lists
<1>5. Cardinality(Entries(handlers')) <= Cardinality(Waiting')
  BY <1>2, <1>3, <1>4, NoHandlerLeftCounts DEF LeftInv
<1> QED
  BY <1>2, <1>5 DEF LeftInv, NoHandlerLeft, Entries, Waiting

LEMMA NextKeepsLeft ==
  ASSUME Types, LeftInv, [Next]_vars PROVE LeftInv'
<1> USE DEF stateVars, readVars, connVars, histVars
<1>1. ASSUME NEW k \in Calls,
             CallGivesUp(k) \/ CallIsAnswered(k) \/ CallGetsError(k) \/ CallTimesOut(k)
      PROVE  LeftInv'
  BY <1>1, RemovalKeepsLeft
  DEF CallGivesUp, CallIsAnswered, CallGetsError, CallTimesOut, CallFails, CallReturns
<1>2. ASSUME NEW k \in Calls, CallFindsConn(k) \/ CallConnects(k) PROVE LeftInv'
  <2>1. UNCHANGED handlers /\ pc' = [pc EXCEPT ![k] = "wait"]
    BY <1>2 DEF CallFindsConn, CallConnects
  <2>2. Waiting' = Waiting \cup {k}
    BY <2>1 DEF Waiting, Types, Places
  <2> QED
    BY <2>1, <2>2, WaitingKeepsLeft
<1>3. ASSUME NEW k \in Calls, CallArrives(k) PROVE LeftInv'
  <2>1. UNCHANGED handlers /\ pc' = [pc EXCEPT ![k] = "register"] /\ pc[k] = "idle"
    BY <1>3 DEF CallArrives, Free, Around, Active
  <2>2. Waiting' = Waiting
    BY <2>1 DEF Waiting, Types, Places
  <2> QED
    BY <2>1, <2>2, WaitingKeepsLeft
<1>4. ASSUME NEW k \in Calls, CallRegisters(k) PROVE LeftInv'
  BY <1>4, RegisteringKeepsLeft
<1>5. ASSUME NEW g \in Handling, HandlerRemoves(g) PROVE LeftInv'
  BY <1>5, RemovalKeepsLeft DEF HandlerRemoves
<1>6. CASE Restart
  <2>1. Entries(handlers') = {} /\ Waiting' = {}
    BY <1>6 DEF Restart, Entries, Waiting
  <2> QED
    BY <2>1, FS_EmptySet DEF LeftInv, NoHandlerLeft, Entries, Waiting
<1>7. CASE UNCHANGED <<handlers, pc>>
  BY <1>7, WaitingKeepsLeft DEF Waiting
<1> QED
  BY <1>1, <1>2, <1>3, <1>4, <1>5, <1>6, <1>7
  DEF vars, Next, CallAnsweredAtOnce, CallDials, AppDials, AppConnects, DialFails, LinkLost,
      ReaderCloses, MessageArrives, Dispatches, HandlerIsCut, HandlerGetsNoTopic,
      HandlerSetsTopic, HandlerSaveFails, HandlerSaves, CommandSaves

LEMMA InitLeft == Init => LeftInv
<1> SUFFICES ASSUME Init PROVE LeftInv
  OBVIOUS
<1>1. Entries(handlers) = {} /\ Waiting = {}
  BY DEF Init, Entries, Waiting
<1> QED
  BY <1>1, FS_EmptySet, NoHandlerLeftCounts DEF LeftInv

\* However calls overlap, and although a removal takes whichever of their handlers
\* comes first, there are never more handlers of calls than calls that wait for
\* one: none is left behind to hold the closure of a call that is over.
THEOREM HandlersAreTakenOff == Spec => []NoHandlerLeft
<1>1. Init => Types /\ LeftInv
  BY InitTypes, InitLeft
<1>2. Types /\ LeftInv /\ [Next]_vars => (Types /\ LeftInv)'
  BY NextKeepsTypes, NextKeepsLeft
<1>3. LeftInv => NoHandlerLeft
  BY DEF LeftInv
<1> QED
  BY <1>1, <1>2, <1>3, PTL DEF Spec
-----------------------------------------------------------------------------
(***************************************************************************)
(* A call nobody else met.  Its name is of no other call's handler, list   *)
(* entry or goroutine, so that nobody takes its handler off but itself.    *)
(***************************************************************************)
Alone(k) ==
  /\ \A j \in Calls \ {k} : ~Around(j)
  /\ Range(handlers) \cap Calls \subseteq {k}

DialInv == dialing \in Calls => pc[dialing] = "connect"

\* A handler that takes itself off has told its call, if that is not over.
TellInv ==
  \A g \in Handling : At(g, "remove") =>
     task[g].who \in Calls /\ (Active(task[g].who) => task[g].who \in received)

Hears(k) == pc[k] # "register" => k \in Range(handlers) \/ k \in received
AloneInv == \A k \in Calls : Active(k) /\ k \notin crowded => Alone(k) /\ Hears(k)

HearInv == DialInv /\ TellInv /\ AloneInv

\* Removing an entry adds none, and takes nobody's but the one removed.
LEMMA RemovalOnlyTakes ==
  ASSUME NEW S, NEW s \in Seq(S), NEW i \in DOMAIN s
  PROVE  Range(RemoveAt(s, i)) \subseteq Range(s)
<1>1. Len(s) \in Nat /\ i \in 1 .. Len(s)
  OBVIOUS
<1>2. RemoveAt(s, i) \in Seq(S) /\ Len(RemoveAt(s, i)) = Len(s) - 1
  BY RemoveAtIsSeq
<1>3. ASSUME NEW j \in DOMAIN RemoveAt(s, i) PROVE RemoveAt(s, i)[j] \in Range(s)
  <2>1. j \in 1 .. Len(s) - 1
    BY <1>1, <1>2, <1>3
  <2>2. RemoveAt(s, i)[j] = s[j] \/ RemoveAt(s, i)[j] = s[j + 1]
    BY RemoveAtEntries
  <2>3. j \in DOMAIN s /\ j + 1 \in DOMAIN s
    BY <1>1, <2>1
  <2> QED
    BY <2>2, <2>3 DEF Range
<1> QED
  BY <1>3 DEF Range

LEMMA AppendAdds ==
  ASSUME NEW S, NEW s \in Seq(S), NEW e \in S PROVE Range(Append(s, e)) = Range(s) \cup {e}
<1> DEFINE r == Append(s, e)
<1>1. DOMAIN r = DOMAIN s \cup {Len(s) + 1} /\ r[Len(s) + 1] = e /\ \A j \in DOMAIN s : r[j] = s[j]
  BY AppendProperties
<1> HIDE DEF r
<1>2. Range(r) = Range(s) \cup {e}
  BY <1>1 DEF Range
<1> QED
  BY <1>2 DEF r

LEMMA TailOnlyTakes ==
  ASSUME NEW S, NEW s \in Seq(S), s # <<>>
  PROVE  Head(s) \in Range(s) /\ Range(Tail(s)) \subseteq Range(s)
<1>1. Head(s) = s[1] /\ 1 \in DOMAIN s
  OBVIOUS
<1>2. ASSUME NEW j \in DOMAIN Tail(s) PROVE j + 1 \in DOMAIN s /\ Tail(s)[j] = s[j + 1]
  OBVIOUS
<1> QED
  BY <1>1, <1>2 DEF Range

LEMMA ShiftOnlyTakes ==
  ASSUME NEW S, NEW s \in Seq(S), NEW r \in Shifted(s)
  PROVE  Range(r) \subseteq Range(s)
<1>1. CASE r = s
  BY <1>1
<1>2. CASE \E i \in DOMAIN s : r = Append(RemoveAt(s, i), Last(s))
  <2>1. PICK i \in DOMAIN s : r = Append(RemoveAt(s, i), Last(s))
    BY <1>2
  <2>2. Last(s) \in S /\ Last(s) \in Range(s)
    BY DEF Last, Range
  <2>3. RemoveAt(s, i) \in Seq(S)
    BY RemoveAtIsSeq
  <2>4. Range(r) = Range(RemoveAt(s, i)) \cup {Last(s)}
    BY <2>1, <2>2, <2>3, AppendAdds
  <2> QED
    BY <2>2, <2>4, RemovalOnlyTakes
<1> QED
  BY <1>1, <1>2 DEF Shifted

LEMMA RemoveHandlerTakes ==
  ASSUME Lists, RemoveHandler
  PROVE  Range(handlers') \subseteq Range(handlers) /\ Range(view') \subseteq Range(view)
<1>1. CASE UNCHANGED <<handlers, view>>
  BY <1>1
<1>2. CASE \E i \in DOMAIN handlers : handlers' = RemoveAt(handlers, i) /\ view' \in Shifted(view)
  BY <1>2, RemovalOnlyTakes, ShiftOnlyTakes DEF Lists
<1> QED
  BY <1>1, <1>2 DEF RemoveHandler

-----------------------------------------------------------------------------
\* What keeps a call nobody met apart: nothing is added to the list, to what the
\* reader has left to visit or to the goroutines, nobody begins a call, and what
\* is taken off the list is of a call that has its answer.
LEMMA QuietKeepsAlone ==
  ASSUME AloneInv, crowded' = crowded,
         Range(handlers') \subseteq Range(handlers), Range(view') \subseteq Range(view),
         \A j \in Calls : Runs(j)' => Around(j),
         \A j \in Calls : \/ pc'[j] = pc[j] \/ pc'[j] = "idle"
                          \/ pc[j] = "connect" /\ pc'[j] = "wait",
         \A k \in Calls : Alone(k) /\ Active(k) /\ Active(k)' =>
            /\ k \in Range(handlers) => k \in Range(handlers') \/ k \in received'
            /\ k \in received => k \in received'
  PROVE  AloneInv'
<1>1. \A j \in Calls : Active(j)' => Active(j)
  BY DEF Active
<1>2. \A j \in Calls : Around(j)' => Around(j)
  BY <1>1 DEF Around
<1>3. ASSUME NEW k \in Calls, Active(k)', k \notin crowded'
      PROVE  Alone(k)' /\ Hears(k)'
  <2>1. Alone(k) /\ Hears(k) /\ Active(k)
    BY <1>1, <1>3 DEF AloneInv
  <2>2. Alone(k)'
    BY <1>2, <2>1 DEF Alone
  <2>3. pc'[k] # "register" => pc[k] # "register"
    BY <1>3 DEF Active
  <2> QED
    BY <1>3, <2>1, <2>2, <2>3 DEF Hears
<1> QED
  BY <1>3 DEF AloneInv
\* Whoever holds the mutex to dial is a call that is connecting.
LEMMA NextKeepsDial ==
  ASSUME Types, DialInv, Next PROVE DialInv'
<1> USE DEF Types, Places, DialInv, Ctxs, stateVars, readVars, connVars, histVars
<1>1. ASSUME NEW k \in Calls,
             CallArrives(k) \/ CallRegisters(k) \/ CallFindsConn(k) \/ CallDials(k) \/ CallConnects(k)
      PROVE  DialInv'
  BY <1>1 DEF CallArrives, CallRegisters, CallFindsConn, CallDials, CallConnects, Free, Around, Active
<1>2. ASSUME NEW k \in Calls,
             CallGivesUp(k) \/ CallIsAnswered(k) \/ CallGetsError(k) \/ CallTimesOut(k)
      PROVE  DialInv'
  BY <1>2 DEF CallGivesUp, CallIsAnswered, CallGetsError, CallTimesOut, CallFails, CallReturns
<1>3. CASE AppDials \/ AppConnects \/ DialFails \/ Restart
  BY <1>3 DEF AppDials, AppConnects, DialFails, Restart
<1>4. CASE UNCHANGED <<dialing, pc>>
  BY <1>4
<1> QED
  BY <1>1, <1>2, <1>3, <1>4
  DEF Next, CallAnsweredAtOnce, LinkLost, ReaderCloses, MessageArrives, Dispatches, HandlerIsCut,
      HandlerGetsNoTopic, HandlerSetsTopic, HandlerSaveFails, HandlerSaves, HandlerRemoves,
      CommandSaves

-----------------------------------------------------------------------------
\* Goroutines that take themselves off are as before, and no call begins.
LEMMA QuietKeepsTell ==
  ASSUME TellInv,
         \A g \in Handling : At(g, "remove")' => At(g, "remove") /\ task'[g].who = task[g].who,
         \A k \in Calls : Active(k)' /\ Runs(k) => Active(k) /\ (k \in received => k \in received')
  PROVE  TellInv'
<1>1. ASSUME NEW g \in Handling, At(g, "remove")'
      PROVE  task'[g].who \in Calls /\ (Active(task[g].who)' => task'[g].who \in received')
  <2>1. At(g, "remove") /\ task'[g].who = task[g].who
    BY <1>1
  <2>2. task[g].who \in Calls /\ Runs(task[g].who)
    BY <2>1 DEF TellInv, Runs, At
  <2> QED
    BY <2>1, <2>2 DEF TellInv
<1> QED
  BY <1>1 DEF TellInv, Active, At

LEMMA CallsKeepTell ==
  ASSUME Types, TellInv, NEW k \in Calls
  PROVE  /\ CallAnsweredAtOnce(k) \/ CallArrives(k) \/ CallRegisters(k) \/ CallFindsConn(k) => TellInv'
         /\ CallDials(k) => TellInv'
         /\ CallIsAnswered(k) => TellInv'
         /\ CallFails(k) => TellInv'
<1> USE DEF Types, Places, stateVars, readVars, connVars, histVars
<1>1. ASSUME CallAnsweredAtOnce(k) \/ CallArrives(k) \/ CallRegisters(k) \/ CallFindsConn(k)
      PROVE  TellInv'
  BY <1>1, QuietKeepsTell DEF CallAnsweredAtOnce, CallArrives, CallRegisters, CallFindsConn,
     Active, At, Free, Around
<1>2. ASSUME CallDials(k) PROVE TellInv'
  BY <1>2, QuietKeepsTell DEF CallDials, Active, At
<1>3. ASSUME CallIsAnswered(k) PROVE TellInv'
  BY <1>3, QuietKeepsTell DEF CallIsAnswered, CallReturns, Active, At
<1>4. ASSUME CallFails(k) PROVE TellInv'
  <2>1. ASSUME NEW g \in Handling, At(g, "remove")'
        PROVE  At(g, "remove") /\ task'[g].who = task[g].who
    <3>1. task[g] # Nil => task[g] \in Tasks
      BY DEF Tasked
    <3>2. task'[g] = task[g] \/ (task[g] # Nil /\ task'[g] = [task[g] EXCEPT !.ctx = Dead])
      BY <1>4, <2>1 DEF CallFails, At
    <3> QED
      BY <2>1, <3>1, <3>2 DEF At, Tasks
  <2>2. \A j \in Calls : Active(j)' => Active(j) /\ (j \in received => j \in received')
    BY <1>4 DEF CallFails, CallReturns, Active
  <2> QED
    BY <2>1, <2>2, QuietKeepsTell
<1> QED
  BY <1>1, <1>2, <1>3, <1>4

LEMMA HandlersKeepTell ==
  ASSUME Types, TellInv, NEW g \in Handling
  PROVE  /\ Dispatches(g) \/ HandlerIsCut(g) \/ HandlerSetsTopic(g) \/ HandlerRemoves(g) => TellInv'
         /\ HandlerGetsNoTopic(g) \/ HandlerSaveFails(g) => TellInv'
         /\ HandlerSaves(g) => TellInv'
<1> USE DEF Types, Tasked, stateVars, readVars, connVars, histVars
<1>1. ASSUME Dispatches(g) \/ HandlerIsCut(g) \/ HandlerSetsTopic(g) \/ HandlerRemoves(g)
      PROVE  TellInv'
  <2>1. \A h \in Handling : At(h, "remove")' => At(h, "remove") /\ task'[h].who = task[h].who
    BY <1>1 DEF Dispatches, HandlerIsCut, HandlerSetsTopic, HandlerRemoves, At, Tasks
  <2>2. UNCHANGED <<pc, received>>
    BY <1>1 DEF Dispatches, HandlerIsCut, HandlerSetsTopic, HandlerRemoves
  <2> QED
    BY <2>1, <2>2, QuietKeepsTell DEF Active
<1>2. ASSUME HandlerGetsNoTopic(g) \/ HandlerSaveFails(g) PROVE TellInv'
  <2>1. Failed(g) /\ task[g] \in Tasks
    BY <1>2 DEF HandlerGetsNoTopic, HandlerSaveFails, At
  <2>2. \A h \in Handling : At(h, "remove")' => At(h, "remove") /\ task'[h].who = task[h].who
    BY <2>1 DEF Failed, At, Tasks
  <2>3. UNCHANGED <<pc, received>>
    BY <1>2 DEF HandlerGetsNoTopic, HandlerSaveFails
  <2> QED
    BY <2>2, <2>3, QuietKeepsTell DEF Active
<1>3. ASSUME HandlerSaves(g) PROVE TellInv'
  <2>1. task[g] \in Tasks /\ UNCHANGED pc /\ received \subseteq received'
    BY <1>3 DEF HandlerSaves, At
  <2>2. ASSUME NEW h \in Handling, At(h, "remove")'
        PROVE  task'[h].who \in Calls /\ (pc'[task'[h].who] # "idle" => task'[h].who \in received')
    <3>1. CASE h = g
      <4>1. task[g].who \in Calls /\ task'[g].who = task[g].who
        BY <1>3, <2>1, <2>2, <3>1 DEF HandlerSaves, At, Tasks
      <4> QED
        BY <1>3, <2>1, <3>1, <4>1 DEF HandlerSaves, Active, Tasks
    <3>2. CASE h # g
      BY <1>3, <2>1, <2>2, <3>2 DEF HandlerSaves, At, TellInv, Active
    <3> QED
      BY <3>1, <3>2
  <2> QED
    BY <2>2 DEF TellInv, Active
<1> QED
  BY <1>1, <1>2, <1>3

LEMMA NextKeepsTell ==
  ASSUME Types, DialInv, TellInv, Next PROVE TellInv'
<1>1. ASSUME NEW k \in Calls, CallConnects(k) PROVE TellInv'
  BY <1>1, QuietKeepsTell DEF Types, Places, DialInv, CallConnects, Active, At, stateVars
<1>2. CASE Restart
  BY <1>2 DEF Restart, TellInv, At
<1>3. CASE UNCHANGED <<pc, received, task>>
  BY <1>3 DEF TellInv, At, Active
<1> QED
  BY <1>1, <1>2, <1>3, CallsKeepTell, HandlersKeepTell
  DEF Next, CallGivesUp, CallGetsError, CallTimesOut, AppDials, AppConnects, DialFails, LinkLost,
      ReaderCloses, MessageArrives, CommandSaves
-----------------------------------------------------------------------------
\* A call that arrives while no other is around finds no handler of one either:
\* with nobody waiting, NoHandlerLeft leaves only the mediator's on the list.
LEMMA NobodyLeft ==
  ASSUME Types, LeftInv, \A j \in Calls : ~Active(j)
  PROVE  Range(handlers) \cap Calls = {}
<1>1. Waiting = {}
  BY DEF Waiting, Active
<1>2. Cardinality(Entries(handlers)) <= 0
  BY <1>1, FS_EmptySet, NoHandlerLeftCounts DEF LeftInv
<1>3. Entries(handlers) = {}
  BY <1>2, EntriesAreFinite, FS_EmptySet DEF Types, Lists
<1> QED
  BY <1>3 DEF Entries, Range

LEMMA ArrivingKeepsAlone ==
  ASSUME Types, LeftInv, AloneInv, NEW k \in Calls, CallArrives(k) PROVE AloneInv'
<1> DEFINE others == {j \in Calls : Around(j)}
<1>1. /\ UNCHANGED <<handlers, view, task, received>> /\ pc' = [pc EXCEPT ![k] = "register"]
      /\ ~Around(k)
      /\ crowded' = IF others = {} THEN crowded \ {k} ELSE crowded \cup others \cup {k}
  BY DEF CallArrives, Free, readVars
<1>2. ASSUME NEW j \in Calls, j # k PROVE (Active(j)' <=> Active(j)) /\ (Around(j)' <=> Around(j))
  BY <1>1, <1>2 DEF Types, Places, Active, Around, Runs
<1>3. ASSUME NEW j \in Calls, Active(j)', j \notin crowded' PROVE j = k /\ others = {}
  BY <1>1, <1>2, <1>3 DEF Around
<1>4. ASSUME others = {} PROVE Alone(k)'
  BY <1>1, <1>2, <1>4, NobodyLeft DEF Alone, Around
<1>5. Hears(k)'
  BY <1>1 DEF Hears, Types, Places
<1> QED
  BY <1>3, <1>4, <1>5 DEF AloneInv

\* A call that registers while another, uncrowded one is active would crowd it.
LEMMA RegisteringKeepsAlone ==
  ASSUME Types, AloneInv, NEW k \in Calls, CallRegisters(k) PROVE AloneInv'
<1>1. /\ UNCHANGED <<view, task, received, crowded>> /\ pc' = [pc EXCEPT ![k] = "connect"]
      /\ pc[k] = "register" /\ handlers' = Append(handlers, k)
  BY DEF CallRegisters, readVars, histVars
<1>2. Range(handlers') = Range(handlers) \cup {k}
  BY <1>1, AppendAdds DEF Types, Lists, Hs
<1>3. \A j \in Calls : (Active(j)' <=> Active(j)) /\ (Around(j)' <=> Around(j))
  BY <1>1 DEF Types, Places, Active, Around, Runs
<1>4. ASSUME NEW j \in Calls, Active(j)', j \notin crowded' PROVE Alone(j)' /\ Hears(j)'
  <2>1. Alone(j)
    BY <1>1, <1>3, <1>4 DEF AloneInv
  <2>2. j = k
    BY <1>1, <2>1 DEF Alone, Around, Active
  <2> QED
    BY <1>2, <1>3, <2>1, <2>2 DEF Alone, Hears
<1> QED
  BY <1>4 DEF AloneInv

\* A call that returns takes off its own handler: no other is around.
LEMMA ReturningKeepsAlone ==
  ASSUME Types, AloneInv, NEW k \in Calls, Active(k), CallReturns(k), UNCHANGED crowded,
         \A j \in Calls : Runs(j)' => Runs(j)
  PROVE  AloneInv'
<1>1. Range(handlers') \subseteq Range(handlers) /\ Range(view') \subseteq Range(view)
  BY RemoveHandlerTakes DEF CallReturns, Types
<1>2. \A j \in Calls : Alone(j) => j = k \/ ~Active(j)
  BY DEF Alone, Around
<1>3. \A j \in Calls : pc'[j] = IF j = k THEN "idle" ELSE pc[j]
  BY DEF CallReturns, Types, Places
<1>4. \A j \in Calls : ~(Alone(j) /\ Active(j) /\ Active(j)')
  BY <1>2, <1>3 DEF Active, Alone, Around
<1> QED
  BY <1>1, <1>3, <1>4, QuietKeepsAlone DEF Around

LEMMA CallsKeepAlone ==
  ASSUME Types, DialInv, AloneInv, NEW k \in Calls
  PROVE  /\ CallAnsweredAtOnce(k) \/ CallFindsConn(k) \/ CallDials(k) \/ CallConnects(k) => AloneInv'
         /\ CallIsAnswered(k) => AloneInv'
         /\ CallGivesUp(k) \/ CallGetsError(k) \/ CallTimesOut(k) => AloneInv'
<1> USE DEF stateVars, readVars, connVars, histVars
<1>1. ASSUME CallAnsweredAtOnce(k) \/ CallFindsConn(k) \/ CallDials(k) \/ CallConnects(k)
      PROVE  AloneInv'
  <2>1. UNCHANGED <<crowded, handlers, view, task, received>>
    BY <1>1 DEF CallAnsweredAtOnce, CallFindsConn, CallDials, CallConnects
  <2>2. \A j \in Calls : pc'[j] = pc[j] \/ (pc[j] = "connect" /\ pc'[j] = "wait")
    BY <1>1 DEF CallAnsweredAtOnce, CallFindsConn, CallDials, CallConnects, Types, Places, DialInv
  <2>3. \A j \in Calls : Runs(j)' => Around(j)
    BY <2>1 DEF Runs, Around
  <2> QED
    BY <2>1, <2>2, <2>3, QuietKeepsAlone
<1>2. ASSUME CallIsAnswered(k) PROVE AloneInv'
  <2>1. Active(k) /\ \A j \in Calls : Runs(j)' => Runs(j)
    BY <1>2 DEF CallIsAnswered, Active, Runs
  <2> QED
    BY <1>2, <2>1, ReturningKeepsAlone DEF CallIsAnswered
<1>3. ASSUME CallGivesUp(k) \/ CallGetsError(k) \/ CallTimesOut(k) PROVE AloneInv'
  <2>1. Active(k) /\ CallFails(k)
    BY <1>3 DEF CallGivesUp, CallGetsError, CallTimesOut, Active, DialInv
  <2>2. ASSUME NEW g \in Handling, task'[g] # Nil
        PROVE  task[g] # Nil /\ task'[g].who = task[g].who
    <3>1. task[g] # Nil => task[g] \in Tasks
      BY DEF Types, Tasked
    <3>2. task'[g] = task[g] \/ (task[g] # Nil /\ task'[g] = [task[g] EXCEPT !.ctx = Dead])
      BY <2>1, <2>2 DEF CallFails
    <3> QED
      BY <2>2, <3>1, <3>2 DEF Tasks
  <2>3. \A j \in Calls : Runs(j)' => Runs(j)
    BY <2>2 DEF Runs
  <2> QED
    BY <2>1, <2>3, ReturningKeepsAlone DEF CallFails
<1> QED
  BY <1>1, <1>2, <1>3

\* A message is dispatched to the handlers on the list, none of which is of a call
\* but the one that is alone.
LEMMA MessageKeepsAlone ==
  ASSUME Types, AloneInv, NEW topic, MessageArrives(topic) PROVE AloneInv'
<1>1. UNCHANGED <<handlers, pc, task, received, crowded>> /\ view' = handlers
  BY DEF MessageArrives, stateVars, connVars, histVars
<1>2. ASSUME NEW k \in Calls, Active(k), Alone(k), NEW j \in Calls \ {k} PROVE ~Around(j)'
  BY <1>1, <1>2 DEF Alone, Around, Active, Runs
<1>3. \A k \in Calls : (Active(k)' <=> Active(k)) /\ (Hears(k)' <=> Hears(k))
  BY <1>1 DEF Active, Hears
<1> QED
  BY <1>1, <1>2, <1>3 DEF AloneInv, Alone

LEMMA HandlersKeepAlone ==
  ASSUME Types, TellInv, AloneInv, NEW g \in Handling
  PROVE  /\ Dispatches(g) => AloneInv'
         /\ HandlerIsCut(g) \/ HandlerSetsTopic(g) \/ HandlerSaves(g) => AloneInv'
         /\ HandlerGetsNoTopic(g) \/ HandlerSaveFails(g) => AloneInv'
         /\ HandlerRemoves(g) => AloneInv'
<1> USE DEF stateVars, readVars, connVars, histVars
<1>0. task[g] # Nil => task[g] \in Tasks
  BY DEF Types, Tasked
<1>1. ASSUME Dispatches(g) PROVE AloneInv'
  <2>1. UNCHANGED <<handlers, pc, received, crowded>> /\ view' = Tail(view)
    BY <1>1 DEF Dispatches
  <2>2. Head(view) \in Range(view) /\ Range(view') \subseteq Range(view)
    BY <1>1, <2>1, TailOnlyTakes DEF Dispatches, Types, Lists
  <2>3. \A h \in Handling : task'[h] = task[h] \/ task'[h].who = Head(view)
    BY <1>1 DEF Dispatches, Types, Tasked
  <2>4. \A j \in Calls : Runs(j)' => Around(j)
    BY <2>2, <2>3 DEF Runs, Around
  <2> QED
    BY <2>1, <2>2, <2>4, QuietKeepsAlone
<1>2. ASSUME \/ HandlerIsCut(g) \/ HandlerSetsTopic(g) \/ HandlerSaves(g)
             \/ HandlerGetsNoTopic(g) \/ HandlerSaveFails(g)
      PROVE  AloneInv'
  <2>1. UNCHANGED <<handlers, view, pc, crowded>> /\ received \subseteq received'
    BY <1>2 DEF HandlerIsCut, HandlerSetsTopic, HandlerSaves, HandlerGetsNoTopic, HandlerSaveFails
  <2>2. \/ task' = [task EXCEPT ![g] = Nil] 
        \/ \E at \in {"err", "save", "remove"} : task' = [task EXCEPT ![g].at = at]
    BY <1>2 DEF HandlerIsCut, HandlerSetsTopic, HandlerSaves, HandlerGetsNoTopic, HandlerSaveFails, Failed
  <2>3. task[g] # Nil
    BY <1>2 DEF HandlerIsCut, HandlerSetsTopic, HandlerSaves, HandlerGetsNoTopic, HandlerSaveFails, At
  <2>4. \A h \in Handling : task'[h] # Nil => task[h] # Nil /\ task'[h].who = task[h].who
    BY <1>0, <2>2, <2>3 DEF Types, Tasked, Tasks
  <2>5. \A j \in Calls : Runs(j)' => Around(j)
    BY <2>4 DEF Runs, Around
  <2> QED
    BY <2>1, <2>5, QuietKeepsAlone
<1>3. ASSUME HandlerRemoves(g) PROVE AloneInv'
  <2>1. UNCHANGED <<pc, received, crowded>> /\ task' = [task EXCEPT ![g] = Nil]
    BY <1>3 DEF HandlerRemoves
  <2>2. Range(handlers') \subseteq Range(handlers) /\ Range(view') \subseteq Range(view)
    BY <1>3, RemoveHandlerTakes DEF HandlerRemoves, Types
  <2>3. \A j \in Calls : Runs(j)' => Around(j)
    BY <2>1 DEF Runs, Around, Types, Tasked
  <2>4. ASSUME NEW k \in Calls, Alone(k), Active(k) PROVE k \in received
    <3>1. task[g].who \in Calls /\ Around(task[g].who) /\ At(g, "remove")
      BY <1>3 DEF HandlerRemoves, TellInv, Around, Runs, At
    <3> QED
      BY <2>4, <3>1 DEF Alone, TellInv
  <2> QED
    BY <2>1, <2>2, <2>3, <2>4, QuietKeepsAlone
<1> QED
  BY <1>1, <1>2, <1>3

LEMMA NextKeepsHear ==
  ASSUME Types, LeftInv, HearInv, [Next]_vars PROVE HearInv'
<1> USE DEF HearInv
<1>1. CASE UNCHANGED vars
  BY <1>1 DEF vars, stateVars, readVars, connVars, histVars, DialInv, TellInv, AloneInv, Alone,
     Hears, Around, Active, Runs, At
<1>2. CASE Next
  <2>1. DialInv' /\ TellInv'
    BY <1>2, NextKeepsDial, NextKeepsTell
  <2>2. AloneInv'
    <3>1. CASE Restart
      BY <3>1 DEF Restart, AloneInv, Active
    <3>2. CASE UNCHANGED <<handlers, view, pc, received, task, crowded>>
      BY <3>2 DEF AloneInv, Alone, Hears, Around, Active, Runs
    <3>3. CASE AppDials \/ AppConnects \/ DialFails \/ LinkLost \/ ReaderCloses \/ CommandSaves
      BY <3>2, <3>3 DEF AppDials, AppConnects, DialFails, LinkLost, ReaderCloses, CommandSaves,
         readVars, histVars
    <3>4. ASSUME NEW topic, MessageArrives(topic) PROVE AloneInv'
      BY <3>4, MessageKeepsAlone
    <3>5. ASSUME NEW k \in Calls,
                 \/ CallAnsweredAtOnce(k) \/ CallArrives(k) \/ CallRegisters(k) \/ CallFindsConn(k)
                 \/ CallDials(k) \/ CallConnects(k) \/ CallGivesUp(k) \/ CallIsAnswered(k)
                 \/ CallGetsError(k) \/ CallTimesOut(k)
          PROVE  AloneInv'
      BY <3>5, ArrivingKeepsAlone, RegisteringKeepsAlone, CallsKeepAlone
    <3>6. ASSUME NEW g \in Handling,
                 \/ Dispatches(g) \/ HandlerIsCut(g) \/ HandlerGetsNoTopic(g) \/ HandlerSetsTopic(g)
                 \/ HandlerSaveFails(g) \/ HandlerSaves(g) \/ HandlerRemoves(g)
          PROVE  AloneInv'
      BY <3>6, HandlersKeepAlone
    <3> QED
      BY <1>2, <3>1, <3>3, <3>4, <3>5, <3>6 DEF Next
  <2> QED
    BY <2>1, <2>2
<1> QED
  BY <1>1, <1>2

\* A call that met no other one hears the next topic: its handler is on the list
\* from its registration until the call itself has been told or returns, however
\* many calls came before it, and whatever became of the handlers of theirs.
THEOREM UncrowdedCallHears == Spec => []HearsTopic
<1>1. Init => Types /\ LeftInv /\ HearInv
  <2>1. Init => HearInv
    BY DEF Init, HearInv, DialInv, TellInv, AloneInv, Active, At, Ctxs
  <2> QED
    BY <2>1, InitTypes, InitLeft
<1>2. Types /\ LeftInv /\ HearInv /\ [Next]_vars => (Types /\ LeftInv /\ HearInv)'
  BY NextKeepsTypes, NextKeepsLeft, NextKeepsHear
<1>3. HearInv => HearsTopic
  BY DEF HearInv, AloneInv, HearsTopic, Hears, Active
<1> QED
  BY <1>1, <1>2, <1>3, PTL DEF Spec
=============================================================================
