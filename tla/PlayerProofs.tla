---------------------------- MODULE PlayerProofs ----------------------------
(***************************************************************************)
(* The properties of Player for any clients, handlers, works and queue.    *)
(* The invariant that is inductive, IInv, adds to them who may be between  *)
(* two steps of a rotation or of a move of the pointer, what is on its way *)
(* between the CDP client and the page, and who asks the page for what.    *)
(* That Send is atomic is a refinement: every step of Player is a step of  *)
(* PageCalls, or leaves what PageCalls sees as it is.                      *)
(***************************************************************************)
EXTENDS Player, TLAPS

\* The steps of a handler that touch neither the screen nor the pointer.
TalksOn(h) == SignalGoesOn(h) \/ KeyGoesUp(h) \/ Responds(h) \/ LastSendReturns(h)
Talks(h) == WebGoesOn(h) \/ TalksOn(h)

\* A rotation that runs alone applies and writes what it read; until one that
\* is crossed has written its file, or failed to, the screen may differ.
RotationInv ==
  /\ \A h, g \in Rotating : h # g => h \in crossed
  /\ \A h \in Handlers : pc[h] \in {"apply", "write", "save"} => held[h] \in Orientations
  /\ \A h \in Handlers : pc[h] \in {"write", "save"} /\ h \notin crossed => held[h] = screen
  /\ ~drifted => screen = file \/ \E h \in Handlers : pc[h] \in {"write", "save"}

\* Pointer commands that run at once are crossed; one that runs alone stores a
\* position on the screen.
PointerInv ==
  /\ \A h, g \in Pointing : h # g => h \in crossed
  /\ \A h \in Handlers : pc[h] = "store" /\ h \notin crossed => held[h] \in 0..width
  /\ CursorOnScreen

\* Half of what is measured lies on the screen.
LEMMA Measures ==
  ASSUME width \in Nat, NEW v PROVE Measured(v) \in Nat /\ Measured(v) \div 2 \in 0..Measured(v)
<1>1. Measured(v) \in Nat
  BY DEF Measured, WidthOf, Default
<1>2. \A n \in Nat : n \div 2 \in 0..n
  OBVIOUS
<1> QED
  BY <1>1, <1>2

\* A turn leads from an orientation to an orientation.
LEMMA Turns == ASSUME NEW f \in Orientations, NEW by \in {-1, 1} PROVE (f + by) % 4 \in Orientations
<1>1. f \in {0, 1, 2, 3}
  BY DEF Orientations
<1>2. CASE by = 1
  BY <1>1, <1>2 DEF Orientations
<1>3. CASE by = -1
  BY <1>1, <1>3 DEF Orientations
<1> QED
  BY <1>2, <1>3

\* A handler that talks stays away from the places of rotations and of pointer
\* commands, and leaves what they work on alone.
Talking == {"idle", "web", "refresh", "signal", "connect", "key", "keyup", "trail", "point", "press",
            "release", "respond"}
LEMMA TalksMove ==
  ASSUME NEW h \in Handlers, Talks(h)
  PROVE  /\ pc[h] \in Talking /\ \E to \in Talking : pc' = [pc EXCEPT ![h] = to]
         /\ UNCHANGED <<held, crossed, screen, drifted, known, width, cursor, strayed, file>>
<1> USE DEF Talking, Goes, stepVars, screenVars, pointerVars, pollVars, fileVars, statusVars
<1>1. CASE WebFails(h) \/ WebReturns(h)
  BY <1>1 DEF WebFails, WebReturns
<1>2. CASE WebRefreshes(h)
  BY <1>2 DEF WebRefreshes
<1>3. CASE SignalToldPage(h)
  BY <1>3 DEF SignalToldPage
<1>4. CASE SignalConnects(h)
  BY <1>4 DEF SignalConnects
<1>5. CASE KeyGoesUp(h) \/ Responds(h)
  BY <1>5 DEF KeyGoesUp, Responds
<1>6. CASE LastSendReturns(h)
  BY <1>6 DEF LastSendReturns
<1> QED
  BY <1>1, <1>2, <1>3, <1>4, <1>5, <1>6 DEF Talks, TalksOn, WebGoesOn, SignalGoesOn

-----------------------------------------------------------------------------
\* Every step keeps the types of what the handlers have, ...
LEMMA JobTypes == ASSUME TypeOK, RotationInv, Next PROVE JobTypeOK'
<1> USE DEF TypeOK, JobTypeOK, Goes, Orientations, stepVars, screenVars, pointerVars, pollVars,
            fileVars, statusVars
<1>1. ASSUME NEW h \in Handlers, Talks(h)
      PROVE JobTypeOK'
  BY <1>1, TalksMove DEF Talking
<1>2. ASSUME NEW h \in Handlers, RotationGoesOn(h) PROVE JobTypeOK'
  <2>1. CASE \E by \in {-1, 1} : RotationReads(h, by)
    <3>1. PICK by \in {-1, 1} : RotationReads(h, by)
      BY <2>1
    <3>2. PICK n \in 0..3 : held' = [held EXCEPT ![h] = n]
      BY <3>1, Turns DEF RotationReads, PollTypeOK
    <3>3. /\ pc[h] = "read" /\ pc' = [pc EXCEPT ![h] = "apply"]
          /\ UNCHANGED <<screen, drifted, crossed, known, width, cursor, strayed, file>>
      BY <3>1 DEF RotationReads
    <3> QED
      BY <3>2, <3>3
  <2>2. CASE RotationApplies(h)
    BY <2>2 DEF RotationApplies, RotationInv
  <2>3. CASE RotationFails(h) \/ RotationEmpties(h)
    BY <2>3 DEF RotationFails, RotationEmpties
  <2>4. CASE RotationCannotSave(h)
    BY <2>4 DEF RotationCannotSave
  <2>5. CASE RotationResets(h)
    BY <2>5 DEF RotationResets
  <2>6. CASE RotationSaves(h)
    BY <2>6 DEF RotationSaves
  <2> QED
    BY <1>2, <2>1, <2>2, <2>3, <2>4, <2>5, <2>6 DEF RotationGoesOn
<1>3. ASSUME NEW h \in Handlers, PointerGoesOn(h) PROVE JobTypeOK'
  <2>1. CASE SizeKnown(h)
    BY <2>1, Measures DEF SizeKnown, MoveOrTap
  <2>2. CASE PointerReads(h) \/ PointerClamps(h)
    BY <2>2 DEF PointerReads, PointerClamps, Clamped
  <2>3. CASE PointerStores(h)
    BY <2>3 DEF PointerStores
  <2>4. CASE PointerSends(h)
    BY <2>4 DEF PointerSends
  <2>5. CASE \E by \in {-1, 1} : PointerShifts(h, by)
    BY <2>5 DEF PointerShifts
  <2> QED
    BY <1>3, <2>1, <2>2, <2>3, <2>4, <2>5 DEF PointerGoesOn
<1>4. ASSUME NEW h \in Handlers, Arrives(h) PROVE JobTypeOK'
  BY <1>4
     DEF Arrives, WebArrives, SignalArrives, KeyArrives, RotationArrives, OtherArrives,
         PointerArrives, Beside, Rotating, Pointing
<1>5. ASSUME UNCHANGED jobVars PROVE JobTypeOK'
  BY <1>5 DEF jobVars
<1>6. ASSUME LayoutFollows PROVE JobTypeOK'
  BY <1>6 DEF LayoutFollows, jobVars
<1> QED
  BY <1>1, <1>2, <1>3, <1>4, <1>5, <1>6 DEF Next, GoesOn, Talks, TalksOn

\* ... the rotations in step with their file, ...
LEMMA RotationSteps == ASSUME TypeOK, RotationInv, Next PROVE RotationInv'
<1> USE DEF TypeOK, JobTypeOK, Goes, Orientations, RotationInv, Rotating, stepVars, screenVars,
            pointerVars, pollVars, fileVars, statusVars
<1>1. ASSUME NEW h \in Handlers, Talks(h)
      PROVE RotationInv'
  <2>1. \A g \in Handlers : pc'[g] = pc[g] \/ (g = h /\ {pc[g], pc'[g]} \subseteq Talking)
    BY <1>1, TalksMove
  <2>2. \A g \in Handlers :
          /\ pc'[g] \in {"apply", "write", "save"} => pc'[g] = pc[g]
          /\ pc[g] \in {"write", "save"} => pc'[g] = pc[g]
    BY <2>1 DEF Talking
  <2>3. Rotating' = Rotating
    BY <2>1 DEF Talking
  <2> QED
    BY <1>1, <2>2, <2>3, TalksMove
<1>2. ASSUME NEW h \in Handlers, RotationGoesOn(h) PROVE RotationInv'
  <2>1. CASE \E by \in {-1, 1} : RotationReads(h, by)
    <3>1. PICK by \in {-1, 1} : RotationReads(h, by)
      BY <2>1
    <3>2. PICK n \in 0..3 : held' = [held EXCEPT ![h] = n]
      BY <3>1, Turns DEF RotationReads, PollTypeOK
    <3>3. /\ pc[h] = "read" /\ pc' = [pc EXCEPT ![h] = "apply"]
          /\ UNCHANGED <<screen, drifted, crossed, known, width, cursor, strayed, file>>
      BY <3>1 DEF RotationReads
    <3> QED
      BY <3>2, <3>3
  <2>2. CASE RotationApplies(h)
    BY <2>2 DEF RotationApplies
  <2>3. CASE RotationFails(h)
    BY <2>3 DEF RotationFails
  <2>4. CASE RotationEmpties(h)
    BY <2>4 DEF RotationEmpties
  <2>5. CASE RotationSaves(h)
    BY <2>5 DEF RotationSaves
  <2>6. CASE RotationCannotSave(h)
    BY <2>6 DEF RotationCannotSave
  <2>7. CASE RotationResets(h)
    BY <2>7 DEF RotationResets
  <2> QED
    BY <1>2, <2>1, <2>2, <2>3, <2>4, <2>5, <2>6, <2>7 DEF RotationGoesOn
<1>3. ASSUME NEW h \in Handlers, PointerGoesOn(h) PROVE RotationInv'
  BY <1>3
     DEF PointerGoesOn, SizeKnown, MoveOrTap, PointerReads, PointerClamps, PointerStores,
         PointerSends, PointerShifts
<1>4. ASSUME NEW h \in Handlers, Arrives(h) PROVE RotationInv'
  BY <1>4
     DEF Arrives, WebArrives, SignalArrives, KeyArrives, RotationArrives, OtherArrives,
         PointerArrives, Beside
<1>5. ASSUME UNCHANGED jobVars, UNCHANGED file PROVE RotationInv'
  BY <1>5 DEF jobVars
<1>6. CDPNext /\ UNCHANGED pollVars => UNCHANGED file
  OBVIOUS
<1>7. PollNext => UNCHANGED file
  BY DEF PollNext, PollerStarts, Ticks, PollEnds, PollerStep, LinkChanges, TakesRefresh,
         AsksPlayer, SkipsPlayer, LooksAtPlayer, TellsPlayer, ReadsDevice, TellsDevice, WritesPlayer, WritesDevice,
         WriteFails, NotifyPanics, RunFails
<1>8. LayoutFollows => UNCHANGED <<jobVars, file>>
  BY DEF LayoutFollows
<1> QED
  BY <1>1, <1>2, <1>3, <1>4, <1>5, <1>6, <1>7, <1>8 DEF Next, GoesOn, Talks, TalksOn

\* ... and the cursor on the screen.
LEMMA PointerSteps == ASSUME TypeOK, PointerInv, Next PROVE PointerInv'
<1> USE DEF TypeOK, JobTypeOK, Goes, PointerInv, CursorOnScreen, Pointing, stepVars, screenVars,
            pointerVars, pollVars, fileVars, statusVars
<1>1. ASSUME NEW h \in Handlers, Talks(h)
      PROVE PointerInv'
  <2>1. \A g \in Handlers : pc'[g] = pc[g] \/ (g = h /\ {pc[g], pc'[g]} \subseteq Talking)
    BY <1>1, TalksMove
  <2>2. \A g \in Handlers : pc'[g] = "store" => pc[g] = "store"
    BY <2>1 DEF Talking
  <2>3. Pointing' = Pointing
    BY <2>1 DEF Talking
  <2> QED
    BY <1>1, <2>2, <2>3, TalksMove
<1>2. ASSUME NEW h \in Handlers, RotationGoesOn(h) PROVE PointerInv'
  BY <1>2
     DEF RotationGoesOn, RotationReads, RotationApplies, RotationFails, RotationEmpties,
         RotationSaves, RotationCannotSave, RotationResets
<1>3. ASSUME NEW h \in Handlers, PointerGoesOn(h) PROVE PointerInv'
  <2>1. CASE SizeKnown(h)
    BY <2>1, Measures DEF SizeKnown, MoveOrTap
  <2>2. CASE PointerReads(h)
    BY <2>2 DEF PointerReads
  <2>3. CASE PointerClamps(h)
    BY <2>3 DEF PointerClamps, Clamped
  <2>4. CASE PointerStores(h)
    <3>1. /\ pc[h] = "store" /\ cursor' = held[h] /\ strayed' = (h \in crossed)
          /\ held' = [held EXCEPT ![h] = 0] /\ UNCHANGED width
      BY <2>4 DEF PointerStores
    <3>2. \/ pc' = [pc EXCEPT ![h] = "shift"] /\ UNCHANGED crossed
          \/ pc' = [pc EXCEPT ![h] = "trail"] /\ crossed' = crossed \ {h}
      BY <2>4 DEF PointerStores
    <3>3. CursorOnScreen'
      BY <3>1
    <3> QED
      BY <3>1, <3>2, <3>3
  <2>5. CASE PointerSends(h)
    BY <2>5 DEF PointerSends
  <2>6. CASE \E by \in {-1, 1} : PointerShifts(h, by)
    BY <2>6 DEF PointerShifts
  <2> QED
    BY <1>3, <2>1, <2>2, <2>3, <2>4, <2>5, <2>6 DEF PointerGoesOn
<1>4. ASSUME NEW h \in Handlers, Arrives(h) PROVE PointerInv'
  BY <1>4
     DEF Arrives, WebArrives, SignalArrives, KeyArrives, RotationArrives, OtherArrives,
         PointerArrives, Beside
<1>5. ASSUME UNCHANGED jobVars PROVE PointerInv'
  BY <1>5 DEF jobVars
<1>6. LayoutFollows => UNCHANGED jobVars
  BY DEF LayoutFollows
<1> QED
  BY <1>1, <1>2, <1>3, <1>4, <1>5, <1>6 DEF Next, GoesOn, Talks, TalksOn

-----------------------------------------------------------------------------
\* For the CDP client, any other step calls Send, takes what it returned, or both.
CallerSteps ==
  /\ \/ \E c \in Clients, w \in Page!Asks : SendCalled(c, w) \/ SendAgain(c, w)
     \/ \E c \in Clients : SendTaken(c)
     \/ UNCHANGED <<sendVars, socketVars, ctxDone>> /\ (UNCHANGED panicked \/ panicked' = TRUE)
  /\ UNCHANGED work  /\ layout' \in {layout} \cup Page!Layouts
  /\ UNCHANGED layout \/ UNCHANGED sendVars
  /\ unreported' \subseteq unreported

\* Only the client itself, the page, a cancellation and a failed start do anything else.
LEMMA Callers == ASSUME TypeOK, Next PROVE CDPNext \/ RunFails \/ CallerSteps
<1> USE HandlerAssumption, PollerAssumption
    DEF CallerSteps, cdpVars, pageVars, stepVars, screenVars, pointerVars, pollVars, fileVars,
        statusVars
<1>1. ASSUME NEW h \in Handlers, WebGoesOn(h) PROVE CallerSteps
  BY <1>1 DEF WebGoesOn, WebFails, WebReturns, WebRefreshes
<1>2. ASSUME NEW h \in Handlers, TalksOn(h)
      PROVE CallerSteps
  BY <1>2
     DEF TalksOn, SignalGoesOn, SignalToldPage, SignalConnects, KeyGoesUp, Responds,
         LastSendReturns, Page!Asks
<1>3. ASSUME NEW h \in Handlers, RotationGoesOn(h) PROVE CallerSteps
  BY <1>3
     DEF RotationGoesOn, RotationReads, RotationApplies, RotationFails, RotationEmpties,
         RotationSaves, RotationCannotSave, RotationResets
<1>4. ASSUME NEW h \in Handlers, PointerGoesOn(h) PROVE CallerSteps
  BY <1>4
     DEF PointerGoesOn, SizeKnown, MoveOrTap, PointerReads, PointerClamps, PointerStores,
         PointerSends, PointerShifts, Calls, Page!Asks
<1>5. ASSUME NEW h \in Handlers, Arrives(h) PROVE CallerSteps
  BY <1>5
     DEF Arrives, WebArrives, SignalArrives, KeyArrives, RotationArrives, OtherArrives,
         PointerArrives, Calls, Page!Asks
<1>6. PollNext => RunFails \/ CallerSteps
  BY DEF PollNext, PollerStarts, Ticks, PollEnds, PollerStep, LinkChanges, TakesRefresh,
         AsksPlayer, SkipsPlayer, LooksAtPlayer, TellsPlayer, ReadsDevice, TellsDevice, WritesPlayer, WritesDevice,
         WriteFails, NotifyPanics,
         Page!Asks
<1>7. LayoutFollows => CallerSteps
  BY DEF LayoutFollows, Page!Layouts
<1> QED
  BY <1>1, <1>2, <1>3, <1>4, <1>5, <1>6, <1>7 DEF Next, GoesOn, Talks, TalksOn

\* One goroutine at a time waits for a reply, and what is on its way, if it is
\* not lost, is its request or the answer to it.
SendInv ==
  /\ \A c \in Clients : at[c] = "written" <=> mu = c
  /\ mu = Nil => asked = {} /\ answers = {}
  /\ \A r \in asked : r = <<mu, ask[mu]>>
  /\ \A v \in answers : v[1] = mu /\ v[2] # "none"
  /\ \A v \in answers : ask[mu] = "status" => v[2] \in Works \cup {"error", "nothing"}
  /\ \A c \in Clients : at[c] = "returned" /\ ask[c] = "status" =>
       reply[c] \in Works \cup {"error", "nothing"}
  /\ \A v, w \in answers : v = w
  /\ asked = {} \/ answers = {}

\* What is on its way stays in order.
LEMMA SendSteps == ASSUME CDPTypeOK, SendInv, CDPNext \/ RunFails \/ CallerSteps
  PROVE CDPTypeOK' /\ SendInv'
<1> USE ClientAssumption
    DEF CDPTypeOK, SendInv, Returns, sendVars, socketVars, pageVars, Page!Asks, Page!Layouts,
        Replies
<1>1. CASE CallerSteps
  <2>1. ASSUME NEW c \in Clients, NEW w \in Page!Asks, SendCalled(c, w) \/ SendAgain(c, w)
        PROVE CDPTypeOK' /\ SendInv'
    BY <1>1, <2>1 DEF CallerSteps, SendCalled, SendAgain
  <2>2. ASSUME NEW c \in Clients, SendTaken(c) PROVE CDPTypeOK' /\ SendInv'
    BY <1>1, <2>2 DEF CallerSteps, SendTaken
  <2>3. CASE UNCHANGED <<sendVars, socketVars, ctxDone>> /\ (UNCHANGED panicked \/ panicked' = TRUE)
    BY <1>1, <2>3 DEF CallerSteps
  <2> QED
    BY <1>1, <2>1, <2>2, <2>3 DEF CallerSteps
<1>2. ASSUME NEW c \in Clients, SendChecks(c) \/ SendCannotWrite(c) PROVE CDPTypeOK' /\ SendInv'
  BY <1>2 DEF SendChecks, SendCannotWrite
<1>8. ASSUME NEW c \in Clients, SendPanics(c) PROVE CDPTypeOK' /\ SendInv'
  BY <1>8 DEF SendPanics
<1>3. ASSUME NEW c \in Clients, SendWrites(c) PROVE CDPTypeOK' /\ SendInv'
  BY <1>3 DEF SendWrites
<1>4. ASSUME NEW c \in Clients, SendReads(c) PROVE CDPTypeOK' /\ SendInv'
  BY <1>4 DEF SendReads
<1>5. ASSUME NEW c \in Clients, SendCannotRead(c) PROVE CDPTypeOK' /\ SendInv'
  BY <1>5 DEF SendCannotRead
<1>6. ASSUME NEW r \in asked, PageAnswers(r) PROVE CDPTypeOK' /\ SendInv'
  <2>1. /\ r = <<mu, ask[mu]>> /\ mu \in Clients /\ r[2] \in Page!Asks
        /\ asked = {r} /\ answers = {}
    OBVIOUS
  <2>2. PICK v \in Replies \ {"none"} :
          /\ answers' = {<<mu, v>>} /\ (r[2] = "status" => v \in Works \cup {"error", "nothing"})
    <3>1. PICK v \in {Page!Answer(r[2]), "error", "nothing"} : answers' = answers \cup {<<r[1], v>>}
      BY <1>6 DEF PageAnswers
    <3>2. Page!Answer(r[2]) \in Replies \ {"none"}
          /\ (r[2] = "status" => Page!Answer(r[2]) \in Works)
      BY <2>1 DEF Page!Answer
    <3>3. v \in Replies \ {"none"} /\ (r[2] = "status" => v \in Works \cup {"error", "nothing"})
      BY <3>1, <3>2
    <3>4. answers' = {<<mu, v>>}
      BY <2>1, <3>1
    <3> QED
      BY <3>3, <3>4
  <2>3. work' \in Works
    BY <1>6 DEF PageAnswers, Page!Shown
  <2>4. asked' = {} /\ unreported' \subseteq Clients
    BY <1>6, <2>1 DEF PageAnswers
  <2>5. UNCHANGED <<conn, alive, ctxDone, panicked, mu, at, ask, reply, layout>>
    BY <1>6 DEF PageAnswers
  <2> QED
    BY <2>1, <2>2, <2>3, <2>4, <2>5
<1>7. CASE CloseRuns \/ RunFails \/ Cancelled \/ WorkChanges \/ ChromiumEnds
  <2>1. CASE CloseRuns
    BY <2>1 DEF CloseRuns
  <2>2. CASE RunFails
    BY <2>2 DEF RunFails
  <2>3. CASE Cancelled
    BY <2>3 DEF Cancelled
  <2>4. CASE WorkChanges
    BY <2>4 DEF WorkChanges
  <2>5. CASE ChromiumEnds
    BY <2>5 DEF ChromiumEnds
  <2> QED
    BY <1>7, <2>1, <2>2, <2>3, <2>4, <2>5
<1> QED
  BY <1>1, <1>2, <1>3, <1>4, <1>5, <1>6, <1>7, <1>8 DEF CDPNext, SendGoesOn, SendLocks

-----------------------------------------------------------------------------
\* Only a cancelled context, or a start that failed, takes the connection away.
ServiceInv == (~conn => ctxDone \/ (~ready /\ poll = "ended")) /\ OnlyNotifyPanics

\* In service a nil pointer is met in a notification only.
LEMMA ServiceSteps == ASSUME ServiceInv, Next PROVE ServiceInv'
<1> DEFINE Same == UNCHANGED <<conn, ctxDone, panicked, ready, poll>>
<1> USE DEF SendCalled, SendTaken, SendAgain, Calls, cdpVars, sendVars, socketVars, pageVars,
            pollVars, statusVars
<1>0. Same => ServiceInv'
  BY DEF Next, ServiceInv, OnlyNotifyPanics
<1>1. ASSUME NEW h \in Handlers, Talks(h)
      PROVE Same
  BY <1>1
     DEF Talks, TalksOn, WebGoesOn, WebFails, WebReturns, WebRefreshes, SignalGoesOn,
         SignalToldPage, SignalConnects, KeyGoesUp, Responds, LastSendReturns
<1>2. ASSUME NEW h \in Handlers, RotationGoesOn(h), ~RotationResets(h) PROVE Same
  BY <1>2
     DEF RotationGoesOn, RotationReads, RotationApplies, RotationFails, RotationEmpties,
         RotationSaves, RotationCannotSave
<1>3. ASSUME NEW h \in Handlers, RotationResets(h) PROVE ServiceInv'
  BY <1>3 DEF RotationResets, ServiceInv, OnlyNotifyPanics
<1>4. ASSUME NEW h \in Handlers, PointerGoesOn(h) PROVE Same
  BY <1>4
     DEF PointerGoesOn, SizeKnown, MoveOrTap, PointerReads, PointerClamps, PointerStores,
         PointerSends, PointerShifts
<1>5. ASSUME NEW h \in Handlers, Arrives(h) PROVE Same
  BY <1>5
     DEF Arrives, WebArrives, SignalArrives, KeyArrives, RotationArrives, OtherArrives,
         PointerArrives
<1>6. PollNext => ServiceInv'
  <2> USE DEF ServiceInv, OnlyNotifyPanics
  <2>1. CASE NotifyPanics
    BY <2>1 DEF NotifyPanics
  <2>2. CASE RunFails
    BY <2>2 DEF Next, RunFails
  <2>3. CASE PollerStarts
    BY <2>3 DEF Next, PollerStarts
  <2>4. CASE PollEnds
    BY <2>4 DEF Next, PollEnds
  <2>5. CASE PollNext /\ ~NotifyPanics /\ ~RunFails /\ ~PollerStarts /\ ~PollEnds
    <3>1. UNCHANGED <<conn, ctxDone, panicked, ready>> /\ (poll = "ended" => poll' = "ended")
      BY <2>5
         DEF PollNext, Ticks, PollerStep, LinkChanges, TakesRefresh, AsksPlayer, SkipsPlayer,
             LooksAtPlayer, TellsPlayer, ReadsDevice, TellsDevice, WritesPlayer, WritesDevice,
             WriteFails
    <3> QED
      BY <3>1 DEF Next
  <2> QED
    BY <2>1, <2>2, <2>3, <2>4, <2>5
<1>7. LayoutFollows => Same
  BY DEF LayoutFollows
<1>8. ASSUME CDPNext, UNCHANGED pollVars PROVE ServiceInv'
  <2> USE <1>8
  <2>1. CASE CloseRuns \/ Cancelled
    BY <2>1 DEF CloseRuns, Cancelled, Next, ServiceInv, OnlyNotifyPanics
  <2>2. ASSUME NEW c \in Clients, SendPanics(c) PROVE ServiceInv'
    BY <2>2 DEF SendPanics, ServiceInv, OnlyNotifyPanics
  <2>3. CASE WorkChanges \/ ChromiumEnds
    BY <1>0, <2>3 DEF WorkChanges, ChromiumEnds
  <2>4. ASSUME NEW c \in Clients,
               SendChecks(c) \/ SendCannotWrite(c) \/ SendWrites(c) \/ SendReads(c) \/ SendCannotRead(c)
        PROVE ServiceInv'
    BY <1>0, <2>4 DEF SendChecks, SendCannotWrite, SendWrites, SendReads, SendCannotRead
  <2>5. ASSUME NEW r \in asked, PageAnswers(r) PROVE ServiceInv'
    BY <1>0, <2>5 DEF PageAnswers
  <2> QED
    BY <2>1, <2>2, <2>3, <2>4, <2>5 DEF CDPNext, SendGoesOn, SendLocks
<1> HIDE DEF Same
<1> QED
  BY <1>0, <1>1, <1>2, <1>3, <1>4, <1>5, <1>6, <1>7, <1>8 DEF Next, GoesOn, Talks, TalksOn

-----------------------------------------------------------------------------
\* Only the handler of a command for the page asks for a work, and only the
\* poller, once in each poll, for the status.
AskInv ==
  /\ \A c \in Clients : at[c] # "idle" /\ ask[c] \in Works => c \in Handlers /\ pc[c] = "web"
  /\ poll = "asked" <=> at[Poller] # "idle"
  /\ poll = "asked" => ask[Poller] = "status"

\* Who asks what depends on where the handlers and the poller are.
LEMMA AskSteps == ASSUME TypeOK, AskInv, Next PROVE AskInv'
<1> USE ClientAssumption, PollerAssumption, HandlerAssumption
    DEF TypeOK, JobTypeOK, CDPTypeOK, AskInv, Goes, SendCalled, SendTaken, SendAgain, Calls,
        Page!Asks, Page!Layouts, cdpVars, sendVars, socketVars, pageVars, stepVars, screenVars,
        pointerVars, pollVars, fileVars, statusVars
<1>1. ASSUME NEW h \in Handlers, WebGoesOn(h) \/ SignalGoesOn(h) PROVE AskInv'
  <2>1. CASE WebFails(h)
    BY <2>1 DEF WebFails
  <2>2. CASE WebReturns(h) \/ WebRefreshes(h)
    BY <2>2 DEF WebReturns, WebRefreshes
  <2>3. CASE SignalToldPage(h)
    BY <2>3 DEF SignalToldPage
  <2>4. CASE SignalConnects(h)
    BY <2>4 DEF SignalConnects
  <2> QED
    BY <1>1, <2>1, <2>2, <2>3, <2>4 DEF WebGoesOn, SignalGoesOn
<1>2. ASSUME NEW h \in Handlers, KeyGoesUp(h) \/ Responds(h) \/ LastSendReturns(h) PROVE AskInv'
  BY <1>2 DEF KeyGoesUp, Responds, LastSendReturns
<1>3. ASSUME NEW h \in Handlers, RotationGoesOn(h) PROVE AskInv'
  BY <1>3
     DEF RotationGoesOn, RotationReads, RotationApplies, RotationFails, RotationEmpties,
         RotationSaves, RotationCannotSave, RotationResets
<1>4. ASSUME NEW h \in Handlers, PointerGoesOn(h) PROVE AskInv'
  BY <1>4
     DEF PointerGoesOn, SizeKnown, MoveOrTap, PointerReads, PointerClamps, PointerStores,
         PointerSends, PointerShifts
<1>5. ASSUME NEW h \in Handlers, Arrives(h) PROVE AskInv'
  BY <1>5
     DEF Arrives, WebArrives, SignalArrives, KeyArrives, RotationArrives, OtherArrives,
         PointerArrives
<1>6. PollNext /\ UNCHANGED jobVars => AskInv'
  BY DEF jobVars, PollNext, PollerStarts, Ticks, PollEnds, PollerStep, LinkChanges,
         TakesRefresh, AsksPlayer, SkipsPlayer, LooksAtPlayer, TellsPlayer, ReadsDevice, TellsDevice, WritesPlayer, WritesDevice,
         WriteFails, NotifyPanics, RunFails
<1>7. LayoutFollows => AskInv'
  BY DEF LayoutFollows, jobVars
<1>8. CDPNext /\ UNCHANGED <<jobVars, pollVars>> => AskInv'
  BY DEF jobVars, CDPNext, SendGoesOn, SendLocks, SendChecks, SendCannotWrite, SendPanics,
         SendWrites, SendReads, SendCannotRead, Returns, PageAnswers, CloseRuns, Cancelled,
         WorkChanges, ChromiumEnds
<1> QED
  BY <1>1, <1>2, <1>3, <1>4, <1>5, <1>6, <1>7, <1>8 DEF Next, GoesOn, Talks, TalksOn

\* The poller records what the page answered to its own call.
LEMMA PollTypes == ASSUME TypeOK, RotationInv, SendInv, AskInv, Next PROVE PollTypeOK'
<1> USE PollerAssumption, HandlerAssumption
    DEF TypeOK, PollTypeOK, Orientations, stepVars, screenVars, pointerVars, pollVars, fileVars,
        statusVars, ForceRefresh
<1>1. ASSUME NEW h \in Handlers, Talks(h)
      PROVE PollTypeOK'
  <2>1. UNCHANGED <<poll, ready, file, unread, hash, told>> /\ queue' \in 0..QueueSize
    <3>1. CASE WebGoesOn(h)
      BY <3>1 DEF WebGoesOn, WebFails, WebReturns, WebRefreshes
    <3>2. CASE TalksOn(h)
      BY <3>2
         DEF TalksOn, SignalGoesOn, SignalToldPage, SignalConnects, KeyGoesUp, Responds,
             LastSendReturns
    <3> QED
      BY <1>1, <3>1, <3>2 DEF Talks
  <2>2. online' \in {online, TRUE}
    BY <1>1
       DEF Talks, TalksOn, WebGoesOn, WebFails, WebReturns, WebRefreshes, SignalGoesOn,
           SignalToldPage, SignalConnects, KeyGoesUp, Responds, LastSendReturns
  <2> QED
    BY <2>1, <2>2
<1>2. ASSUME NEW h \in Handlers, RotationGoesOn(h) PROVE PollTypeOK'
  <2>1. /\ file' \in {0, file, held[h]}
        /\ (file' = held[h] => pc[h] = "save" \/ file' = file \/ file' = 0)
    BY <1>2
       DEF RotationGoesOn, RotationReads, RotationApplies, RotationFails, RotationEmpties,
           RotationSaves, RotationCannotSave, RotationResets
  <2>2. /\ UNCHANGED <<poll, ready, online, hash, told>>
        /\ queue' \in 0..QueueSize /\ unread' \subseteq unread \cup {h}
    BY <1>2
       DEF RotationGoesOn, RotationReads, RotationApplies, RotationFails, RotationEmpties,
           RotationSaves, RotationCannotSave, RotationResets
  <2> QED
    BY <2>1, <2>2 DEF RotationInv
<1>3. ASSUME NEW h \in Handlers, PointerGoesOn(h) PROVE PollTypeOK'
  BY <1>3
     DEF PointerGoesOn, SizeKnown, MoveOrTap, PointerReads, PointerClamps, PointerStores,
         PointerSends, PointerShifts
<1>4. ASSUME NEW h \in Handlers, Arrives(h) PROVE PollTypeOK'
  BY <1>4
     DEF Arrives, WebArrives, SignalArrives, KeyArrives, RotationArrives, OtherArrives,
         PointerArrives
<1>5. ASSUME PollNext PROVE PollTypeOK'
  <2>1. CASE PollerStarts \/ Ticks \/ PollEnds \/ LinkChanges
    BY <2>1 DEF PollerStarts, Ticks, PollEnds, LinkChanges
  <2>2. CASE TakesRefresh \/ AsksPlayer \/ SkipsPlayer
    BY <2>2 DEF TakesRefresh, AsksPlayer, SkipsPlayer
  <2>3. CASE LooksAtPlayer
    BY <2>3 DEF LooksAtPlayer, AskInv, SendInv, SendTaken
  <2>4. CASE ReadsDevice
    BY <2>4 DEF ReadsDevice
  <2>5. CASE TellsPlayer \/ TellsDevice \/ WritesPlayer \/ WritesDevice
    BY <2>5 DEF TellsPlayer, TellsDevice, WritesPlayer, WritesDevice
  <2>6. CASE WriteFails \/ NotifyPanics \/ RunFails
    BY <2>6 DEF WriteFails, NotifyPanics, RunFails
  <2> QED
    BY <1>5, <2>1, <2>2, <2>3, <2>4, <2>5, <2>6 DEF PollNext, PollerStep
<1>6. LayoutFollows => PollTypeOK'
  BY DEF LayoutFollows
<1>7. UNCHANGED pollVars => PollTypeOK'
  OBVIOUS
<1> QED
  BY <1>1, <1>2, <1>3, <1>4, <1>5, <1>6, <1>7 DEF Next, GoesOn, Talks, TalksOn

\* A handler's step, for the poller's call: it is another goroutine's.
HandlerSends(h) ==
  /\ UNCHANGED <<poll, answers>>
  /\ at'[Poller] = at[Poller] /\ reply'[Poller] = reply[Poller]

\* So is every step of a handler.
LEMMA HandlersSend ==
  ASSUME TypeOK, NEW h \in Handlers, Arrives(h) \/ GoesOn(h)
  PROVE HandlerSends(h)
<1> USE PollerAssumption, HandlerAssumption
    DEF TypeOK, CDPTypeOK, HandlerSends, SendCalled, SendTaken, SendAgain, Calls, cdpVars,
        sendVars, socketVars, pollVars, statusVars
<1>1. CASE Talks(h)
  BY <1>1
     DEF Talks, TalksOn, WebGoesOn, WebFails, WebReturns, WebRefreshes, SignalGoesOn,
         SignalToldPage, SignalConnects, KeyGoesUp, Responds, LastSendReturns
<1>2. CASE RotationGoesOn(h)
  BY <1>2
     DEF RotationGoesOn, RotationReads, RotationApplies, RotationFails, RotationEmpties,
         RotationSaves, RotationCannotSave, RotationResets
<1>3. CASE PointerGoesOn(h)
  BY <1>3
     DEF PointerGoesOn, SizeKnown, MoveOrTap, PointerReads, PointerClamps, PointerStores,
         PointerSends, PointerShifts
<1>4. CASE Arrives(h)
  BY <1>4
     DEF Arrives, WebArrives, SignalArrives, KeyArrives, RotationArrives, OtherArrives,
         PointerArrives
<1> QED
  BY <1>1, <1>2, <1>3, <1>4 DEF GoesOn, Talks, TalksOn

\* What is still to be reported is of the handlers; without a poller their own
\* steps report it, or end the process.
ChangeInv ==
  /\ ChangeWillBeSeen /\ unreported \subseteq Handlers /\ unread \subseteq Handlers
  /\ ~ready => /\ \A h \in unreported : pc[h] \in {"web", "refresh"}
               /\ \A h \in unread : pc[h] = "reset"

\* No step forgets a change.
LEMMA ChangeSteps == ASSUME TypeOK, SendInv, AskInv, ChangeInv, Next PROVE ChangeInv'
<1> USE ClientAssumption, PollerAssumption, HandlerAssumption
    DEF TypeOK, JobTypeOK, CDPTypeOK, PollTypeOK, SendInv, AskInv, ChangeInv, ChangeWillBeSeen,
        Goes, ForceRefresh, cdpVars, pageVars, stepVars, screenVars, pointerVars, pollVars,
        fileVars, statusVars
<1> DEFINE Keeps == /\ UNCHANGED <<unreported, unread, queue, ready>>
                    /\ \A g \in Handlers : pc[g] \in {"web", "refresh", "reset"} => pc'[g] = pc[g]
<1>0. ASSUME NEW h \in Handlers, Arrives(h) \/ GoesOn(h)
      PROVE PollIsComing' = PollIsComing /\ UNCHANGED poll
  BY <1>0, HandlersSend DEF HandlerSends, PollIsComing
<1>9. ASSUME NEW h \in Handlers, Arrives(h) \/ GoesOn(h), Keeps PROVE ChangeInv'
  BY <1>0, <1>9
<1>1. ASSUME NEW h \in Handlers, WebGoesOn(h) PROVE ChangeInv'
  <2> USE <1>0, <1>1 DEF GoesOn
  <2>1. CASE WebFails(h)
    BY <2>1 DEF WebFails
  <2>2. CASE WebReturns(h)
    BY <2>2 DEF WebReturns
  <2>3. CASE WebRefreshes(h)
    BY <2>3 DEF WebRefreshes
  <2> QED
    BY <2>1, <2>2, <2>3 DEF WebGoesOn
<1>2. ASSUME NEW h \in Handlers, TalksOn(h)
      PROVE Keeps
  <2>1. CASE SignalToldPage(h)
    BY <2>1 DEF SignalToldPage
  <2>3. CASE SignalConnects(h)
    <3>1. UNCHANGED <<unreported, unread, queue, ready>>
      BY <2>3 DEF SignalConnects
    <3>2. pc[h] = "connect" /\ pc' = [pc EXCEPT ![h] = "idle"]
      BY <2>3 DEF SignalConnects
    <3> QED
      BY <3>1, <3>2
  <2>2. CASE KeyGoesUp(h) \/ Responds(h) \/ LastSendReturns(h)
    BY <2>2 DEF KeyGoesUp, Responds, LastSendReturns
  <2> QED
    BY <1>2, <2>1, <2>2, <2>3 DEF TalksOn, SignalGoesOn
<1>3. ASSUME NEW h \in Handlers, RotationGoesOn(h) PROVE ChangeInv'
  <2> USE <1>0, <1>3 DEF GoesOn
  <2>1. CASE RotationSaves(h)
    BY <2>1 DEF RotationSaves
  <2>2. CASE RotationResets(h)
    BY <2>2 DEF RotationResets
  <2>3. CASE \/ RotationApplies(h) \/ RotationFails(h) \/ RotationEmpties(h)
             \/ \E by \in {-1, 1} : RotationReads(h, by)
    <3>1. Keeps
      BY <2>3 DEF RotationReads, RotationApplies, RotationFails, RotationEmpties
    <3> QED
      BY <3>1, <1>9
  <2>4. CASE RotationCannotSave(h)
    BY <2>4 DEF RotationCannotSave
  <2> QED
    BY <2>1, <2>2, <2>3, <2>4 DEF RotationGoesOn
<1>4. ASSUME NEW h \in Handlers, PointerGoesOn(h) PROVE Keeps
  BY <1>4
     DEF PointerGoesOn, SizeKnown, MoveOrTap, PointerReads, PointerClamps, PointerStores,
         PointerSends, PointerShifts, Calls
<1>5. ASSUME NEW h \in Handlers, Arrives(h) PROVE Keeps
  BY <1>5
     DEF Arrives, WebArrives, SignalArrives, KeyArrives, RotationArrives, OtherArrives,
         PointerArrives, Calls
<1> USE DEF PollIsComing, SendCalled, SendTaken, SendAgain, sendVars, socketVars
<1>6. ASSUME PollNext, UNCHANGED jobVars PROVE ChangeInv'
  BY <1>6
     DEF jobVars, PollNext, PollerStarts, Ticks, PollEnds, PollerStep, LinkChanges,
         TakesRefresh, AsksPlayer, SkipsPlayer, LooksAtPlayer, TellsPlayer, ReadsDevice, TellsDevice, WritesPlayer, WritesDevice,
         WriteFails, NotifyPanics, RunFails
<1>7. LayoutFollows => ChangeInv'
  BY DEF LayoutFollows, jobVars
<1>8. ASSUME CDPNext, UNCHANGED <<jobVars, pollVars>> PROVE ChangeInv'
  <2> USE <1>8 DEF jobVars
  <2>1. CASE CloseRuns \/ Cancelled \/ WorkChanges \/ ChromiumEnds
    BY <2>1 DEF CloseRuns, Cancelled, WorkChanges, ChromiumEnds
  <2>2. ASSUME NEW c \in Clients, SendChecks(c) \/ SendCannotWrite(c) \/ SendPanics(c)
        PROVE ChangeInv'
    BY <2>2 DEF SendChecks, SendCannotWrite, SendPanics, Returns
  <2>3. ASSUME NEW c \in Clients, SendWrites(c) PROVE ChangeInv'
    BY <2>3 DEF SendWrites
  <2>4. ASSUME NEW c \in Clients, SendReads(c) PROVE ChangeInv'
    BY <2>4 DEF SendReads, Returns
  <2>5. ASSUME NEW c \in Clients, SendCannotRead(c) PROVE ChangeInv'
    BY <2>5 DEF SendCannotRead, Returns
  <2>6. ASSUME NEW r \in asked, PageAnswers(r) PROVE ChangeInv'
    BY <2>6 DEF PageAnswers
  <2> QED
    BY <2>1, <2>2, <2>3, <2>4, <2>5, <2>6 DEF CDPNext, SendGoesOn, SendLocks
<1> QED
  BY <1>9, <1>1, <1>2, <1>3, <1>4, <1>5, <1>6, <1>7, <1>8 DEF Next, GoesOn, Talks, TalksOn

-----------------------------------------------------------------------------
\* What the abstract call of each goroutine is.
Mapped ==
  /\ AbstractCalls = [c \in Clients |-> AbstractCalls[c]]
  /\ \A c \in Clients :
       /\ at[c] \in {"idle", "returned"} => AbstractCalls[c] = Page!Idle
       /\ at[c] \in {"call", "ready"} \/ (at[c] = "written" /\ answers = {}) =>
            AbstractCalls[c] = Page!Asked(ask[c])
       /\ \A x : at[c] = "written" /\ <<c, x>> \in answers => AbstractCalls[c] = Page!Served(x)

\* In every state the invariant allows.
LEMMA Abstraction == CDPTypeOK /\ SendInv => Mapped
<1> SUFFICES ASSUME CDPTypeOK, SendInv PROVE Mapped
  OBVIOUS
<1>1. AbstractCalls = [c \in Clients |-> AbstractCalls[c]]
  BY DEF AbstractCalls
<1>2. ASSUME NEW c \in Clients PROVE at[c] \in {"idle", "returned"} => AbstractCalls[c] = Page!Idle
  <2>1. at[c] \in {"idle", "returned"} => ~ \E v \in answers : v[1] = c
    BY DEF SendInv, CDPTypeOK
  <2> QED
    BY <2>1 DEF AbstractCalls, Page!Idle
<1>3. ASSUME NEW c \in Clients, at[c] \in {"call", "ready"} \/ (at[c] = "written" /\ answers = {})
      PROVE AbstractCalls[c] = Page!Asked(ask[c])
  <2>1. ~ \E v \in answers : v[1] = c
    BY <1>3 DEF SendInv, CDPTypeOK
  <2> QED
    BY <1>3, <2>1 DEF AbstractCalls, Page!Asked
<1>4. ASSUME NEW c \in Clients, NEW x, at[c] = "written", <<c, x>> \in answers
      PROVE AbstractCalls[c] = Page!Served(x)
  <2>1. (CHOOSE v \in answers : v[1] = c) = <<c, x>>
    BY <1>4 DEF SendInv
  <2>2. \E v \in answers : v[1] = c
    BY <1>4
  <2>3. AbstractCalls[c] = [at |-> "served", value |-> (CHOOSE v \in answers : v[1] = c)[2]]
    BY <1>4, <2>2 DEF AbstractCalls
  <2>4. <<c, x>>[2] = x
    OBVIOUS
  <2> QED
    BY <2>1, <2>3, <2>4, Zenon DEF Page!Served
<1> QED
  BY <1>1, <1>2, <1>3, <1>4 DEF Mapped

\* A step of one goroutine leaves the calls of the others as they are.
LEMMA OthersKeepTheirCalls ==
  ASSUME CDPTypeOK, SendInv, Mapped, Mapped', NEW c \in Clients,
         \A d \in Clients \ {c} : at'[d] = at[d] /\ ask'[d] = ask[d],
         UNCHANGED answers \/ \A d \in Clients \ {c} : at[d] # "written"
  PROVE AbstractCalls' = [AbstractCalls EXCEPT ![c] = AbstractCalls'[c]]
<1>1. ASSUME NEW d \in Clients \ {c} PROVE AbstractCalls'[d] = AbstractCalls[d]
  <2>1. CASE at[d] \in {"idle", "returned"}
    BY <2>1 DEF Mapped
  <2>2. CASE at[d] \in {"call", "ready"}
    BY <2>2 DEF Mapped
  <2>3. CASE at[d] = "written" /\ answers = {}
    BY <2>3 DEF Mapped
  <2>4. CASE at[d] = "written" /\ answers # {}
    <3>1. PICK v : v \in answers
      BY <2>4
    <3>2. v = <<d, v[2]>>
      BY <2>4, <3>1 DEF SendInv, CDPTypeOK
    <3> QED
      BY <2>4, <3>1, <3>2 DEF Mapped
  <2> QED
    BY <2>1, <2>2, <2>3, <2>4 DEF CDPTypeOK
<1> QED
  BY <1>1 DEF Mapped

\* Send implements the call: each step is a step of PageCalls, or leaves it as it is.
LEMMA PageSteps ==
  ASSUME CDPTypeOK, SendInv, CDPTypeOK', SendInv', CDPNext \/ RunFails \/ CallerSteps
  PROVE [Page!Next]_Page!pageVars
<1>1. Mapped
  BY Abstraction
<1>2. Mapped'
  BY Abstraction, PTL
<1> DEFINE Steps(c) == AbstractCalls' = [AbstractCalls EXCEPT ![c] = AbstractCalls'[c]]
           OneStep(c) == \A d \in Clients \ {c} : at'[d] = at[d] /\ ask'[d] = ask[d]
           Alone(c) == UNCHANGED answers \/ \A d \in Clients \ {c} : at[d] # "written"
<1>3. ASSUME NEW c \in Clients, OneStep(c), Alone(c) PROVE Steps(c)
  BY <1>1, <1>2, <1>3, OthersKeepTheirCalls
<1> HIDE DEF OneStep, Alone, Steps
<1>4. CASE CallerSteps
  <2>1. ASSUME NEW c \in Clients, NEW w \in Page!Asks, SendCalled(c, w) PROVE Page!Call(c, w)
    <3>1. Steps(c)
      BY <1>3, <2>1 DEF OneStep, Alone, SendCalled, CDPTypeOK, socketVars
    <3>2. AbstractCalls[c] = Page!Idle /\ AbstractCalls'[c] = Page!Asked(w)
      BY <1>1, <1>2, <2>1 DEF SendCalled, Mapped, CDPTypeOK
    <3>3. UNCHANGED <<work, layout, reply>>
      BY <1>4, <2>1 DEF CallerSteps, SendCalled, sendVars, CDPTypeOK
    <3> QED
      BY <3>1, <3>2, <3>3 DEF Steps, Page!Call
  <2>2. ASSUME NEW c \in Clients, NEW w \in Page!Asks, SendAgain(c, w) PROVE Page!Take(c)
    <3>1. Steps(c)
      BY <1>3, <2>2 DEF OneStep, Alone, SendAgain, CDPTypeOK, socketVars
    <3>2. AbstractCalls[c] = Page!Idle /\ AbstractCalls'[c] = Page!Asked(w)
      BY <1>1, <1>2, <2>2 DEF SendAgain, Mapped, CDPTypeOK
    <3>3. reply' = [reply EXCEPT ![c] = "none"] /\ UNCHANGED <<work, layout>>
      BY <1>4, <2>2 DEF CallerSteps, SendAgain, sendVars, CDPTypeOK
    <3> QED
      BY <3>1, <3>2, <3>3 DEF Steps, Page!Take
  <2>3. ASSUME NEW c \in Clients, SendTaken(c) PROVE Page!Take(c)
    <3>1. Steps(c)
      BY <1>3, <2>3 DEF OneStep, Alone, SendTaken, CDPTypeOK, socketVars
    <3>2. AbstractCalls[c] = Page!Idle /\ AbstractCalls'[c] = Page!Idle
      BY <1>1, <1>2, <2>3 DEF SendTaken, Mapped, CDPTypeOK
    <3>3. reply' = [reply EXCEPT ![c] = "none"] /\ UNCHANGED <<work, layout>>
      BY <1>4, <2>3 DEF CallerSteps, SendTaken, sendVars, CDPTypeOK
    <3> QED
      BY <1>1, <3>1, <3>2, <3>3 DEF Steps, Mapped, Page!Take
  <2>4. ASSUME UNCHANGED <<sendVars, socketVars>> PROVE [Page!Next]_Page!pageVars
    <3>1. UNCHANGED AbstractCalls
      BY <2>4 DEF AbstractCalls, sendVars, socketVars
    <3> QED
      BY <1>4, <2>4, <3>1 DEF CallerSteps, sendVars, CDPTypeOK, Page!Next, Page!PageChanges
  <2> QED
    BY <1>4, <2>1, <2>2, <2>3, <2>4 DEF CallerSteps, Page!Next
\* What the client itself and the page do.
<1>5. ASSUME NEW c \in Clients, SendChecks(c) \/ SendCannotWrite(c) \/ SendPanics(c)
      PROVE [Page!Next]_Page!pageVars
  <2>1. Steps(c) /\ UNCHANGED <<work, layout>>
    BY <1>3, <1>5
       DEF OneStep, Alone, SendChecks, SendCannotWrite, SendPanics, Returns, CDPTypeOK,
           sendVars, socketVars, pageVars
  <2>2. CASE at'[c] = "returned" /\ reply' = [reply EXCEPT ![c] = "error"]
    <3>1. AbstractCalls'[c] = Page!Idle
      BY <1>2, <2>2 DEF Mapped
    <3> QED
      BY <2>1, <2>2, <3>1 DEF Steps, Page!Fail, Page!Next
  <2>3. CASE /\ at[c] \in {"call", "ready"} /\ at'[c] \in {"call", "ready"}
             /\ ask'[c] = ask[c] /\ UNCHANGED reply
    <3>1. AbstractCalls'[c] = AbstractCalls[c]
      BY <1>1, <1>2, <2>3 DEF Mapped
    <3> QED
      BY <1>1, <2>1, <2>3, <3>1 DEF Steps, Mapped, Page!pageVars
  <2> QED
    BY <1>5, <2>2, <2>3
       DEF SendChecks, SendCannotWrite, SendPanics, Returns, CDPTypeOK, sendVars
<1>6. ASSUME NEW c \in Clients, SendWrites(c) PROVE UNCHANGED Page!pageVars
  <2>1. answers = {} /\ UNCHANGED <<answers, reply, ask, work, layout>>
    BY <1>6, ClientAssumption DEF SendWrites, SendInv, pageVars
  <2>2. Steps(c)
    BY <1>3, <1>6 DEF OneStep, Alone, SendWrites, CDPTypeOK
  <2>3. AbstractCalls'[c] = AbstractCalls[c]
    BY <1>1, <1>2, <1>6, <2>1 DEF SendWrites, Mapped, CDPTypeOK
  <2> QED
    BY <1>1, <2>1, <2>2, <2>3 DEF Steps, Mapped, Page!pageVars
<1>7. ASSUME NEW c \in Clients, SendReads(c) PROVE Page!Next
  <2>1. PICK v \in answers : answers' = answers \ {v} /\ Returns(c, v[2])
    BY <1>7 DEF SendReads
  <2>2. v = <<c, v[2]>> /\ v[2] \in Works \cup Page!Layouts \cup {"error", "nothing"}
    BY <1>7, <2>1 DEF SendReads, SendInv, CDPTypeOK, Replies
  <2>3. Steps(c)
    BY <1>3, <1>7 DEF OneStep, Alone, SendReads, SendInv, Returns, CDPTypeOK
  <2>4. AbstractCalls[c] = Page!Served(v[2]) /\ AbstractCalls'[c] = Page!Idle
    BY <1>1, <1>2, <1>7, <2>1, <2>2 DEF SendReads, Returns, Mapped, CDPTypeOK
  <2>5. reply' = [reply EXCEPT ![c] = v[2]] /\ UNCHANGED <<work, layout>>
    BY <1>7, <2>1 DEF SendReads, Returns, pageVars
  <2>6. Page!Return(c, v[2])
    BY <2>3, <2>4, <2>5 DEF Steps, Page!Return
  <2> QED
    BY <2>2, <2>6 DEF Page!Next
<1>8. ASSUME NEW c \in Clients, SendCannotRead(c) PROVE Page!Fail(c)
  <2>1. Steps(c)
    BY <1>3, <1>8 DEF OneStep, Alone, SendCannotRead, SendInv, Returns, CDPTypeOK
  <2>2. AbstractCalls'[c] = Page!Idle
    BY <1>2, <1>8 DEF SendCannotRead, Returns, Mapped, CDPTypeOK
  <2>3. reply' = [reply EXCEPT ![c] = "error"] /\ UNCHANGED <<work, layout>>
    BY <1>8 DEF SendCannotRead, Returns, pageVars
  <2> QED
    BY <2>1, <2>2, <2>3 DEF Steps, Page!Fail
<1>9. ASSUME NEW r \in asked, PageAnswers(r) PROVE \E w \in Page!Asks : Page!Serve(r[1], w)
  <2>1. r = <<mu, ask[mu]>> /\ mu \in Clients /\ at[mu] = "written" /\ answers = {}
    BY ClientAssumption DEF SendInv, CDPTypeOK
  <2>2. Steps(mu) /\ UNCHANGED <<layout, reply, at, ask>>
    BY <1>3, <1>9, <2>1 DEF OneStep, Alone, PageAnswers, SendInv, sendVars
  <2>3. PICK v :
          /\ answers' = {<<mu, v>>}
          /\ \/ v = Page!Answer(ask[mu]) /\ work' = Page!Shown(ask[mu])
             \/ v = "error" /\ work' \in {work, Page!Shown(ask[mu])}
             \/ v = "nothing" /\ work' = work
    <3>1. r[1] = mu /\ r[2] = ask[mu] /\ \A v : answers \cup {v} = {v}
      BY <2>1
    <3>0. Page!Answer(r[2]) = Page!Answer(ask[mu]) /\ Page!Shown(r[2]) = Page!Shown(ask[mu])
      BY <3>1
    <3>2. CASE answers' = answers \cup {<<r[1], Page!Answer(r[2])>>} /\ work' = Page!Shown(r[2])
      BY <3>0, <3>1, <3>2
    <3>3. CASE answers' = answers \cup {<<r[1], "error">>} /\ work' \in {work, Page!Shown(r[2])}
      BY <3>0, <3>1, <3>3
    <3>4. CASE answers' = answers \cup {<<r[1], "nothing">>} /\ UNCHANGED work
      BY <3>1, <3>4
    <3> QED
      BY <1>9, <3>2, <3>3, <3>4, Zenon DEF PageAnswers
  <2>4. AbstractCalls[mu] = Page!Asked(ask[mu])
    BY <1>1, <2>1 DEF Mapped
  <2>5. AbstractCalls'[mu] = Page!Served(v)
    BY <1>2, <2>1, <2>2, <2>3 DEF Mapped
  <2>6. Page!Serve(mu, ask[mu])
    BY <2>2, <2>3, <2>4, <2>5 DEF Steps, Page!Serve
  <2> QED
    BY <2>1, <2>6 DEF CDPTypeOK
<1>10. ASSUME CloseRuns \/ RunFails \/ Cancelled \/ ChromiumEnds PROVE UNCHANGED Page!pageVars
  <2>1. UNCHANGED <<at, ask, answers, reply, work, layout>>
    BY <1>10 DEF CloseRuns, RunFails, Cancelled, ChromiumEnds, sendVars, socketVars, pageVars
  <2>2. UNCHANGED AbstractCalls
    BY <2>1 DEF AbstractCalls
  <2> QED
    BY <2>1, <2>2 DEF Page!pageVars
<1>11. WorkChanges => Page!PageChanges
  BY DEF WorkChanges, AbstractCalls, Page!PageChanges, sendVars, socketVars, pageVars, CDPTypeOK
<1> QED
  <2>1. CASE CDPNext
    <3>1. ASSUME NEW r \in asked, PageAnswers(r) PROVE Page!Next
      BY <1>9, <3>1 DEF Page!Next, CDPTypeOK
    <3> QED
      BY <2>1, <3>1, <1>5, <1>6, <1>7, <1>8, <1>10, <1>11
         DEF CDPNext, SendGoesOn, SendLocks, Page!Next
  <2> QED
    BY <1>4, <1>10, <2>1

-----------------------------------------------------------------------------
\* All of it together, the inductive invariant.
IInv ==
  TypeOK /\ RotationInv /\ PointerInv /\ SendInv /\ AskInv /\ ChangeInv /\ ServiceInv

\* It holds when connectd has connected to its browser.
LEMMA Initially == Init => IInv
<1> SUFFICES ASSUME Init PROVE IInv
  OBVIOUS
<1> USE ClientAssumption, PollerAssumption, HandlerAssumption DEF Init, CDPInit, PollInit
<1>1. CDPTypeOK
  BY DEF CDPTypeOK, Page!Asks, Page!Layouts, Replies
<1>2. PollTypeOK
  <2>1. ready \in BOOLEAN /\ online \in BOOLEAN
    OBVIOUS
  <2>2. /\ hash = [player |-> Nil, device |-> Nil] /\ told = hash
        /\ file = 0 /\ queue = 0 /\ unread = {} /\ poll = "start"
    OBVIOUS
  <2> QED
    BY <2>1, <2>2 DEF PollTypeOK, Orientations
<1>3. JobTypeOK
  <2>1. pc = [h \in Handlers |-> "idle"] /\ held = [h \in Handlers |-> 0]
    OBVIOUS
  <2>2. screen = 0 /\ crossed = {} /\ width = 0 /\ cursor = 0
    OBVIOUS
  <2>3. drifted \in BOOLEAN /\ known \in BOOLEAN /\ strayed \in BOOLEAN
    OBVIOUS
  <2> QED
    BY <2>1, <2>2, <2>3 DEF JobTypeOK, Orientations
<1>4. RotationInv /\ PointerInv
  BY DEF RotationInv, Rotating, PointerInv, Pointing, CursorOnScreen
<1>5. SendInv /\ AskInv
  BY DEF SendInv, AskInv
<1>6. ChangeInv /\ ServiceInv
  BY DEF ChangeInv, ChangeWillBeSeen, ServiceInv, OnlyNotifyPanics
<1> QED
  BY <1>1, <1>2, <1>3, <1>4, <1>5, <1>6 DEF IInv, TypeOK

\* Every step keeps it, and so does stuttering.
LEMMA StepKeepsIInv == IInv /\ [Next]_vars => IInv'
<1>1. ASSUME IInv, Next PROVE IInv'
  <2>1. CDPTypeOK' /\ SendInv'
    BY <1>1, Callers, SendSteps DEF IInv, TypeOK
  <2> QED
    BY <1>1, <2>1, JobTypes, PollTypes, RotationSteps, PointerSteps, AskSteps, ChangeSteps, ServiceSteps
       DEF IInv, TypeOK
<1>2. ASSUME IInv, UNCHANGED vars PROVE IInv'
  <2>1. TypeOK' /\ SendInv'
    BY <1>2
       DEF IInv, TypeOK, CDPTypeOK, PollTypeOK, JobTypeOK, SendInv, vars, cdpVars, sendVars,
           socketVars, pageVars, pollVars, jobVars, Replies, Page!Asks
  <2>2. RotationInv' /\ PointerInv'
    BY <1>2
       DEF IInv, RotationInv, Rotating, PointerInv, Pointing, CursorOnScreen, vars, pollVars,
           jobVars
  <2>3. AskInv' /\ ChangeInv' /\ ServiceInv'
    BY <1>2
       DEF IInv, AskInv, ChangeInv, ChangeWillBeSeen, PollIsComing, ServiceInv,
           OnlyNotifyPanics, vars, cdpVars, sendVars, socketVars, pageVars, pollVars, jobVars
  <2> QED
    BY <2>1, <2>2, <2>3 DEF IInv
<1> QED
  BY <1>1, <1>2

\* It holds in every state of every behaviour.
LEMMA IInvHolds == Spec => []IInv
  BY Initially, StepKeepsIInv, PTL DEF Spec

\* Every variable keeps its type, whatever the handlers, poller, client and
\* page do.
THEOREM TypesAreKept == Spec => []TypeOK
<1>1. IInv => TypeOK
  BY DEF IInv
<1> QED
  BY <1>1, IInvHolds, PTL

\* wlr-randr and the orientation file stay in sync (command.go:276): after a
\* rotation that ran alone and wrote its file, the screen is what the file says.
THEOREM ScreenStaysSaved == Spec => []ScreenIsSaved
<1>1. IInv => ScreenIsSaved
  BY DEF IInv, RotationInv, Rotating, ScreenIsSaved
<1> QED
  BY <1>1, IInvHolds, PTL

\* Once a move or a measure ran alone, the cursor is on the screen
\* (command.go:456), however its size changed before.
THEOREM CursorStaysOnScreen == Spec => []CursorOnScreen
<1>1. IInv => CursorOnScreen
  BY DEF IInv, PointerInv
<1> QED
  BY <1>1, IInvHolds, PTL

\* Once the poller is set and until the cancellation, the one nil pointer that
\* is dereferenced is the relayer's connection, by a notification of the poller
\* that the end of the connection overtook (relayer.go:497, 522); neither the
\* CDP client's nor the poller's own is (cdp.go:204, command.go:297).
THEOREM OnlyNotificationsPanic == Spec => []OnlyNotifyPanics
<1>1. IInv => OnlyNotifyPanics
  BY DEF IInv, ServiceInv
<1> QED
  BY <1>1, IInvHolds, PTL

\* A change that was asked for is never left to the ticker
\* (mediator.go:253-258, command.go:294-297, status.go:125-146).
THEOREM ChangesAreSeen == Spec => []ChangeWillBeSeen
<1>1. IInv => ChangeWillBeSeen
  BY DEF IInv, ChangeInv
<1> QED
  BY <1>1, IInvHolds, PTL

\* Send implements the atomic call of PageCalls (cdp.go:203-215): every caller
\* gets the answer to its own request, taken while it waited, or an error.
THEOREM SendIsAtomic == Spec => AtomicCalls
<1>1. Init => Page!Init
  BY DEF Init, CDPInit, Page!Init, AbstractCalls, Page!Idle, Page!Layouts
<1>2. IInv /\ IInv' /\ [Next]_vars => [Page!Next]_Page!pageVars
  <2>1. ASSUME IInv, IInv', Next PROVE [Page!Next]_Page!pageVars
    BY <2>1, Callers, PageSteps DEF IInv, TypeOK
  <2>2. ASSUME UNCHANGED vars PROVE UNCHANGED Page!pageVars
    BY <2>2 DEF vars, cdpVars, sendVars, socketVars, pageVars, Page!pageVars, AbstractCalls
  <2> QED
    BY <2>1, <2>2
<1> QED
  BY <1>1, <1>2, IInvHolds, PTL DEF Spec, AtomicCalls, Page!Spec
=============================================================================
