----------------------------- MODULE CDPClient -----------------------------
(***************************************************************************)
(* The CDP client of connectd (cdp.go) and the page it talks to.  Send     *)
(* looks at the connection under the mutex, marshals without it, takes it  *)
(* again to write, and holds it until it has read one reply.  Requests     *)
(* carry an id which is never compared with that of the reply.             *)
(***************************************************************************)
CONSTANTS
  Clients,  \* the goroutines that may send
  Works,    \* what the page may show
  Nil

VARIABLES
  conn,       \* c.conn is not nil
  mu,         \* the goroutine that holds the mutex across write and read
  at,         \* where each goroutine is in Send
  ask,        \* what it asks the page
  asked,      \* requests on their way to the page
  answers,    \* replies on their way back
  reply,      \* what the last Send of each goroutine returned
  alive,      \* Chromium's end of the socket is there
  work,       \* what the page shows
  layout,     \* how it is laid out
  unreported, \* goroutines whose change of work no status was asked for since
  ctxDone,    \* the context of the process is cancelled
  panicked    \* a nil pointer was dereferenced: the process ends

socketVars == <<asked, answers, alive>>
pageVars == <<work, layout, unreported>>
sendVars == <<conn, mu, at, ask, reply>>
cdpVars == <<sendVars, socketVars, pageVars, ctxDone, panicked>>

\* A call as its caller sees it.
AbstractCalls ==
  [c \in Clients |->
     CASE at[c] \in {"idle", "returned"} -> [at |-> "idle"]
       [] \E v \in answers : v[1] = c -> [at |-> "served", value |-> (CHOOSE v \in answers : v[1] = c)[2]]
       [] OTHER -> [at |-> "asked", ask |-> ask[c]]]

\* What Send promises, with a call's effect where the page answers it.
Page == INSTANCE PageCalls WITH calls <- AbstractCalls

ASSUME ClientAssumption ==
  Nil \notin Clients /\ Works \cap (Page!Layouts \cup {"status", "size", "input", "error", "nothing", "none"}) = {}

Replies == Works \cup Page!Layouts \cup {"error", "nothing", "none"}

CDPTypeOK ==
  /\ conn \in BOOLEAN  /\ alive \in BOOLEAN  /\ ctxDone \in BOOLEAN  /\ panicked \in BOOLEAN
  /\ mu \in Clients \cup {Nil}
  /\ at \in [Clients -> {"idle", "call", "ready", "written", "returned"}]
  /\ ask \in [Clients -> Page!Asks]
  /\ asked \subseteq Clients \X Page!Asks
  /\ answers \subseteq Clients \X Replies  /\ reply \in [Clients -> Replies]
  /\ work \in Works  /\ layout \in Page!Layouts
  /\ unreported \subseteq Clients

\* main has run Init, which found the one page and connected to it.
CDPInit ==
  /\ conn = TRUE  /\ mu = Nil  /\ alive = TRUE  /\ ctxDone = FALSE  /\ panicked = FALSE
  /\ at = [c \in Clients |-> "idle"]
  /\ ask = [c \in Clients |-> "status"]
  /\ reply = [c \in Clients |-> "none"]
  /\ asked = {}  /\ answers = {}  /\ unreported = {}
  /\ work \in Works  /\ layout = "wide"

\* A goroutine calls Send with w, and takes what it returned.
SendCalled(c, w) ==
  /\ at[c] = "idle"
  /\ at' = [at EXCEPT ![c] = "call"]
  /\ ask' = [ask EXCEPT ![c] = w]
  /\ UNCHANGED <<conn, mu, reply, socketVars, ctxDone, panicked>>

SendTaken(c) ==
  /\ at[c] = "returned"
  /\ at' = [at EXCEPT ![c] = "idle"]
  /\ ask' = [ask EXCEPT ![c] = "status"]
  /\ reply' = [reply EXCEPT ![c] = "none"]
  /\ UNCHANGED <<conn, mu, socketVars, ctxDone, panicked>>

\* It takes it and calls Send again.
SendAgain(c, w) ==
  /\ at[c] = "returned"
  /\ at' = [at EXCEPT ![c] = "call"]
  /\ ask' = [ask EXCEPT ![c] = w]
  /\ reply' = [reply EXCEPT ![c] = "none"]
  /\ UNCHANGED <<conn, mu, socketVars, ctxDone, panicked>>

Returns(c, v) ==
  /\ at' = [at EXCEPT ![c] = "returned"]
  /\ reply' = [reply EXCEPT ![c] = v]

\* ErrCDPConnectionNotInitialized, or the next id.
SendChecks(c) ==
  /\ at[c] = "call" /\ mu = Nil
  /\ IF conn THEN at' = [at EXCEPT ![c] = "ready"] /\ UNCHANGED reply ELSE Returns(c, "error")
  /\ UNCHANGED <<conn, mu, ask, socketVars, pageVars, ctxDone, panicked>>

\* Mutant: the mutex is not kept for the reply.
SendWritesAlone(c) ==
  /\ at[c] = "ready" /\ mu = Nil /\ conn
  /\ at' = [at EXCEPT ![c] = "written"] /\ asked' = asked \cup {<<c, ask[c]>>}
  /\ UNCHANGED <<conn, mu, ask, reply, answers, alive, pageVars, ctxDone, panicked>>

\* c.conn.WriteMessage: c.conn may be nil by now.
SendWrites(c) ==
  /\ at[c] = "ready" /\ mu = Nil /\ conn
  /\ at' = [at EXCEPT ![c] = "written"] /\ asked' = asked \cup {<<c, ask[c]>>}
  /\ mu' = c
  /\ UNCHANGED <<conn, ask, reply, answers, alive, pageVars, ctxDone, panicked>>

SendCannotWrite(c) ==
  /\ at[c] = "ready" /\ mu = Nil /\ conn /\ ~alive
  /\ Returns(c, "error")
  /\ UNCHANGED <<conn, mu, ask, socketVars, pageVars, ctxDone, panicked>>

SendPanics(c) ==
  /\ at[c] = "ready" /\ mu = Nil /\ ~conn
  /\ panicked' = TRUE
  /\ UNCHANGED <<sendVars, socketVars, pageVars, ctxDone>>

\* ReadMessage: whatever reply comes next, without a deadline.
SendReads(c) ==
  /\ at[c] = "written"
  /\ \E v \in answers : answers' = answers \ {v} /\ Returns(c, v[2])
  /\ mu' = Nil
  /\ UNCHANGED <<conn, ask, asked, alive, pageVars, ctxDone, panicked>>

\* Mutant: an early return that forgets the mutex.
SendCannotReadLocked(c) ==
  /\ at[c] = "written" /\ ~alive
  /\ Returns(c, "error")
  /\ asked' = {} /\ answers' = {}
  /\ UNCHANGED <<conn, mu, ask, alive, pageVars, ctxDone, panicked>>

\* Mutant: a connection that failed is given up on the spot.
SendCannotReadDrops(c) ==
  /\ at[c] = "written" /\ ~alive
  /\ Returns(c, "error")
  /\ mu' = Nil /\ conn' = FALSE /\ asked' = {} /\ answers' = {}
  /\ UNCHANGED <<ask, alive, pageVars, ctxDone, panicked>>

\* What was on its way is lost with the connection.
SendCannotRead(c) ==
  /\ at[c] = "written" /\ ~alive
  /\ Returns(c, "error")
  /\ mu' = Nil /\ asked' = {} /\ answers' = {}
  /\ UNCHANGED <<conn, ask, alive, pageVars, ctxDone, panicked>>

\* Close, called when the context is cancelled and again by main's defer.
CloseRuns ==
  /\ ctxDone /\ conn /\ mu = Nil
  /\ conn' = FALSE
  /\ UNCHANGED <<mu, at, ask, reply, socketVars, pageVars, ctxDone, panicked>>

Cancelled ==
  /\ ~ctxDone /\ ctxDone' = TRUE
  /\ UNCHANGED <<sendVars, socketVars, pageVars, panicked>>

\* The page evaluates a request.  A script that throws, or whose result has no
\* type Send knows, may have had its effect; one that Chromium refuses has none,
\* and its answer no result.
PageAnswers(r) ==
  /\ alive /\ r \in asked
  /\ asked' = asked \ {r}
  /\ \/ /\ answers' = answers \cup {<<r[1], Page!Answer(r[2])>>}
        /\ work' = Page!Shown(r[2])
        /\ unreported' = IF r[2] = "status" THEN {}
                         ELSE IF r[2] \in Works THEN unreported \cup {r[1]} ELSE unreported
     \/ /\ answers' = answers \cup {<<r[1], "error">>}
        /\ work' \in {work, Page!Shown(r[2])}
        /\ unreported' = IF r[2] = "status" THEN {} ELSE unreported
     \/ /\ answers' = answers \cup {<<r[1], "nothing">>}
        /\ unreported' = IF r[2] = "status" THEN {} ELSE unreported
        /\ UNCHANGED work
  /\ UNCHANGED <<sendVars, alive, layout, ctxDone, panicked>>

\* The page goes on to another work by itself; Chromium ends.
WorkChanges ==
  /\ work' \in Works \ {work}
  /\ UNCHANGED <<sendVars, socketVars, layout, unreported, ctxDone, panicked>>

ChromiumEnds ==
  /\ alive /\ alive' = FALSE
  /\ UNCHANGED <<sendVars, asked, answers, pageVars, ctxDone, panicked>>

SendGoesOn(c) == SendReads(c) \/ SendCannotRead(c) \/ SendCannotWrite(c) \/ SendPanics(c)
SendLocks(c) == SendChecks(c) \/ SendWrites(c)

CDPNext ==
  \/ \E c \in Clients : SendGoesOn(c) \/ SendLocks(c)
  \/ \E r \in asked : PageAnswers(r)
  \/ CloseRuns \/ Cancelled \/ WorkChanges \/ ChromiumEnds

-----------------------------------------------------------------------------
\* Send implements the abstract call: whatever the interleaving of goroutines,
\* cancellations and a dying browser, what it returns is the page's answer to
\* its own request, taken between its start and its return (cdp.go:203-215).
AtomicCalls == Page!Spec
=============================================================================
