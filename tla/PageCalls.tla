----------------------------- MODULE PageCalls -----------------------------
(***************************************************************************)
(* What the callers of connectd's CDP client are promised: a call takes    *)
(* effect on the page at most once, at one moment between its start and    *)
(* its return, and returns the page's answer to this very call, or an      *)
(* error.  Nothing is said of messages, locks or connections.              *)
(***************************************************************************)
CONSTANTS
  Clients,  \* the goroutines that call
  Works     \* what the page may show; calling with a work asks to show it

VARIABLES work, layout, calls, reply

pageVars == <<work, layout, calls, reply>>

Layouts == {"wide", "tall"}
Asks == Works \cup {"status", "size", "input"}

\* What the page shows after it was asked for w, and what it answers: nothing
\* that is told apart, except where the answer is what the call is for.
Shown(w) == IF w \in Works THEN w ELSE work
Answer(w) == IF w = "status" THEN work ELSE IF w = "size" THEN layout ELSE "nothing"

Idle == [at |-> "idle"]
Asked(w) == [at |-> "asked", ask |-> w]
Served(v) == [at |-> "served", value |-> v]

Init ==
  /\ work \in Works /\ layout \in Layouts
  /\ calls = [c \in Clients |-> Idle]
  /\ reply = [c \in Clients |-> "none"]

Call(c, w) ==
  /\ calls[c] = Idle
  /\ calls' = [calls EXCEPT ![c] = Asked(w)]
  /\ UNCHANGED <<work, layout, reply>>

\* The page serves a call; the script may also throw, at any point, and
\* Chromium may refuse to evaluate it, which answers nothing.
Serve(c, w) ==
  /\ calls[c] = Asked(w)
  /\ \/ work' = Shown(w) /\ calls' = [calls EXCEPT ![c] = Served(Answer(w))]
     \/ work' \in {work, Shown(w)} /\ calls' = [calls EXCEPT ![c] = Served("error")]
     \/ work' = work /\ calls' = [calls EXCEPT ![c] = Served("nothing")]
  /\ UNCHANGED <<layout, reply>>

Return(c, v) ==
  /\ calls[c] = Served(v)
  /\ calls' = [calls EXCEPT ![c] = Idle]
  /\ reply' = [reply EXCEPT ![c] = v]
  /\ UNCHANGED <<work, layout>>

Fail(c) ==
  /\ calls' = [calls EXCEPT ![c] = Idle]
  /\ reply' = [reply EXCEPT ![c] = "error"]
  /\ UNCHANGED <<work, layout>>

\* The caller takes what the call returned, and may call again at once.
Take(c) ==
  /\ reply' = [reply EXCEPT ![c] = "none"]
  /\ \/ UNCHANGED calls
     \/ \E w \in Asks : calls[c] = Idle /\ calls' = [calls EXCEPT ![c] = Asked(w)]
  /\ UNCHANGED <<work, layout>>

\* The page moves on by itself, and follows the screen.
PageChanges ==
  /\ work' \in Works /\ layout' \in Layouts
  /\ UNCHANGED <<calls, reply>>

Next ==
  \/ \E c \in Clients, w \in Asks : Call(c, w) \/ Serve(c, w)
  \/ \E c \in Clients, v \in Works \cup Layouts \cup {"error", "nothing"} : Return(c, v)
  \/ \E c \in Clients : Fail(c) \/ Take(c)
  \/ PageChanges

Spec == Init /\ [][Next]_pageVars
=============================================================================
