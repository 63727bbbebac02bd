------------------------------ MODULE Session ------------------------------
(***************************************************************************)
(* What connectd is promised by its relayer: one session with the relay    *)
(* server at a time, attended from some moment on by a reader of its own,  *)
(* and given up only by that reader or by shutting the relayer, whatever   *)
(* the threads that ask for a connection do.  After the relayer is shut a  *)
(* late dial may still open a session; nothing is promised of it.          *)
(***************************************************************************)
CONSTANTS Conns, Nil

VARIABLES
  session,   \* the session of the moment, or Nil
  attended,  \* its reader is there
  shut       \* the relayer has been closed

sessionVars == <<session, attended, shut>>

Init == session = Nil /\ ~attended /\ ~shut

Open(c) ==
  /\ session = Nil /\ session' = c
  /\ ~attended'
  /\ UNCHANGED shut

Attend ==
  /\ session # Nil /\ ~attended /\ attended'
  /\ UNCHANGED <<session, shut>>

\* The session has failed, and its reader gives it up.
Drop ==
  /\ attended \/ shut
  /\ session' = Nil /\ ~attended'
  /\ UNCHANGED shut

\* A reader finds the relayer shut.
Leave ==
  /\ shut /\ ~attended'
  /\ UNCHANGED <<session, shut>>

Shut ==
  /\ shut' /\ session' = Nil /\ ~attended'

Next == (\E c \in Conns : Open(c)) \/ Attend \/ Drop \/ Leave \/ Shut

Spec == Init /\ [][Next]_sessionVars
=============================================================================
