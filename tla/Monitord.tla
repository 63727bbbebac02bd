------------------------------ MODULE Monitord ------------------------------
(***************************************************************************)
(* What the watchers of feral-sys-monitord share with its main.go: the     *)
(* context that SIGTERM cancels, and the mediator, which registers its     *)
(* handlers when the watchers already run and removes them in the end.     *)
(***************************************************************************)
VARIABLES
  ctxDone,     \* the context of the process is cancelled
  registered   \* the mediator's handlers are registered

processVars == <<ctxDone, registered>>

ProcessTypeOK == ctxDone \in BOOLEAN /\ registered \in BOOLEAN

ProcessInit == ctxDone = FALSE /\ registered = FALSE

\* Mediator.Start, the last step of the start-up.
MediatorStarts ==
  /\ ~registered /\ ~ctxDone
  /\ registered' = TRUE
  /\ UNCHANGED ctxDone

Sigterm ==
  /\ ~ctxDone
  /\ ctxDone' = TRUE
  /\ UNCHANGED registered

\* The deferred Mediator.Stop.
MediatorStops ==
  /\ ctxDone /\ registered
  /\ registered' = FALSE
  /\ UNCHANGED ctxDone

ProcessNext == MediatorStarts \/ Sigterm \/ MediatorStops
=============================================================================
