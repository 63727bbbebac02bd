------------------------- MODULE MCChromiumMonitor -------------------------
(***************************************************************************)
(* The instance of ChromiumMonitor for TLC.  A tick stands for half a      *)
(* check interval, 2.5 s; the hang threshold is its 20 s scaled to 4       *)
(* ticks, the window its 5 min scaled to what three restarts can just fit. *)
(***************************************************************************)
EXTENDS ChromiumMonitor
=============================================================================
