-------------------------- MODULE MCMetricsMonitor --------------------------
(***************************************************************************)
(* Instances of MetricsMonitor for TLC.  One tick stands for 5 s: every    *)
(* threshold has the value the code gives it, except the reboot window,    *)
(* which is 9 ticks and not 12, still longer than a cooldown, a monitoring *)
(* period and the longest run of commands between them.                    *)
(***************************************************************************)
EXTENDS MetricsMonitor
=============================================================================
