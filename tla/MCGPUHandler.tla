---------------------------- MODULE MCGPUHandler ----------------------------
(***************************************************************************)
(* The instance of GPUHandler for TLC.  A tick stands for half of the      *)
(* reboot delay; a second timer may be armed while the callback of the     *)
(* first one waits for, or runs, its reboot command.                       *)
(***************************************************************************)
EXTENDS GPUHandler
=============================================================================
