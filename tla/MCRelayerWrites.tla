-------------------------- MODULE MCRelayerWrites --------------------------
(***************************************************************************)
(* The instance of Relayer and RelayerWrites that is checked for safety.   *)
(* In each behaviour the threads around main either ask for connections or *)
(* write to them; connections are interchangeable.                         *)
(***************************************************************************)
EXTENDS RelayerWrites, TLC

VARIABLE mix

mcvars == <<allVars, mix>>
Symmetry == Permutations(Conns)

MCInit == WriteInit /\ mix \in {"callers", "writers"}

\* No signal and no call has come.
NobodyAsks == \A t \in Signals \cup Calls : pc'[t] = "idle"

MCNext ==
  /\ UNCHANGED mix
  /\ \/ mix = "callers" /\ RelayerStep
     \/ mix = "writers" /\ WriteNext /\ NobodyAsks

MCSpec == MCInit /\ [][MCNext]_mcvars
=============================================================================
