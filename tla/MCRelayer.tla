----------------------------- MODULE MCRelayer -----------------------------
(***************************************************************************)
(* Instances of Relayer for TLC: connections and threads are model values, *)
(* interchangeable within their set where only safety is checked.          *)
(***************************************************************************)
EXTENDS Relayer, TLC

Symmetry == Permutations(Conns)
=============================================================================
