---------------------------- MODULE MCTopicCall ----------------------------
(***************************************************************************)
(* Instances of TopicCall for TLC: calls and goroutines are model values,   *)
(* interchangeable within their set.                                       *)
(***************************************************************************)
EXTENDS TopicCall

Symmetry == Permutations(Calls) \cup Permutations(Handling)
=============================================================================
