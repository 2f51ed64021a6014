---------------------------- MODULE MCRelayUnit ----------------------------
(* Two runs of one pair, or a run beside two requests of the review inbox. *)
EXTENDS RelayUnit, TLC

Symmetry == Permutations(Runs) \cup Permutations(Reviewers)
=============================================================================
