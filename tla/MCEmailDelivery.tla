-------------------------- MODULE MCEmailDelivery --------------------------
(* Instance of EmailDelivery for TLC: every property is an invariant, so    *)
(* the interchangeable messages and pods form a symmetry set.               *)
EXTENDS EmailDelivery, TLC

Symmetry == Permutations(Messages) \cup Permutations(Pods)
=============================================================================
