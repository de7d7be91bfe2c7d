------------------------- MODULE MCRequestLifecycle -------------------------
(* Symmetry for the model-checking runs of RequestLifecycle. *)
EXTENDS RequestLifecycle, TLC

ThreadSymmetry == Permutations(Handlers) \union Permutations(Workers)
=============================================================================
