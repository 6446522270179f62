------------------------- MODULE MCSessionLifecycle -------------------------
(***************************************************************************)
(* SessionLifecycle for TLC: session IDs are interchangeable.              *)
(***************************************************************************)
EXTENDS SessionLifecycle, TLC

Symmetry == Permutations(SIDs)

=============================================================================
