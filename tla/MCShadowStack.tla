--------------------------- MODULE MCShadowStack ---------------------------
(***************************************************************************)
(* Instances of ShadowStack for TLC.  Slots are interchangeable.           *)
(***************************************************************************)
EXTENDS ShadowStack, TLC

Symmetry == Permutations(Slot)
=============================================================================
