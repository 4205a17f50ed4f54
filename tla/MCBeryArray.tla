---------------------------- MODULE MCBeryArray ----------------------------
(***************************************************************************)
(* Instances of BeryArray for TLC.                                         *)
(***************************************************************************)
EXTENDS BeryArray

CONSTANT MaxIndex

MCIndex == -1..MaxIndex
=============================================================================
