--------------------------- MODULE MCGiftIntake ---------------------------
(***************************************************************************)
(* The instance of GiftIntake for TLC.                                     *)
(***************************************************************************)
EXTENDS GiftIntake, TLC

Persons == Permutations(People)
=============================================================================
