---------------------------- MODULE MCRadioInit ----------------------------
(* The instance of RadioInit alone for TLC. *)
EXTENDS RadioInit

ThreeRadios == <<3>>
=============================================================================
