---------------------------- MODULE MCNaxsiJson -----------------------------
(***************************************************************************)
(* Instances of NaxsiJson: two texts, and at most two containers in one    *)
(* another instead of ten.                                                 *)
(***************************************************************************)
EXTENDS NaxsiJson

CONSTANTS a, b
=============================================================================
