----------------------------- MODULE MCSeatFocus -----------------------------
(***************************************************************************)
(* Instances of SeatFocus for TLC.                                         *)
(***************************************************************************)
EXTENDS SeatFocus, TLC

Symmetry ==
    Permutations(Views) \cup Permutations(LayerSurfaces) \cup Permutations(Keyboards)
=============================================================================
