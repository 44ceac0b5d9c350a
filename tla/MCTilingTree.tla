---------------------------- MODULE MCTilingTree ----------------------------
(***************************************************************************)
(* An instance of TilingTree for TLC.  Whole is a multiple of all the      *)
(* divisors that shares meet with four views, so the parts are exact.      *)
(***************************************************************************)
EXTENDS TilingTree, TLC

MCWhole == 720

\* Three views can each have it, four cannot: as 20 and 21 in the code.
MCMinimum == 192

\* Past both limits, and two between.
MCTargets == {-60, 216, 312, 780}

\* With and without a panel at the top; sizes that shares do not divide evenly.
MCAreas ==
    {[x |-> 0, y |-> 0, width |-> 7, height |-> 5], [x |-> 0, y |-> 1, width |-> 7, height |-> 4]}

\* What the theorems about exact shares assume.
ASSUME ExactParts

Symmetric == Permutations(Views)
=============================================================================
