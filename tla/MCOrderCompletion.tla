------------------------- MODULE MCOrderCompletion -------------------------
(* Instances of OrderCompletion for TLC.                                   *)
EXTENDS OrderCompletion, TLC

(* Packages of half a piece and of a piece, and a correction.              *)
Corrected == {1, 2, -1}

CompletionSymmetry == Permutations(PackTask) \cup Permutations(Request) \cup Permutations(Step)
=============================================================================
