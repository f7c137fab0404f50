---------------------------- MODULE MCQatEngine ----------------------------
(* QatEngine for TLC. *)
EXTENDS QatEngine, TLC

CONSTANTS b1, b2

BufSymmetry == Permutations({b1, b2})
=============================================================================
