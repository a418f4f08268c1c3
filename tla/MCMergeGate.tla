---------------------------- MODULE MCMergeGate ----------------------------
(* Two pull requests, one to be merged with a merge commit and the other    *)
(* fast-forwarded, one reviewer who is not the author.                      *)
EXTENDS MergeGate, TLC

CONSTANTS t1, t2

Methods == [p \in Pulls |-> IF p = 1 THEN "merge" ELSE "fast-forward"]

ThreadSymmetry == Permutations(Threads)
=============================================================================
