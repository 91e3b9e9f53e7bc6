----------------------------- MODULE MCJobQueue -----------------------------
(* Small instances of JobQueue.  Workers are interchangeable, and so are    *)
(* jobs and cancels before they act: the safety runs take one              *)
(* representative of each permutation.                                      *)
EXTENDS JobQueue, TLC

Symmetry == Permutations(Jobs) \cup Permutations(Workers) \cup Permutations(Cancels)
=============================================================================
