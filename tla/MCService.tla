----------------------------- MODULE MCService -----------------------------
(* TLC instance of Service: two issues of different repositories, so that  *)
(* requests meet in the same worktree or not.                              *)
EXTENDS Service

CONSTANTS i1, i2, w1, w2

MCWorktreeOf == [i \in {i1, i2} |-> IF i = i1 THEN w1 ELSE w2]
=============================================================================
