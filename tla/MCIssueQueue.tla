---------------------------- MODULE MCIssueQueue ----------------------------
(* TLC instances of IssueQueue: one sentinel with the lock, one without, so *)
(* that every step of the claim and every way to race it occurs; and both  *)
(* with the lock, for the claim that it excludes the other.                *)
EXTENDS IssueQueue, TLC

CONSTANTS s1, s2, b1, b2

\* Only s1 has its bot login set.
OneLocks == (s1 :> b1) @@ (s2 :> NoLogin)

\* Each has a login of its own.
BothLock == (s1 :> b1) @@ (s2 :> b2)
=============================================================================
