--------------------------- MODULE MCEligibility ---------------------------
(* TLC instance of Eligibility: a repository that only a marker qualifies, *)
(* one from the template and one with a matching name.                     *)
EXTENDS Eligibility
=============================================================================
