----------------------------- MODULE MCPolling -----------------------------
(* TLC instance of Polling: a repository that only a marker qualifies, one *)
(* from the template and one with a matching name.                         *)
EXTENDS Polling
=============================================================================
