---------------------------- MODULE MCServerBoot ----------------------------
(* TLC instance of ServerBoot.                                             *)
EXTENDS ServerBoot
=============================================================================
