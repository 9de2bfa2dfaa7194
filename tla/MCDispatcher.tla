---------------------------- MODULE MCDispatcher ----------------------------
(* TLC instance of Dispatcher: small sets of calls and group members.      *)
EXTENDS Dispatcher
=============================================================================
