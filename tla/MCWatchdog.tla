----------------------------- MODULE MCWatchdog -----------------------------
(* TLC instance of Watchdog: limits of a few samples in the same order as  *)
(* 900 s < 1200 s < 5400 s, so that each limit can be the one that decides.*)
EXTENDS Watchdog
=============================================================================
