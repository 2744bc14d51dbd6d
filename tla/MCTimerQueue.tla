---------------------------- MODULE MCTimerQueue ----------------------------
(* TimerQueue with two addresses, so that addresses are reused.            *)
EXTENDS TimerQueue
=============================================================================
