-------------------------- MODULE MCEventLoopThread -------------------------
(* EventLoopThread with an owner and one more poster.                      *)
EXTENDS EventLoopThread
=============================================================================
