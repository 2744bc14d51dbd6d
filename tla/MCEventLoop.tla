---------------------------- MODULE MCEventLoop -----------------------------
(* EventLoop with two posters; the bounds are in the cfg file.             *)
EXTENDS EventLoop
=============================================================================
