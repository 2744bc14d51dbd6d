--------------------------- MODULE MCAsyncLogging ---------------------------
(* AsyncLogging with buffers of one or two lines.                          *)
EXTENDS AsyncLogging
=============================================================================
