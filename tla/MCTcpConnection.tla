--------------------------- MODULE MCTcpConnection --------------------------
(* TcpConnection; who calls what is chosen by the cfg files.               *)
EXTENDS TcpConnection
=============================================================================
