---------------------------- MODULE MCTcpServer -----------------------------
(* TcpServer with a pool of up to two threads and four clients.            *)
EXTENDS TcpServer
=============================================================================
