---------------------------- MODULE MCConnector ----------------------------
(* Connector with retry delays that reach their limit in two steps.        *)
EXTENDS Connector
=============================================================================
