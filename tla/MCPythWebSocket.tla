-------------------------- MODULE MCPythWebSocket --------------------------
(* A small instance of PythWebSocket.                                      *)
EXTENDS PythWebSocket
=============================================================================
