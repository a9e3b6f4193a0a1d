------------------------- MODULE MCPythSubscription -------------------------
(* A small instance of PythSubscription.                                   *)
EXTENDS PythSubscription
=============================================================================
