--------------------------- MODULE MCPythMonitor ---------------------------
(* A small instance of PythMonitor.                                        *)
EXTENDS PythMonitor

SleepsOfInstance == [n \in 0 .. HttpRetries |-> (2 ^ n - 1) * MaxBackoff]
=============================================================================
