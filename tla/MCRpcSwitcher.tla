---------------------------- MODULE MCRpcSwitcher ----------------------------
(* A small instance of RpcSwitcher: one network with two endpoints, and    *)
(* two fetchers that contend for it.                                       *)
EXTENDS RpcSwitcher

MCEndpointsOf == [n \in Networks |-> Endpoints]
MCNetOf == [f \in Fetchers |-> "n1"]
=============================================================================
