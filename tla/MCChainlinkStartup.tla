------------------------- MODULE MCChainlinkStartup -------------------------
(* A small instance of ChainlinkStartup: two networks with an endpoint     *)
(* each, of which one has feeds and a fetcher for them, the other has none.*)
EXTENDS ChainlinkStartup

MCEndpointsOf == [n \in Networks |-> IF n = FeedNetwork THEN {"e1"} ELSE {"e2"}]
MCNetOf == [f \in Fetchers |-> FeedNetwork]
=============================================================================
