------------------------- MODULE MCChainlinkMonitor -------------------------
(* A small instance of ChainlinkMonitor: two feeds of one network and one  *)
(* of another, one token fewer than feeds.                                 *)
EXTENDS ChainlinkMonitor

MCNetworks == {"n1", "n2"}
MCFeeds == {"f1", "f2", "g"}
MCNetOf == [f \in MCFeeds |-> IF f = "g" THEN "n2" ELSE "n1"]
MCTwoFeeds == {"f1", "g"}
MCTwoNetOf == [f \in MCTwoFeeds |-> IF f = "g" THEN "n2" ELSE "n1"]
=============================================================================
