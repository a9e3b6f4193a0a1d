---------------------------- MODULE MCPriceCache ----------------------------
(* A small instance of PriceCache: two goroutines, two networks, one feed  *)
(* of each source on each of them, two timestamps.                         *)
EXTENDS PriceCache

MCInfoBytes == [s \in Sources |-> IF s = "chainlink" THEN 2 ELSE 3]
=============================================================================
