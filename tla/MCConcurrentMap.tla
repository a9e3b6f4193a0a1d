-------------------------- MODULE MCConcurrentMap --------------------------
(* A small instance of ConcurrentMap: three keys in two shards.            *)
EXTENDS ConcurrentMap

MCShardOf == [n \in Names |-> IF n = "c" THEN 2 ELSE 1]
=============================================================================
