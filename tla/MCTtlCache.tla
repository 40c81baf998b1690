----------------------------- MODULE MCTtlCache -----------------------------
(* Two shards, one of which has more keys than it holds.                   *)
EXTENDS TtlCache

CONSTANTS k1, k2, k3, k4, k5, s1, s2

MCKeys == {k1, k2, k3, k4, k5}
MCShards == {s1, s2}
MCShardOf == [k \in MCKeys |-> IF k \in {k4, k5} THEN s2 ELSE s1]

(* The keys of a shard and the values are interchangeable. *)
Symmetric == Permutations({k1, k2, k3}) \cup Permutations({k4, k5}) \cup Permutations(Values)
=============================================================================
