---------------------------- MODULE MCPollCache ----------------------------
(* Two interchangeable replicas and a poll that is created and changed.   *)
EXTENDS PollCache, TLC

Symmetric == Permutations(Replicas)
=============================================================================
