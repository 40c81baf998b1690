---------------------------- MODULE MCVoteTally ----------------------------
(***************************************************************************)
(* A small poll for VoteTally: two shards; on the first a voter who votes  *)
(* again when the dedup window has passed, on the second another voter who *)
(* picks both options.                                                     *)
(***************************************************************************)
EXTENDS VoteTally

CONSTANTS b1, b2, b3, v1, v2, yes, no, s1, s2

MCBallots == {b1, b2, b3}
MCVoters == {v1, v2}
MCOptions == {yes, no}
MCShards == {s1, s2}
MCVoterOf == [b \in MCBallots |-> IF b = b3 THEN v2 ELSE v1]
MCChoiceOf == [b \in MCBallots |-> IF b = b3 THEN {yes, no} ELSE {yes}]
MCShardOf == [v \in MCVoters |-> IF v = v1 THEN s1 ELSE s2]
=============================================================================
