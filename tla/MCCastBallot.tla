---------------------------- MODULE MCCastBallot ----------------------------
(***************************************************************************)
(* A small poll for CastBallot: one voter with two ballots.  Two voters    *)
(* meet only in a shard's hash, which module VoteTally is about.           *)
(***************************************************************************)
EXTENDS CastBallot

CONSTANTS b1, b2, v1, yes, no, s1

MCBallots == {b1, b2}
MCVoters == {v1}
MCOptions == {yes, no}
MCShards == {s1}
MCVoterOf == [b \in MCBallots |-> v1]
MCChoiceOf == [b \in MCBallots |-> IF b = b1 THEN {yes} ELSE {no}]
MCShardOf == [v \in MCVoters |-> s1]
=============================================================================
