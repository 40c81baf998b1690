----------------------------- MODULE MCSyncCycle -----------------------------
(***************************************************************************)
(* Two polls for SyncCycle, one with two options, whose rows two upserts   *)
(* can lock in different orders; only it gets ballots, for both at once.   *)
(***************************************************************************)
EXTENDS SyncCycle

CONSTANTS p1, p2, yes, no, only

MCPolls == {p1, p2}
MCOptions == {yes, no, only}
MCPollOf == [o \in MCOptions |-> IF o = only THEN p2 ELSE p1]
MCBallots == {{yes, no}}
=============================================================================
