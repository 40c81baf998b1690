-------------------------- MODULE MCVoteTallyMasked --------------------------
(***************************************************************************)
(* VoteTally with the history of what its cycles have saved.               *)
(***************************************************************************)
EXTENDS MCVoteTally

VARIABLE saved  \* the ballots in the counters of the cycles that saved

MaskedInit == Init /\ saved = {}

MaskedNext ==
    /\ Next
    /\ saved' = saved \cup UNION {call[p].got : p \in {q \in Syncers : SyncSave(q)}}

MaskedSpec == MaskedInit /\ [][MaskedNext]_<<vars, saved>>

(* README.md:87 says "Postgres may lag by the sync interval": what a cycle *)
(* has read and saved is in the durable totals.  It does not hold of       *)
(* ballots counted after a shard's hash expired: see the run that refutes  *)
(* it.                                                                     *)
SavedBallotsAreDurable == \A o \in Options : Votes(saved, o) <= durable[o]
=============================================================================
