------------------------------ MODULE VoteTally ------------------------------
(***************************************************************************)
(* From counted ballots to results: the synchroniser copies the counters   *)
(* of a poll into PostgreSQL (service/sync.go), the admin's results merge  *)
(* both stores (service/poll.go).  Both collect the counters with          *)
(* Store.Counters, a pipeline of one HGETALL per shard that is not a       *)
(* transaction: ballots are counted, hashes expire and other cycles save   *)
(* between two of its reads.                                               *)
(***************************************************************************)
EXTENDS VoteStore

CONSTANTS
    Syncers,    \* voting-sync processes; two when a cycle overlaps a manual one
    Readers,    \* results requests
    Fragile,    \* bound: the shards that may lose their data
    MaxCalls    \* bound: how many cycles and requests are under way at a time

Callers == Syncers \cup Readers

ASSUME CallersAssumption == Syncers \cap Readers = {} /\ Fragile \subseteq Shards

VARIABLES
    durable,    \* durable[o]: poll_results.votes of option o
    call,       \* call[p]: how far p has come with the counters
    result      \* result[r]: what the results request r has read and answered

vars == <<now, voted, counts, expiry, countedAt, losses, durable, call, result>>

Totals == [Options -> Nat]
Zero == [o \in Options |-> 0]
LargerOf(m, n) == IF m < n THEN n ELSE m

(* unread: shards whose reply has not been read yet; got: the ballots in   *)
(* the replies so far; base: history, the ballots counted when it began.   *)
Call == [pc     : {"idle", "reading", "answered"},
         unread : SUBSET Shards,
         got    : SUBSET Ballots,
         base   : SUBSET Ballots]

(* snapshot: what was read from PostgreSQL, zero when that failed. *)
Result == [snapshot : Totals, durableOk : BOOLEAN, liveOk : BOOLEAN, total : Totals]

TypeOK ==
    /\ StoreTypeOK
    /\ durable \in Totals
    /\ call \in [Callers -> Call]
    /\ result \in [Readers -> Result]

Unanswered == [snapshot |-> Zero, durableOk |-> FALSE, liveOk |-> FALSE, total |-> Zero]

Idle == [pc |-> "idle", unread |-> {}, got |-> {}, base |-> {}]
Ended(pc) == [Idle EXCEPT !.pc = pc]
Begun == [pc |-> "reading", unread |-> Shards, got |-> {}, base |-> Counted]

Init ==
    /\ StoreInit
    /\ durable = Zero
    /\ call = [p \in Callers |-> Idle]
    /\ result = [r \in Readers |-> Unanswered]

UnderWay == {p \in Callers : call[p].pc \in {"reading", "answered"}}

-----------------------------------------------------------------------------
(* Mutated forms of the definitions below, used by the mutant runs only. *)

ReadOnlyFirstShard(p, s) ==
    /\ call[p].pc = "reading"
    /\ s \in call[p].unread
    /\ call' = [call EXCEPT ![p].unread = {}, ![p].got = @ \cup Live(s)]
    /\ UNCHANGED <<storeVars, durable, result>>

SaveOverwriting(p) ==
    /\ call[p].pc = "reading" /\ call[p].unread = {}
    /\ durable' = [o \in Options |-> Votes(call[p].got, o)]
    /\ call' = [call EXCEPT ![p] = Idle]
    /\ UNCHANGED <<storeVars, result>>

SaveAdding(p) ==
    /\ call[p].pc = "reading" /\ call[p].unread = {}
    /\ \E o \in Options : durable[o] < 4  \* keeps the mutant finite
    /\ durable' = [o \in Options |-> durable[o] + Votes(call[p].got, o)]
    /\ call' = [call EXCEPT ![p] = Idle]
    /\ UNCHANGED <<storeVars, result>>

SaveReplacingRows(p) ==
    LET got == call[p].got IN
    /\ call[p].pc = "reading" /\ call[p].unread = {}
    /\ durable' = [o \in {x \in Options : Votes(got, x) > 0} |-> Votes(got, o)]
    /\ call' = [call EXCEPT ![p] = Idle]
    /\ UNCHANGED <<storeVars, result>>

SaveDoingNothing(p) ==
    /\ call[p].pc = "reading" /\ call[p].unread = {}
    /\ call' = [call EXCEPT ![p] = Idle]
    /\ UNCHANGED <<storeVars, durable, result>>

AnswerAdding(r) ==
    /\ call[r].pc = "reading" /\ call[r].unread = {}
    /\ result' = [result EXCEPT ![r].liveOk = TRUE,
                     ![r].total = [o \in Options |->
                         result[r].snapshot[o] + Votes(call[r].got, o)]]
    /\ call' = [call EXCEPT ![r] = Ended("answered")]
    /\ UNCHANGED <<storeVars, durable>>

AnswerPreferringDurable(r) ==
    /\ call[r].pc = "reading" /\ call[r].unread = {}
    /\ result' = [result EXCEPT ![r].liveOk = TRUE,
                     ![r].total = [o \in Options |->
                         IF result[r].durableOk THEN result[r].snapshot[o]
                                                ELSE Votes(call[r].got, o)]]
    /\ call' = [call EXCEPT ![r] = Ended("answered")]
    /\ UNCHANGED <<storeVars, durable>>

-----------------------------------------------------------------------------
(* A ballot passes; CastBallot models how often it is tried. *)
Cast(b) ==
    /\ b \notin Counted
    /\ Count(b)
    /\ UNCHANGED <<durable, call, result>>

(* Store.Counters reads one more shard. *)
ReadShard(p, s) ==
    /\ call[p].pc = "reading"
    /\ s \in call[p].unread
    /\ call' = [call EXCEPT ![p].unread = @ \ {s}, ![p].got = @ \cup Live(s)]
    /\ UNCHANGED <<storeVars, durable, result>>

-----------------------------------------------------------------------------
(* syncPoll has loaded the poll and asks for its counters. *)
SyncBegin(p) ==
    /\ call[p].pc = "idle" /\ Cardinality(UnderWay) < MaxCalls
    /\ call' = [call EXCEPT ![p] = Begun]
    /\ UNCHANGED <<storeVars, durable, result>>

(* SaveResults: one upsert that raises each total to the sum read for it,  *)
(* and never lowers one (GREATEST), whether or not its answer arrives.     *)
SyncSave(p) ==
    /\ call[p].pc = "reading" /\ call[p].unread = {}
    /\ durable' = [o \in Options |-> LargerOf(durable[o], Votes(call[p].got, o))]
    /\ call' = [call EXCEPT ![p] = Idle]
    /\ UNCHANGED <<storeVars, result>>

(* Redis or PostgreSQL fails, SYNC_TIMEOUT passes or the process dies:     *)
(* nothing is saved, and voting-sync starts over.                          *)
SyncFail(p) ==
    /\ call[p].pc = "reading"
    /\ call' = [call EXCEPT ![p] = Idle]
    /\ UNCHANGED <<storeVars, durable, result>>

-----------------------------------------------------------------------------
(* Results reads PostgreSQL first, tolerating a failure, then the counters. *)
ResultsBegin(r, ok) ==
    /\ call[r].pc = "idle" /\ Cardinality(UnderWay) < MaxCalls
    /\ call' = [call EXCEPT ![r] = Begun]
    /\ result' = [result EXCEPT ![r].snapshot = IF ok THEN durable ELSE Zero,
                                ![r].durableOk = ok]
    /\ UNCHANGED <<storeVars, durable>>

(* The larger of the two stores, option by option. *)
ResultsAnswer(r) ==
    /\ call[r].pc = "reading" /\ call[r].unread = {}
    /\ result' = [result EXCEPT ![r].liveOk = TRUE,
                     ![r].total = [o \in Options |->
                         LargerOf(result[r].snapshot[o], Votes(call[r].got, o))]]
    /\ call' = [call EXCEPT ![r] = Ended("answered")]
    /\ UNCHANGED <<storeVars, durable>>

(* One failed read fails all the counters: the durable totals are answered *)
(* alone, or nothing is when they could not be read either.                *)
ResultsLiveFails(r) ==
    /\ call[r].pc = "reading"
    /\ result' = [result EXCEPT ![r].total = result[r].snapshot]
    /\ call' = [call EXCEPT ![r] = Ended(IF result[r].durableOk THEN "answered" ELSE "idle")]
    /\ UNCHANGED <<storeVars, durable>>

(* The answer has been sent; the admin may ask again. *)
ResultsOver(r) ==
    /\ call[r].pc = "answered"
    /\ call' = [call EXCEPT ![r] = Idle]
    /\ result' = [result EXCEPT ![r] = Unanswered]
    /\ UNCHANGED <<storeVars, durable>>

-----------------------------------------------------------------------------
Environment ==
    /\ Tick \/ \E s \in Fragile : LoseShard(s)
    /\ UNCHANGED <<durable, call, result>>

Next ==
    \/ \E b \in Ballots : Cast(b)
    \/ \E p \in Callers, s \in Shards : ReadShard(p, s)
    \/ \E p \in Syncers : SyncBegin(p) \/ SyncSave(p) \/ SyncFail(p)
    \/ \E r \in Readers :
          \/ \E ok \in BOOLEAN : ResultsBegin(r, ok)
          \/ ResultsAnswer(r)
          \/ ResultsLiveFails(r) \/ ResultsOver(r)
    \/ Environment

Spec == Init /\ [][Next]_vars

(* docker-compose.yml starts voting-sync again and again, and each run     *)
(* goes on as long as Redis and PostgreSQL answer.  Outages end: from some *)
(* time on no cycle fails, unless it fails when there is nothing to save.  *)
SyncFairness(p) ==
    WF_vars(SyncBegin(p) \/ SyncSave(p) \/ \E s \in Shards : ReadShard(p, s))

OutagesEnd == <>[][\A p \in Syncers : SyncFail(p) => SyncSave(p)]_vars

FairSpec == Spec /\ OutagesEnd /\ \A p \in Syncers : SyncFairness(p)

-----------------------------------------------------------------------------
(* A durable total never exceeds the ballots counted for its option, with  *)
(* any number of overlapping, failing and repeated cycles                  *)
(* (SaveResults, Counters).                                                *)
DurableNeverOvercounts == \A o \in Options : durable[o] <= Votes(Counted, o)

(* Neither do the results shown to the admin, although they merge a        *)
(* PostgreSQL snapshot with counters read later and shard by shard.        *)
AnswerWithinCounted ==
    \A r \in Readers :
        call[r].pc = "answered" =>
            \A o \in Options : result[r].total[o] <= Votes(Counted, o)

(* Totals are compared as numbers here, option by option: nobody can tell  *)
(* which ballots a total stands for.  The results of a request that could  *)
(* read the counters show, for each option, no less than the ballots       *)
(* counted before it began that Redis still holds at the answer, whatever  *)
(* else expired or was lost meanwhile (Results, Counters).                 *)
AnswerIsComplete ==
    [][\A r \in Readers :
          call[r].pc = "reading" /\ call'[r].pc = "answered" /\ result'[r].liveOk
          => \A o \in Options :
                Votes(call[r].base \cap LiveBallots, o) <= result'[r].total[o]]_vars

(* A cycle that saves raises each durable total to no less than the        *)
(* ballots counted before it began that Redis still holds, although        *)
(* another cycle may have read more or less than it and save before or     *)
(* after it (Sync, SaveResults).  That these very ballots are in the total *)
(* it does not say: see SavedBallotsAreDurable in MCVoteTallyMasked.       *)
SavedCycleIsComplete ==
    [][\A p \in Syncers :
          SyncSave(p) => \A o \in Options :
                            Votes(call[p].base \cap LiveBallots, o) <= durable'[o]]_vars

(* The vote path implements the promise of DurableTally: totals only rise, *)
(* and only to what was counted.                                           *)
Tally == INSTANCE DurableTally WITH cast <- Counted, Total <- Votes

ImplementsDurableTally == Tally!TallySpec

(* PostgreSQL catches up: again and again each durable total is no less    *)
(* than what the counters in Redis show for its option, although cycles    *)
(* overlap and fail (Sync, the voting-sync loop).  The totals are numbers: *)
(* the ballots of a hash that began again need not be in the total that is *)
(* as large.                                                               *)
DurableCatchesUp == []<>(\A o \in Options : Votes(LiveBallots, o) <= durable[o])
=============================================================================
