------------------------------ MODULE VoteStore ------------------------------
(***************************************************************************)
(* The Redis keys that hold the votes of ONE poll, and the Lua script that *)
(* is the only writer of them (internal/votestore).  Every key name starts *)
(* with the hash tag {v:<poll>:<shard>}, so polls share nothing and one    *)
(* poll is enough; a shard's keys live in one hash slot and are lost       *)
(* together.                                                               *)
(*                                                                         *)
(* A shard's hash of counters is modelled by the set of ballots it has     *)
(* counted: the field of option o is the number of those that choose o.    *)
(* That is exact as long as no ballot is counted twice in one hash, which  *)
(* module CastBallot checks of the retries that could do it (CountedOnce). *)
(***************************************************************************)
EXTENDS Naturals, FiniteSets

CONSTANTS
    Ballots,            \* ballots that may be submitted for the poll
    Voters,             \* voter hashes: SHA-256 of poll id and cookie token
    Options,            \* the poll's options
    Shards,             \* counter shards of the poll
    VoterOf,            \* [Ballots -> Voters]
    ChoiceOf,           \* [Ballots -> non-empty SUBSET Options]
    ShardOf,            \* [Voters -> Shards], crc32 of the hash modulo Shards
    DedupTTL,           \* VOTE_DEDUP_TTL
    CounterRetention,   \* VOTE_COUNTER_RETENTION
    MaxTime,            \* bound: the clock stops here
    MaxLosses           \* bound: how many times a shard may lose its data

ASSUME BallotsAssumption ==
    /\ IsFiniteSet(Ballots)
    /\ VoterOf \in [Ballots -> Voters]
    /\ ChoiceOf \in [Ballots -> (SUBSET Options) \ {{}}]

ASSUME ShardsAssumption ==
    /\ IsFiniteSet(Shards)
    /\ ShardOf \in [Voters -> Shards]

ASSUME TimesAssumption ==
    /\ DedupTTL \in Nat \ {0}
    /\ CounterRetention \in Nat \ {0}
    /\ MaxTime \in Nat \ {0}
    /\ MaxLosses \in Nat

VARIABLES
    now,        \* the clock; TTLs are whole ticks of it
    voted,      \* voted[v]: when v's dedup key expires, 0 when never set
    counts,     \* counts[s]: the ballots counted in the hash of shard s
    expiry,     \* expiry[s]: when the hash of shard s expires
    countedAt,  \* history: when a ballot was last counted, 0 when never
    losses      \* how many shards have lost their data so far

storeVars == <<now, voted, counts, expiry, countedAt, losses>>

ShardOfBallot(b) == ShardOf[VoterOf[b]]

(* The dedup key of v exists. *)
Claimed(v) == now < voted[v]

(* The hash of s as a reader finds it: an expired key is an absent key. *)
Live(s) == IF now < expiry[s] THEN counts[s] ELSE {}

(* The ballots Redis still holds, and all that were ever counted. *)
LiveBallots == UNION {Live(s) : s \in Shards}
Counted == {b \in Ballots : countedAt[b] > 0}

(* What the counter of option o shows after counting the ballots of B. *)
Votes(B, o) == Cardinality({b \in B : o \in ChoiceOf[b]})

StoreTypeOK ==
    /\ now \in 1 .. MaxTime
    /\ voted \in [Voters -> Nat]
    /\ counts \in [Shards -> SUBSET Ballots]
    /\ expiry \in [Shards -> Nat]
    /\ countedAt \in [Ballots -> Nat]
    /\ losses \in 0 .. MaxLosses

StoreInit ==
    /\ now = 1
    /\ voted = [v \in Voters |-> 0]
    /\ counts = [s \in Shards |-> {}]
    /\ expiry = [s \in Shards |-> 0]
    /\ countedAt = [b \in Ballots |-> 0]
    /\ losses = 0

-----------------------------------------------------------------------------
(* Mutated forms of Count, used by the mutant runs only. *)

CountWithoutNX(b) ==
    LET s == ShardOfBallot(b) IN
    /\ voted' = [voted EXCEPT ![VoterOf[b]] = now + DedupTTL]
    /\ counts' = [counts EXCEPT ![s] = Live(s) \cup {b}]
    /\ expiry' = [expiry EXCEPT ![s] = IF now < @ THEN @ ELSE now + CounterRetention]
    /\ countedAt' = [countedAt EXCEPT ![b] = now]
    /\ UNCHANGED <<now, losses>>

CountSwappingTTLs(b) ==
    LET s == ShardOfBallot(b) IN
    /\ ~Claimed(VoterOf[b])
    /\ voted' = [voted EXCEPT ![VoterOf[b]] = now + CounterRetention]
    /\ counts' = [counts EXCEPT ![s] = Live(s) \cup {b}]
    /\ expiry' = [expiry EXCEPT ![s] = IF now < @ THEN @ ELSE now + DedupTTL]
    /\ countedAt' = [countedAt EXCEPT ![b] = now]
    /\ UNCHANGED <<now, losses>>

-----------------------------------------------------------------------------
(* castBallotScript, returning 1: SET NX EX claims the voter's slot, the   *)
(* fields of the chosen options are incremented, and the hash is given its *)
(* retention only when this ballot has created it.                         *)
Count(b) ==
    LET s == ShardOfBallot(b) IN
    /\ ~Claimed(VoterOf[b])
    /\ voted' = [voted EXCEPT ![VoterOf[b]] = now + DedupTTL]
    /\ counts' = [counts EXCEPT ![s] = Live(s) \cup {b}]
    /\ expiry' = [expiry EXCEPT ![s] = IF now < @ THEN @ ELSE now + CounterRetention]
    /\ countedAt' = [countedAt EXCEPT ![b] = now]
    /\ UNCHANGED <<now, losses>>

(* castBallotScript, returning 0: the slot is taken and nothing changes. *)
Refuse(b) ==
    /\ Claimed(VoterOf[b])
    /\ UNCHANGED storeVars

(* A shard's node comes back without its data: the counters and the dedup  *)
(* slots of its voters go together, since they share the hash tag.         *)
LoseShard(s) ==
    /\ losses < MaxLosses
    /\ losses' = losses + 1
    /\ voted' = [v \in Voters |-> IF ShardOf[v] = s THEN 0 ELSE voted[v]]
    /\ counts' = [counts EXCEPT ![s] = {}]
    /\ expiry' = [expiry EXCEPT ![s] = 0]
    /\ UNCHANGED <<now, countedAt>>

(* Time passes; keys expire by comparison with the clock. *)
Tick ==
    /\ now < MaxTime
    /\ now' = now + 1
    /\ UNCHANGED <<voted, counts, expiry, countedAt, losses>>
=============================================================================
