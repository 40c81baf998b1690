------------------------------ MODULE TtlCache ------------------------------
(***************************************************************************)
(* The in-process cache under the poll cache (internal/ttlcache): sharded, *)
(* least recently used first out, an expiry per entry.  Every operation    *)
(* holds its shard's mutex throughout, so operations are atomic steps.     *)
(*                                                                         *)
(* A shard's map and its list hold the same entries; they are modelled by  *)
(* the list of keys, most recently used first, and the entries of those    *)
(* keys.  An expired entry stays until it is looked up or evicted.  Names  *)
(* differ from those of PollCache, whose local tier this is, for both are  *)
(* spoken of together.                                                     *)
(***************************************************************************)
EXTENDS Naturals, SequencesExt

CONSTANTS
    Keys,
    Values,
    Shards,     \* 16 of them
    ShardOf,    \* [Keys -> Shards], the hash
    Capacity,   \* POLL_CACHE_CAPACITY
    TTLs,       \* lifetimes asked for; one that is not positive stores nothing
    MaxClock    \* bound: the clock stops here

ASSUME TtlCacheAssumption ==
    /\ IsFiniteSet(Shards) /\ Shards # {}
    /\ ShardOf \in [Keys -> Shards]
    /\ Capacity \in Nat /\ TTLs \subseteq Nat \ {0} /\ MaxClock \in Nat

VARIABLES
    clock,      \* time.Now
    order,      \* order[s]: the list of shard s
    entries,    \* entries[k]: the value and expiry of a key that is in its list
    promised,   \* history: what was last set for a key and not deleted, and until when
    usedSince   \* history: usedSince[k]: the keys of k's shard set or found since k last was

memVars == <<clock, order, entries, promised, usedSince>>

NoItem == [value |-> "none", expires |-> 0]
Item == [value : Values, expires : Nat]

Held(s) == ToSet(order[s])

MemTypeOK ==
    /\ clock \in 0 .. MaxClock
    /\ order \in [Shards -> Seq(Keys)]
    /\ \A s \in Shards : IsInjective(order[s]) /\ \A k \in Held(s) : ShardOf[k] = s
    /\ entries \in [Keys -> Item \cup {NoItem}]
    /\ \A k \in Keys : IF k \in Held(ShardOf[k]) THEN entries[k] \in Item ELSE entries[k] = NoItem
    /\ promised \in [Keys -> Item \cup {NoItem}]
    /\ usedSince \in [Keys -> SUBSET Keys]
    /\ \A k \in Keys : IsFiniteSet(usedSince[k])

MemInit ==
    /\ clock = 0
    /\ order = [s \in Shards |-> <<>>]
    /\ entries = [k \in Keys |-> NoItem]
    /\ promised = entries
    /\ usedSince = [k \in Keys |-> {}]

(* The list without k, which is in it, and with k moved to its front. *)
Without(s, k) == RemoveAt(order[s], CHOOSE i \in DOMAIN order[s] : order[s][i] = k)
InFront(s, k) == <<k>> \o Without(s, k)

(* k is set or found: history. *)
Use(k) ==
    usedSince' = [j \in Keys |->
        IF j = k THEN {}
        ELSE usedSince[j] \cup (IF ShardOf[j] = ShardOf[k] THEN {k} ELSE {})]

(* NewTTL divides the capacity among the shards, at least one each. *)
PerShard ==
    LET share == Capacity \div Cardinality(Shards) IN IF share < 1 THEN 1 ELSE share

(* k is held and its time is not up: Get finds it. *)
Live(k) == k \in Held(ShardOf[k]) /\ clock <= entries[k].expires

-----------------------------------------------------------------------------
(* Mutated forms of the definitions below, used by the mutant runs only. *)

ReplaceKeepingValue(k, entry) ==
    /\ k \in Held(ShardOf[k])
    /\ entries' = [entries EXCEPT ![k].expires = entry.expires]
    /\ order' = [order EXCEPT ![ShardOf[k]] = InFront(ShardOf[k], k)]

InsertWhenOver(k, entry) ==
    LET s == ShardOf[k]
        over == Len(order[s]) > PerShard IN
    /\ k \notin Held(s)
    /\ order' = [order EXCEPT ![s] = <<k>> \o (IF over THEN Front(@) ELSE @)]
    /\ entries' = [j \in Keys |->
          IF j = k THEN entry
          ELSE IF over /\ j = Last(order[s]) THEN NoItem
          ELSE entries[j]]

HitInPlace(k) ==
    /\ Live(k)
    /\ Use(k)
    /\ UNCHANGED <<clock, order, entries, promised>>

HitExtending(k) ==
    /\ Live(k)
    /\ order' = [order EXCEPT ![ShardOf[k]] = InFront(ShardOf[k], k)]
    /\ entries' = [entries EXCEPT ![k].expires = @ + 1]
    /\ Use(k)
    /\ UNCHANGED <<clock, promised>>

InsertForgettingMap(k, entry) ==
    LET s == ShardOf[k] IN
    /\ k \notin Held(s)
    /\ order' = [order EXCEPT ![s] = <<k>> \o (IF Len(@) >= PerShard THEN Front(@) ELSE @)]
    /\ entries' = [entries EXCEPT ![k] = entry]

-----------------------------------------------------------------------------
(* Get, of a key it finds. *)
Hit(k) ==
    /\ Live(k)
    /\ order' = [order EXCEPT ![ShardOf[k]] = InFront(ShardOf[k], k)]
    /\ Use(k)
    /\ UNCHANGED <<clock, entries, promised>>

(* removeLocked: the list and the map lose the entry together. *)
RemoveLocked(k) ==
    /\ order' = [order EXCEPT ![ShardOf[k]] = Without(ShardOf[k], k)]
    /\ entries' = [entries EXCEPT ![k] = NoItem]

(* Get drops what it finds expired. *)
ExpiredMiss(k) ==
    /\ k \in Held(ShardOf[k]) /\ ~Live(k)
    /\ RemoveLocked(k)
    /\ UNCHANGED <<clock, promised, usedSince>>

(* Set of a key that is held, expired or not. *)
Replace(k, entry) ==
    /\ k \in Held(ShardOf[k])
    /\ entries' = [entries EXCEPT ![k] = entry]
    /\ order' = [order EXCEPT ![ShardOf[k]] = InFront(ShardOf[k], k)]

(* Set of another one: the last of the list makes room in a full shard. *)
Insert(k, entry) ==
    LET s == ShardOf[k]
        full == Len(order[s]) >= PerShard IN
    /\ k \notin Held(s)
    /\ order' = [order EXCEPT ![s] = <<k>> \o (IF full THEN Front(@) ELSE @)]
    /\ entries' = [j \in Keys |->
          IF j = k THEN entry
          ELSE IF full /\ j = Last(order[s]) THEN NoItem
          ELSE entries[j]]

Set(k, value, ttl) ==
    LET entry == [value |-> value, expires |-> clock + ttl] IN
    /\ Replace(k, entry) \/ Insert(k, entry)
    /\ promised' = [promised EXCEPT ![k] = entry]
    /\ Use(k)
    /\ UNCHANGED clock

Delete(k) ==
    /\ k \in Held(ShardOf[k])
    /\ RemoveLocked(k)
    /\ promised' = [promised EXCEPT ![k] = NoItem]
    /\ UNCHANGED <<clock, usedSince>>

MemTick ==
    /\ clock < MaxClock
    /\ clock' = clock + 1
    /\ UNCHANGED <<order, entries, promised, usedSince>>

MemNext ==
    \/ \E k \in Keys :
          \/ Hit(k) \/ ExpiredMiss(k) \/ Delete(k)
          \/ \E value \in Values, ttl \in TTLs : Set(k, value, ttl)
    \/ MemTick

MemSpec == MemInit /\ [][MemNext]_memVars

-----------------------------------------------------------------------------
(* A key that is found has the value of its last Set and is found no       *)
(* longer than that Set allowed, whatever was evicted, replaced or deleted *)
(* in between (Get, Set).                                                  *)
FoundIsWhatWasSet ==
    \A k \in Keys :
        Live(k) => entries[k].value = promised[k].value /\ clock <= promised[k].expires

(* What is in use stays: a key that was set, not deleted and whose time is *)
(* not up is found as long as fewer other keys of its shard than the shard *)
(* holds were used since (the order of the list, Set's eviction).          *)
WorkingSetIsKept ==
    \A k \in Keys :
        /\ promised[k] # NoItem /\ clock <= promised[k].expires
        /\ Cardinality(usedSince[k]) < PerShard
        => Live(k)

(* ttlcache.go:32 says "NewTTL builds a cache holding at most capacity     *)
(* entries in total".  It does so when there is an entry for every shard,  *)
(* which config.go:189 ensures, and not below that.                        *)
CapacityHolds == Cardinality({k \in Keys : k \in Held(ShardOf[k])}) <= Capacity

(* What PollCache takes memory to be: a key by itself has an entry or      *)
(* none; the entry is what a Set of that key gives it, or is dropped, or   *)
(* its time is up, whatever happens to the other keys (FillLocal,          *)
(* EvictLocal, InvalidateLocal and Tick of that module).                   *)
Found(k) == IF Live(k) THEN entries[k] ELSE NoItem

EntryStep(k) ==
    \/ clock' = clock /\ Found(k)' \in {Found(k), NoItem}
    \/ \E value \in Values, ttl \in TTLs :
          /\ Set(k, value, ttl)
          /\ Found(k)' = [value |-> value, expires |-> clock + ttl]
    \/ /\ clock' = clock + 1
       /\ Found(k)' = IF clock' <= Found(k).expires THEN Found(k) ELSE NoItem

ActsAsLocalTier == [][\A k \in Keys : EntryStep(k)]_memVars
=============================================================================
