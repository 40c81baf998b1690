------------------------------ MODULE PollCache ------------------------------
(***************************************************************************)
(* The two-tier cache through which the API replicas read a poll           *)
(* (internal/pollcache): a local TTL cache per replica, a shared tier in   *)
(* Redis, PostgreSQL as the origin.  A miss starts a fill, one per replica *)
(* at a time (singleflight); a status change is committed first and        *)
(* invalidated afterwards, so fills and invalidations interleave.          *)
(*                                                                         *)
(* The poll is its version: 0 is a poll that does not exist yet, which is  *)
(* cached as missing; every write makes the next version.  A lookup is     *)
(* answered with the live local entry, be it found or just filled.         *)
(***************************************************************************)
EXTENDS Naturals

CONSTANTS
    Replicas,       \* API processes
    LocalTTL,       \* POLL_CACHE_LOCAL_TTL
    SharedTTL,      \* POLL_CACHE_SHARED_TTL
    NegativeTTL,    \* POLL_CACHE_NEGATIVE_TTL
    RequestTimeout, \* HTTP_REQUEST_TIMEOUT, and what a call may spend on its way
    MaxVersion,     \* bound: how often the poll is written
    MaxTime         \* bound: the clock stops here

(* config.go rejects a local TTL above the shared one. *)
ASSUME CacheAssumption ==
    /\ LocalTTL \in Nat \ {0} /\ SharedTTL \in Nat \ {0} /\ NegativeTTL \in Nat \ {0}
    /\ LocalTTL <= SharedTTL
    /\ RequestTimeout \in Nat
    /\ MaxVersion \in Nat
    /\ MaxTime \in Nat \ {0}

VARIABLES
    now,        \* the clock
    origin,     \* the version in PostgreSQL
    replacedAt, \* history: when a version was replaced, 0 when it was not
    shared,     \* the entry in Redis
    local,      \* local[r]: the entry in the memory of r
    fill,       \* fill[r]: the lookup in progress in r's singleflight group
    pending,    \* pending[r]: what Invalidate in r has yet to delete
    clean       \* history: when a clean invalidation ended, 0 if none did since the write

vars == <<now, origin, replacedAt, shared, local, fill, pending, clean>>

Versions == 0 .. MaxVersion
Entry == [version : Versions, expires : Nat]
NoEntry == [version |-> 0, expires |-> 0]
Fill == [pc : {"idle", "shared", "origin", "store", "local"}, version : Versions, began : Nat]
NoFill == [pc |-> "idle", version |-> 0, began |-> 0]

TypeOK ==
    /\ now \in 1 .. MaxTime
    /\ origin \in Versions
    /\ replacedAt \in [Versions -> Nat]
    /\ shared \in Entry
    /\ local \in [Replicas -> Entry]
    /\ fill \in [Replicas -> Fill]
    /\ pending \in [Replicas -> {"none", "local", "shared"}]
    /\ clean \in Nat

Init ==
    /\ now = 1
    /\ origin = 0
    /\ replacedAt = [v \in Versions |-> 0]
    /\ shared = NoEntry
    /\ local = [r \in Replicas |-> NoEntry]
    /\ fill = [r \in Replicas |-> NoFill]
    /\ pending = [r \in Replicas |-> "none"]
    /\ clean = 0

(* An expired entry is dropped as the clock passes it (see Tick). *)
SharedLive == shared.expires > 0
LocalLive(r) == local[r].expires > 0

(* The context of the leader's request has not ended: a call may succeed.  *)
InTime(r) == now <= fill[r].began + RequestTimeout

(* r carries a version that is not the current one to its caches. *)
CarriesStale(r) == fill[r].pc \in {"store", "local"} /\ fill[r].version # origin

-----------------------------------------------------------------------------
(* Mutated forms of the definitions below, used by the mutant runs only. *)

AlwaysSharedTTL(v) == SharedTTL

DeleteNothing(r) ==
    /\ pending[r] = "shared"
    /\ pending' = [pending EXCEPT ![r] = "none"]
    /\ clean' = IF \E q \in Replicas : CarriesStale(q) THEN 0 ELSE now
    /\ UNCHANGED <<now, origin, replacedAt, shared, local, fill>>

-----------------------------------------------------------------------------
(* localTTLFor: a missing poll is not kept longer than NegativeTTL. *)
LocalTTLFor(v) == IF v = 0 /\ NegativeTTL < LocalTTL THEN NegativeTTL ELSE LocalTTL
SharedTTLFor(v) == IF v = 0 THEN NegativeTTL ELSE SharedTTL

(* A lookup misses the local tier and becomes the leader of a fill; those  *)
(* that miss while it lasts wait for its outcome.                          *)
Miss(r) ==
    /\ ~LocalLive(r)
    /\ fill[r].pc = "idle"
    /\ fill' = [fill EXCEPT ![r] = [pc |-> "shared", version |-> 0, began |-> now]]
    /\ UNCHANGED <<now, origin, replacedAt, shared, local, pending, clean>>

(* The shared tier has the poll. *)
SharedHit(r) ==
    /\ fill[r].pc = "shared" /\ InTime(r)
    /\ SharedLive
    /\ fill' = [fill EXCEPT ![r].pc = "local", ![r].version = shared.version]
    /\ UNCHANGED <<now, origin, replacedAt, shared, local, pending, clean>>

(* It does not have it, or the read failed and is only logged. *)
SharedMiss(r) ==
    /\ fill[r].pc = "shared"
    /\ fill' = [fill EXCEPT ![r].pc = "origin"]
    /\ UNCHANGED <<now, origin, replacedAt, shared, local, pending, clean>>

OriginRead(r) ==
    /\ fill[r].pc = "origin" /\ InTime(r)
    /\ fill' = [fill EXCEPT ![r].pc = "store", ![r].version = origin]
    /\ UNCHANGED <<now, origin, replacedAt, shared, local, pending, clean>>

(* The read fails or the leader's context ends: the leader and all who     *)
(* wait with it get the error, and nothing is cached.                      *)
FillFails(r) ==
    /\ fill[r].pc = "origin"
    /\ fill' = [fill EXCEPT ![r] = NoFill]
    /\ UNCHANGED <<now, origin, replacedAt, shared, local, pending, clean>>

(* The shared tier is written; a failure is only logged.  A SET takes      *)
(* effect while its fill waits for it, or never: one that reaches Redis    *)
(* after the fill has given it up is not modelled.                         *)
Store(r, ok) ==
    /\ fill[r].pc = "store"
    /\ shared' = IF ok THEN [version |-> fill[r].version,
                             expires |-> now + SharedTTLFor(fill[r].version)]
                 ELSE shared
    /\ fill' = [fill EXCEPT ![r].pc = "local"]
    /\ UNCHANGED <<now, origin, replacedAt, local, pending, clean>>

(* The local tier is written and the waiting lookups are answered. *)
FillLocal(r) ==
    /\ fill[r].pc = "local"
    /\ local' = [local EXCEPT ![r] = [version |-> fill[r].version,
                                      expires |-> now + LocalTTLFor(fill[r].version)]]
    /\ fill' = [fill EXCEPT ![r] = NoFill]
    /\ UNCHANGED <<now, origin, replacedAt, shared, pending, clean>>

-----------------------------------------------------------------------------
(* A write commits in PostgreSQL; r invalidates its caches next, unless it *)
(* fails before it gets there.  Creating a poll invalidates nothing.       *)
Write(r, invalidates) ==
    /\ origin < MaxVersion
    /\ pending[r] = "none"
    /\ origin = 0 => ~invalidates
    /\ origin' = origin + 1
    /\ replacedAt' = [replacedAt EXCEPT ![origin] = now]
    /\ pending' = [pending EXCEPT ![r] = IF invalidates THEN "local" ELSE "none"]
    /\ clean' = 0
    /\ UNCHANGED <<now, shared, local, fill>>

InvalidateLocal(r) ==
    /\ pending[r] = "local"
    /\ local' = [local EXCEPT ![r] = NoEntry]
    /\ pending' = [pending EXCEPT ![r] = "shared"]
    /\ UNCHANGED <<now, origin, replacedAt, shared, fill, clean>>

(* The invalidation is clean when no fill is about to cache an older       *)
(* version again.                                                          *)
InvalidateShared(r) ==
    /\ pending[r] = "shared"
    /\ shared' = NoEntry
    /\ pending' = [pending EXCEPT ![r] = "none"]
    /\ clean' = IF \E q \in Replicas : CarriesStale(q) THEN 0 ELSE now
    /\ UNCHANGED <<now, origin, replacedAt, local, fill>>

(* The DEL fails; the caller logs it and reports success. *)
InvalidateFails(r) ==
    /\ pending[r] = "shared"
    /\ pending' = [pending EXCEPT ![r] = "none"]
    /\ UNCHANGED <<now, origin, replacedAt, shared, local, fill, clean>>

-----------------------------------------------------------------------------
(* An entry is evicted to make room for another poll. *)
EvictLocal(r) ==
    /\ LocalLive(r)
    /\ local' = [local EXCEPT ![r] = NoEntry]
    /\ UNCHANGED <<now, origin, replacedAt, shared, fill, pending, clean>>

(* A replica dies and starts again with an empty memory. *)
Restart(r) ==
    /\ local' = [local EXCEPT ![r] = NoEntry]
    /\ fill' = [fill EXCEPT ![r] = NoFill]
    /\ pending' = [pending EXCEPT ![r] = "none"]
    /\ UNCHANGED <<now, origin, replacedAt, shared, clean>>

(* Redis drops a key when its time is up; TTL.Get still returns an entry   *)
(* at the very instant it expires.  A fill that has read the poll ends     *)
(* when the leader's context does at the latest: the write to Redis fails  *)
(* then, and the one to memory does not wait for anything.                 *)
Tick ==
    /\ now < MaxTime
    /\ \A r \in Replicas :
          fill[r].pc \in {"store", "local"} => now < fill[r].began + RequestTimeout
    /\ now' = now + 1
    /\ shared' = IF now' < shared.expires THEN shared ELSE NoEntry
    /\ local' = [r \in Replicas |-> IF now' <= local[r].expires THEN local[r] ELSE NoEntry]
    /\ UNCHANGED <<origin, replacedAt, fill, pending, clean>>

Next ==
    \/ \E r \in Replicas :
          \/ Miss(r) \/ SharedHit(r) \/ SharedMiss(r) \/ OriginRead(r) \/ FillFails(r)
          \/ \E ok \in BOOLEAN : Store(r, ok)
          \/ FillLocal(r)
          \/ \E invalidates \in BOOLEAN : Write(r, invalidates)
          \/ InvalidateLocal(r) \/ InvalidateShared(r) \/ InvalidateFails(r)
          \/ EvictLocal(r) \/ Restart(r)
    \/ Tick

Spec == Init /\ [][Next]_vars

-----------------------------------------------------------------------------
(* However fills, writes and failed invalidations interleave, a replica    *)
(* answers with a replaced version only for so long: the fill that read it *)
(* last, its life in Redis, the fill that copied it, its life in memory.   *)
(* A poll that was missing is found so much sooner.  Nothing in Invalidate *)
(* is needed for that; this is the bound that the settle window of the     *)
(* synchroniser is to be compared with.                                    *)
StalenessBound(v) ==
    2 * RequestTimeout + IF v = 0 THEN 2 * NegativeTTL ELSE SharedTTL + LocalTTL

StalenessIsBounded ==
    \A r \in Replicas :
        LocalLive(r) /\ local[r].version # origin
            => now < replacedAt[local[r].version] + StalenessBound(local[r].version)

(* After an invalidation that no fill of an older version overlapped, the  *)
(* shared tier never shows an older version again, and no local tier does  *)
(* for longer than its own TTL (Invalidate reaches one replica's memory).  *)
CleanInvalidationHolds ==
    clean > 0 =>
        /\ SharedLive => shared.version = origin
        /\ now > clean + LocalTTL =>
              \A r \in Replicas : LocalLive(r) => local[r].version = origin
=============================================================================
