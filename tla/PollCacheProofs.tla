--------------------------- MODULE PollCacheProofs ---------------------------
(***************************************************************************)
(* Proofs about PollCache: for any number of replicas, any TTLs and        *)
(* however long it runs, a replica answers with a replaced version only    *)
(* within the staleness bound, and a clean invalidation holds.  Then,      *)
(* about TtlCache, the memory of one replica.                              *)
(***************************************************************************)
EXTENDS PollCache, TtlCache, FiniteSetTheorems, SequenceTheorems, TLAPS

(* At the time t, with cur the current version and rep when each was       *)
(* replaced: what a live entry of Redis is, ...                            *)
InRedis(e, t, cur, rep) ==
    e.expires > 0 =>
        /\ e.version <= cur
        /\ t < e.expires /\ e.expires <= t + SharedTTLFor(e.version)
        /\ e.version # cur =>
              e.expires <= rep[e.version] + RequestTimeout + SharedTTLFor(e.version)

(* ... what a fill is that has read the poll, from PostgreSQL (store) or   *)
(* from either tier (local), ...                                           *)
InFlight(f, t, cur, rep) ==
    /\ f.began <= t
    /\ f.pc \in {"store", "local"} =>
          /\ f.version <= cur
          /\ t <= f.began + RequestTimeout
          /\ f.version # cur =>
                f.began < rep[f.version] + RequestTimeout + SharedTTLFor(f.version)
    /\ f.pc = "store" /\ f.version # cur => f.began <= rep[f.version]

(* ... and a live entry of a replica's memory.                             *)
InMemory(e, t, cur, rep) ==
    e.expires > 0 =>
        /\ e.version <= cur
        /\ t <= e.expires /\ e.expires <= t + LocalTTLFor(e.version)
        /\ e.version # cur =>
              e.expires < rep[e.version] + 2 * RequestTimeout
                              + SharedTTLFor(e.version) + LocalTTLFor(e.version)

(* Nothing brings back an older version after a clean invalidation: no     *)
(* fill carries one, Redis has none, and memory not for long.              *)
CleanSince ==
    clean > 0 =>
        /\ clean <= now
        /\ \A r \in Replicas : ~CarriesStale(r)
        /\ SharedLive => shared.version = origin
        /\ \A r \in Replicas :
              LocalLive(r) /\ local[r].version # origin => local[r].expires <= clean + LocalTTL

IInv ==
    /\ TypeOK
    /\ InRedis(shared, now, origin, replacedAt)
    /\ \A r \in Replicas : InFlight(fill[r], now, origin, replacedAt)
    /\ \A r \in Replicas : InMemory(local[r], now, origin, replacedAt)
    /\ CleanSince

USE CacheAssumption

-----------------------------------------------------------------------------
LEMMA Lives ==
    ASSUME NEW v
    PROVE  /\ LocalTTLFor(v) \in Nat \ {0} /\ LocalTTLFor(v) <= LocalTTL
           /\ SharedTTLFor(v) \in Nat \ {0}
           /\ v = 0 => LocalTTLFor(v) <= NegativeTTL /\ SharedTTLFor(v) = NegativeTTL
           /\ v # 0 => LocalTTLFor(v) = LocalTTL /\ SharedTTLFor(v) = SharedTTL
  BY DEF LocalTTLFor, SharedTTLFor

LEMMA NothingKnown ==
    ASSUME NEW t \in Nat, NEW cur, NEW rep
    PROVE  /\ NoEntry \in Entry /\ NoEntry.expires = 0
           /\ NoFill \in Fill /\ NoFill.pc = "idle" /\ NoFill.began = 0
           /\ InRedis(NoEntry, t, cur, rep)
           /\ InMemory(NoEntry, t, cur, rep)
           /\ InFlight(NoFill, t, cur, rep)
<1>1. /\ NoEntry \in Entry /\ NoEntry.expires = 0
      /\ NoFill \in Fill /\ NoFill.pc = "idle" /\ NoFill.began = 0
  BY DEF NoEntry, Entry, NoFill, Fill, Versions
<1> QED
  BY <1>1 DEF InRedis, InMemory, InFlight

LEMMA InitIInv == Init => IInv
<1> SUFFICES ASSUME Init PROVE IInv
  OBVIOUS
<1>1. TypeOK
  BY NothingKnown DEF Init, TypeOK, Versions
<1> QED
  BY <1>1, NothingKnown DEF Init, IInv, CleanSince

-----------------------------------------------------------------------------
(* What is cached when the poll is written, and when time passes. *)
LEMMA Replaced ==
    ASSUME TypeOK, origin < MaxVersion,
           NEW rep, rep = [replacedAt EXCEPT ![origin] = now]
    PROVE  /\ \A e \in Entry : InRedis(e, now, origin, replacedAt)
                                  => InRedis(e, now, origin + 1, rep)
           /\ \A f \in Fill : InFlight(f, now, origin, replacedAt)
                                  => InFlight(f, now, origin + 1, rep)
           /\ \A e \in Entry : InMemory(e, now, origin, replacedAt)
                                  => InMemory(e, now, origin + 1, rep)
<1>1. /\ now \in Nat /\ origin \in Nat /\ \A v \in Versions : v \in Nat /\ replacedAt[v] \in Nat
      /\ rep[origin] = now /\ \A v \in Versions \ {origin} : rep[v] = replacedAt[v]
  BY DEF TypeOK, Versions
<1>2. ASSUME NEW e \in Entry, InRedis(e, now, origin, replacedAt)
      PROVE  InRedis(e, now, origin + 1, rep)
  <2>1. e.version \in Versions /\ e.expires \in Nat
    BY DEF Entry
  <2> QED
    BY <1>1, <1>2, <2>1, Lives DEF InRedis
<1>3. ASSUME NEW f \in Fill, InFlight(f, now, origin, replacedAt)
      PROVE  InFlight(f, now, origin + 1, rep)
  <2>1. f.version \in Versions /\ f.began \in Nat
    BY DEF Fill
  <2> QED
    BY <1>1, <1>3, <2>1, Lives DEF InFlight
<1>4. ASSUME NEW e \in Entry, InMemory(e, now, origin, replacedAt)
      PROVE  InMemory(e, now, origin + 1, rep)
  <2>1. e.version \in Versions /\ e.expires \in Nat
    BY DEF Entry
  <2> QED
    BY <1>1, <1>4, <2>1, Lives DEF InMemory
<1> QED
  BY <1>2, <1>3, <1>4

LEMMA TickIInv == ASSUME IInv, Tick PROVE IInv'
<1>1. /\ now \in Nat \ {0} /\ now' = now + 1 /\ now' \in 1 .. MaxTime
      /\ UNCHANGED <<origin, replacedAt, fill, pending, clean>>
      /\ shared \in Entry /\ shared' \in {shared, NoEntry}
  BY DEF Tick, IInv, TypeOK
<1>2. ASSUME NEW r \in Replicas
      PROVE  /\ local[r] \in Entry /\ local'[r] \in {local[r], NoEntry}
             /\ local'[r] = local[r] => now + 1 <= local[r].expires \/ local[r] = NoEntry
             /\ InMemory(local'[r], now', origin, replacedAt)
  <2>1. /\ local[r] \in Entry /\ local[r].expires \in Nat
        /\ local'[r] = IF now + 1 <= local[r].expires THEN local[r] ELSE NoEntry
    BY <1>1 DEF Tick, IInv, TypeOK, Entry
  <2>2. InMemory(local[r], now, origin, replacedAt)
    BY DEF IInv
  <2>3. CASE now + 1 <= local[r].expires
    BY <1>1, <2>1, <2>2, <2>3, Lives DEF InMemory
  <2>4. CASE ~(now + 1 <= local[r].expires)
    BY <1>1, <2>1, <2>4, NothingKnown
  <2> QED
    BY <2>1, <2>3, <2>4
<1>3. InRedis(shared', now', origin, replacedAt)
  <2>1. shared.expires \in Nat
    BY <1>1 DEF Entry
  <2>2. CASE now + 1 < shared.expires
    BY <1>1, <2>1, <2>2, Lives DEF Tick, IInv, InRedis
  <2>3. CASE ~(now + 1 < shared.expires)
    BY <1>1, <2>3, NothingKnown DEF Tick
  <2> QED
    BY <2>2, <2>3
<1>4. ASSUME NEW r \in Replicas PROVE InFlight(fill[r], now', origin, replacedAt)
  <2>1. fill[r] \in Fill /\ fill[r].began \in Nat /\ InFlight(fill[r], now, origin, replacedAt)
    BY DEF IInv, TypeOK, Fill
  <2>2. fill[r].pc \in {"store", "local"} => now < fill[r].began + RequestTimeout
    BY DEF Tick
  <2> QED
    BY <1>1, <2>1, <2>2 DEF InFlight
<1>5. TypeOK'
  <2>1. local' \in [Replicas -> Entry]
    BY <1>2, NothingKnown DEF Tick
  <2> QED
    BY <1>1, <2>1, NothingKnown DEF IInv, TypeOK
<1>6. CleanSince'
  <2>1. clean \in Nat /\ NoEntry.expires = 0
    BY NothingKnown DEF IInv, TypeOK
  <2> QED
    BY <1>1, <1>2, <2>1 DEF IInv, CleanSince, CarriesStale, SharedLive, LocalLive
<1> QED
  BY <1>1, <1>2, <1>3, <1>4, <1>5, <1>6 DEF IInv

LEMMA WriteIInv ==
    ASSUME IInv, NEW r \in Replicas, NEW invalidates \in BOOLEAN, Write(r, invalidates)
    PROVE  IInv'
<1>1. /\ origin < MaxVersion /\ origin' = origin + 1 /\ clean' = 0
      /\ replacedAt' = [replacedAt EXCEPT ![origin] = now]
      /\ UNCHANGED <<now, shared, local, fill>>
  BY DEF Write
<1>2. TypeOK'
  <2>1. origin' \in Versions /\ replacedAt' \in [Versions -> Nat]
    BY <1>1 DEF IInv, TypeOK, Versions
  <2>2. pending' \in [Replicas -> {"none", "local", "shared"}]
    BY DEF Write, IInv, TypeOK
  <2> QED
    BY <1>1, <2>1, <2>2 DEF IInv, TypeOK
<1>3. /\ InRedis(shared, now, origin', replacedAt')
      /\ \A q \in Replicas : InFlight(fill[q], now, origin', replacedAt')
      /\ \A q \in Replicas : InMemory(local[q], now, origin', replacedAt')
  <2>1. shared \in Entry /\ \A q \in Replicas : fill[q] \in Fill /\ local[q] \in Entry
    BY DEF IInv, TypeOK
  <2> QED
    BY <1>1, <2>1, Replaced DEF IInv
<1>4. CleanSince'
  BY <1>1 DEF CleanSince
<1> QED
  BY <1>1, <1>2, <1>3, <1>4 DEF IInv

-----------------------------------------------------------------------------
(* A replica moves on while no poll is written and no time passes: what it *)
(* puts anywhere is what may be there.                                     *)
LEMMA ReplicaStep ==
    ASSUME IInv, NEW r \in Replicas, UNCHANGED <<now, origin, replacedAt>>,
           pending' \in [Replicas -> {"none", "local", "shared"}],
           shared' \in Entry, InRedis(shared', now, origin, replacedAt),
           local' \in [Replicas -> Entry], fill' \in [Replicas -> Fill],
           \A q \in Replicas \ {r} : local'[q] = local[q] /\ fill'[q] = fill[q],
           InMemory(local'[r], now, origin, replacedAt),
           InFlight(fill'[r], now, origin, replacedAt),
           clean' = clean,
           clean > 0 =>
              /\ ~(fill'[r].pc \in {"store", "local"} /\ fill'[r].version # origin)
              /\ shared'.expires > 0 => shared'.version = origin
              /\ local'[r].expires > 0 /\ local'[r].version # origin
                    => local'[r].expires <= clean + LocalTTL
    PROVE  IInv'
<1>1. TypeOK'
  BY DEF IInv, TypeOK
<1>2. CleanSince'
  BY DEF IInv, CleanSince, CarriesStale, SharedLive, LocalLive
<1> QED
  BY <1>1, <1>2 DEF IInv

(* What a replica has before it moves. *)
LEMMA ReplicaFields ==
    ASSUME IInv, NEW r \in Replicas
    PROVE  /\ now \in Nat \ {0} /\ origin \in Nat /\ origin \in Versions /\ clean \in Nat
           /\ \A v \in Versions : v \in Nat /\ replacedAt[v] \in Nat
           /\ shared \in Entry /\ shared.version \in Versions /\ shared.expires \in Nat
           /\ local[r] \in Entry
           /\ fill[r] \in Fill /\ fill[r].version \in Versions /\ fill[r].began \in Nat
           /\ InRedis(shared, now, origin, replacedAt)
           /\ InFlight(fill[r], now, origin, replacedAt)
           /\ InMemory(local[r], now, origin, replacedAt)
           /\ clean > 0 =>
                 /\ ~(fill[r].pc \in {"store", "local"} /\ fill[r].version # origin)
                 /\ shared.expires > 0 => shared.version = origin
                 /\ local[r].expires > 0 /\ local[r].version # origin
                       => local[r].expires <= clean + LocalTTL
  BY DEF IInv, TypeOK, Entry, Fill, Versions, CleanSince, CarriesStale, SharedLive, LocalLive

(* Only the fill of r changes. *)
LEMMA FillStep ==
    ASSUME IInv, NEW r \in Replicas,
           UNCHANGED <<now, origin, replacedAt, shared, local, pending, clean>>,
           NEW f \in Fill, fill' = [fill EXCEPT ![r] = f],
           InFlight(f, now, origin, replacedAt),
           clean > 0 => ~(f.pc \in {"store", "local"} /\ f.version # origin)
    PROVE  IInv'
<1>1. /\ fill' \in [Replicas -> Fill] /\ fill'[r] = f
      /\ \A q \in Replicas \ {r} : fill'[q] = fill[q]
  BY DEF IInv, TypeOK
<1>2. pending' \in [Replicas -> {"none", "local", "shared"}] /\ local' \in [Replicas -> Entry]
  BY DEF IInv, TypeOK
<1> QED
  BY <1>1, <1>2, ReplicaFields, ReplicaStep

LEMMA MissIInv == ASSUME IInv, NEW r \in Replicas, Miss(r) PROVE IInv'
<1> DEFINE f == [pc |-> "shared", version |-> 0, began |-> now]
<1>1. f \in Fill /\ f.pc = "shared" /\ f.began = now
  BY ReplicaFields DEF Fill, Versions
<1>2. InFlight(f, now, origin, replacedAt)
  BY <1>1, ReplicaFields DEF InFlight
<1> QED
  BY <1>1, <1>2, FillStep DEF Miss

LEMMA SharedHitIInv == ASSUME IInv, NEW r \in Replicas, SharedHit(r) PROVE IInv'
<1> DEFINE f == [fill[r] EXCEPT !.pc = "local", !.version = shared.version]
<1>1. /\ f \in Fill /\ f.pc = "local" /\ f.version = shared.version
      /\ f.began = fill[r].began
  BY ReplicaFields DEF Fill
<1>2. fill' = [fill EXCEPT ![r] = f]
  BY DEF SharedHit, IInv, TypeOK, Fill
<1>3. shared.expires > 0 /\ now <= fill[r].began + RequestTimeout
  BY DEF SharedHit, SharedLive, InTime
<1> HIDE DEF f
<1>4. InFlight(f, now, origin, replacedAt)
  BY <1>1, <1>3, ReplicaFields, Lives DEF InFlight, InRedis
<1> QED
  BY <1>1, <1>2, <1>3, <1>4, ReplicaFields, FillStep DEF SharedHit

LEMMA SharedMissIInv == ASSUME IInv, NEW r \in Replicas, SharedMiss(r) PROVE IInv'
<1> DEFINE f == [fill[r] EXCEPT !.pc = "origin"]
<1>1. f \in Fill /\ f.pc = "origin" /\ f.began = fill[r].began
  BY ReplicaFields DEF Fill
<1>2. fill' = [fill EXCEPT ![r] = f]
  BY DEF SharedMiss
<1> HIDE DEF f
<1>3. InFlight(f, now, origin, replacedAt)
  BY <1>1, ReplicaFields DEF InFlight
<1> QED
  BY <1>1, <1>2, <1>3, FillStep DEF SharedMiss

LEMMA OriginReadIInv == ASSUME IInv, NEW r \in Replicas, OriginRead(r) PROVE IInv'
<1> DEFINE f == [fill[r] EXCEPT !.pc = "store", !.version = origin]
<1>1. f \in Fill /\ f.pc = "store" /\ f.version = origin /\ f.began = fill[r].began
  BY ReplicaFields DEF Fill
<1>2. fill' = [fill EXCEPT ![r] = f]
  BY DEF OriginRead, IInv, TypeOK, Fill
<1>3. now <= fill[r].began + RequestTimeout
  BY DEF OriginRead, InTime
<1> HIDE DEF f
<1>4. InFlight(f, now, origin, replacedAt)
  BY <1>1, <1>3, ReplicaFields DEF InFlight
<1> QED
  BY <1>1, <1>2, <1>4, FillStep DEF OriginRead

LEMMA FillFailsIInv == ASSUME IInv, NEW r \in Replicas, FillFails(r) PROVE IInv'
<1>1. NoFill \in Fill /\ NoFill.pc = "idle" /\ InFlight(NoFill, now, origin, replacedAt)
  BY NothingKnown, ReplicaFields
<1> QED
  BY <1>1, FillStep DEF FillFails

LEMMA StoreIInv ==
    ASSUME IInv, NEW r \in Replicas, NEW ok \in BOOLEAN, Store(r, ok) PROVE IInv'
<1> DEFINE v == fill[r].version
           e == [version |-> v, expires |-> now + SharedTTLFor(v)]
           f == [fill[r] EXCEPT !.pc = "local"]
<1>1. /\ e \in Entry /\ e.version = v /\ e.expires = now + SharedTTLFor(v)
      /\ f \in Fill /\ f.pc = "local" /\ f.version = v /\ f.began = fill[r].began
  BY ReplicaFields, Lives DEF Entry, Fill
<1>2. shared' = (IF ok THEN e ELSE shared) /\ fill' = [fill EXCEPT ![r] = f]
  BY DEF Store
<1>3. fill[r].pc = "store" /\ UNCHANGED <<now, origin, replacedAt, local, pending, clean>>
  BY DEF Store
<1> HIDE DEF e, f
<1>4. InFlight(f, now, origin, replacedAt)
  BY <1>1, <1>3, ReplicaFields DEF InFlight
<1>5. InRedis(e, now, origin, replacedAt)
  BY <1>1, <1>3, ReplicaFields, Lives DEF InFlight, InRedis
<1>6. shared' \in Entry /\ InRedis(shared', now, origin, replacedAt)
  BY <1>1, <1>2, <1>5, ReplicaFields
<1>7. /\ fill' \in [Replicas -> Fill] /\ fill'[r] = f
      /\ \A q \in Replicas \ {r} : fill'[q] = fill[q]
  BY <1>1, <1>2 DEF IInv, TypeOK
<1>8. local \in [Replicas -> Entry] /\ pending \in [Replicas -> {"none", "local", "shared"}]
  BY DEF IInv, TypeOK
<1>9. clean > 0 => /\ ~(f.pc \in {"store", "local"} /\ f.version # origin)
                   /\ shared'.expires > 0 => shared'.version = origin
  BY <1>1, <1>2, <1>3, ReplicaFields
<1> QED
  BY <1>3, <1>4, <1>6, <1>7, <1>8, <1>9, ReplicaFields, ReplicaStep

LEMMA FillLocalIInv == ASSUME IInv, NEW r \in Replicas, FillLocal(r) PROVE IInv'
<1> DEFINE v == fill[r].version
           e == [version |-> v, expires |-> now + LocalTTLFor(v)]
<1>1. e \in Entry /\ e.version = v /\ e.expires = now + LocalTTLFor(v)
  BY ReplicaFields, Lives DEF Entry
<1>2. local' = [local EXCEPT ![r] = e] /\ fill' = [fill EXCEPT ![r] = NoFill]
  BY DEF FillLocal
<1>3. fill[r].pc = "local" /\ UNCHANGED <<now, origin, replacedAt, shared, pending, clean>>
  BY DEF FillLocal
<1> HIDE DEF e
<1>4. InMemory(e, now, origin, replacedAt)
  BY <1>1, <1>3, ReplicaFields, Lives DEF InFlight, InMemory
<1>5. NoFill \in Fill /\ NoFill.pc = "idle" /\ InFlight(NoFill, now, origin, replacedAt)
  BY NothingKnown, ReplicaFields
<1>6. /\ fill' \in [Replicas -> Fill] /\ fill'[r] = NoFill
      /\ local' \in [Replicas -> Entry] /\ local'[r] = e
      /\ \A q \in Replicas \ {r} : local'[q] = local[q] /\ fill'[q] = fill[q]
  BY <1>1, <1>2, <1>5 DEF IInv, TypeOK
<1>7. pending \in [Replicas -> {"none", "local", "shared"}]
  BY DEF IInv, TypeOK
<1>8. clean > 0 => ~(e.version # origin)
  BY <1>1, <1>3, ReplicaFields
<1> QED
  BY <1>3, <1>4, <1>5, <1>6, <1>7, <1>8, ReplicaFields, ReplicaStep

-----------------------------------------------------------------------------
(* Memory is emptied: by Invalidate, for another poll, by a restart. *)
LEMMA LocalEmptied ==
    ASSUME IInv, NEW r \in Replicas, local' = [local EXCEPT ![r] = NoEntry],
           fill' \in {fill, [fill EXCEPT ![r] = NoFill]},
           pending' \in [Replicas -> {"none", "local", "shared"}],
           UNCHANGED <<now, origin, replacedAt, shared, clean>>
    PROVE  IInv'
<1>1. /\ NoEntry \in Entry /\ NoEntry.expires = 0 /\ InMemory(NoEntry, now, origin, replacedAt)
      /\ NoFill \in Fill /\ NoFill.pc = "idle" /\ InFlight(NoFill, now, origin, replacedAt)
  BY NothingKnown, ReplicaFields
<1>2. /\ local' \in [Replicas -> Entry] /\ local'[r] = NoEntry
      /\ fill' \in [Replicas -> Fill] /\ fill'[r] \in {fill[r], NoFill}
      /\ \A q \in Replicas \ {r} : local'[q] = local[q] /\ fill'[q] = fill[q]
  BY <1>1 DEF IInv, TypeOK
<1> QED
  BY <1>1, <1>2, ReplicaFields, ReplicaStep

LEMMA InvalidateSharedIInv == ASSUME IInv, NEW r \in Replicas, InvalidateShared(r) PROVE IInv'
<1>1. /\ shared' = NoEntry /\ UNCHANGED <<now, origin, replacedAt, local, fill>>
      /\ clean' = IF \E q \in Replicas : CarriesStale(q) THEN 0 ELSE now
      /\ now \in Nat
  BY DEF InvalidateShared, IInv, TypeOK
<1>2. NoEntry \in Entry /\ NoEntry.expires = 0 /\ InRedis(NoEntry, now, origin, replacedAt)
  BY <1>1, NothingKnown
<1>3. TypeOK'
  BY <1>1, <1>2 DEF InvalidateShared, IInv, TypeOK
<1>4. ASSUME NEW q \in Replicas PROVE local[q].expires > 0 => local[q].expires <= now + LocalTTL
  BY ReplicaFields, Lives DEF InMemory, Entry
<1>5. CleanSince'
  BY <1>1, <1>2, <1>4 DEF CleanSince, CarriesStale, SharedLive, LocalLive
<1> QED
  BY <1>1, <1>2, <1>3, <1>5 DEF IInv

LEMMA InvalidateFailsIInv == ASSUME IInv, NEW r \in Replicas, InvalidateFails(r) PROVE IInv'
<1>1. TypeOK'
  BY DEF InvalidateFails, IInv, TypeOK
<1> QED
  BY <1>1 DEF InvalidateFails, IInv, CleanSince, CarriesStale, SharedLive, LocalLive

LEMMA StepIInv == IInv /\ [Next]_vars => IInv'
<1> SUFFICES ASSUME IInv, [Next]_vars PROVE IInv'
  OBVIOUS
<1>1. CASE UNCHANGED vars
  BY <1>1 DEF vars, IInv, TypeOK, CleanSince, CarriesStale, SharedLive, LocalLive
<1>2. CASE Tick
  BY <1>2, TickIInv
<1>3. ASSUME NEW r \in Replicas,
             Miss(r) \/ SharedHit(r) \/ SharedMiss(r) \/ OriginRead(r) \/ FillFails(r)
      PROVE  IInv'
  BY <1>3, MissIInv, SharedHitIInv, SharedMissIInv, OriginReadIInv, FillFailsIInv
<1>4. ASSUME NEW r \in Replicas,
             (\E ok \in BOOLEAN : Store(r, ok)) \/ FillLocal(r)
                \/ \E invalidates \in BOOLEAN : Write(r, invalidates)
      PROVE  IInv'
  BY <1>4, StoreIInv, FillLocalIInv, WriteIInv
<1>5. ASSUME NEW r \in Replicas, InvalidateLocal(r) \/ EvictLocal(r) \/ Restart(r)
      PROVE  IInv'
  <2>1. pending' \in [Replicas -> {"none", "local", "shared"}]
    BY <1>5 DEF InvalidateLocal, EvictLocal, Restart, IInv, TypeOK
  <2>2. /\ local' = [local EXCEPT ![r] = NoEntry]
        /\ fill' \in {fill, [fill EXCEPT ![r] = NoFill]}
        /\ UNCHANGED <<now, origin, replacedAt, shared, clean>>
    BY <1>5 DEF InvalidateLocal, EvictLocal, Restart
  <2> QED
    BY <2>1, <2>2, LocalEmptied
<1>6. ASSUME NEW r \in Replicas, InvalidateShared(r) \/ InvalidateFails(r) PROVE IInv'
  BY <1>6, InvalidateSharedIInv, InvalidateFailsIInv
<1> QED
  BY <1>1, <1>2, <1>3, <1>4, <1>5, <1>6 DEF Next

-----------------------------------------------------------------------------
(* Entries and fills stay within their lives, whatever else happens to the *)
(* poll and the caches meanwhile (GetPoll, fill, Invalidate).              *)
THEOREM Invariance == Spec => []IInv
  BY InitIInv, StepIInv, PTL DEF Spec

(* The clock, versions, entries and fills stay within their types. *)
THEOREM TypeCorrect == Spec => []TypeOK
<1>1. IInv => TypeOK
  BY DEF IInv
<1> QED
  BY <1>1, Invariance, PTL

(* A replica answers with a replaced version only within the bound, even   *)
(* when every invalidation fails (GetPoll, localTTLFor).                   *)
THEOREM BoundedStaleness == Spec => []StalenessIsBounded
<1>1. IInv => StalenessIsBounded
  <2> SUFFICES ASSUME IInv, NEW r \in Replicas, LocalLive(r), local[r].version # origin
               PROVE  now < replacedAt[local[r].version] + StalenessBound(local[r].version)
    BY DEF StalenessIsBounded
  <2> DEFINE e == local[r]
  <2>1. /\ e.version \in Nat /\ e.expires \in Nat /\ e.expires > 0 /\ now \in Nat
        /\ replacedAt[e.version] \in Nat
    BY DEF LocalLive, IInv, TypeOK, Entry, Versions
  <2>2. /\ now <= e.expires
        /\ e.expires < replacedAt[e.version] + 2 * RequestTimeout
                           + SharedTTLFor(e.version) + LocalTTLFor(e.version)
    BY <2>1 DEF IInv, InMemory
  <2>3. SharedTTLFor(e.version) + LocalTTLFor(e.version)
           <= IF e.version = 0 THEN 2 * NegativeTTL ELSE SharedTTL + LocalTTL
    BY Lives
  <2> QED
    BY <2>1, <2>2, <2>3, Lives DEF StalenessBound
<1> QED
  BY <1>1, Invariance, PTL

(* After an invalidation no fill overlapped, Redis shows no older version, *)
(* and no memory does for longer than the local TTL (Invalidate).          *)
THEOREM CleanInvalidation == Spec => []CleanInvalidationHolds
<1>1. IInv => CleanInvalidationHolds
  <2> SUFFICES ASSUME IInv, clean > 0
               PROVE  /\ SharedLive => shared.version = origin
                      /\ now > clean + LocalTTL =>
                            \A r \in Replicas : LocalLive(r) => local[r].version = origin
    BY DEF CleanInvalidationHolds
  <2>1. ASSUME NEW r \in Replicas, LocalLive(r), local[r].version # origin
        PROVE  ~(now > clean + LocalTTL)
    <3>1. now \in Nat /\ clean \in Nat /\ local[r].expires \in Nat
      BY DEF IInv, TypeOK, Entry
    <3>2. now <= local[r].expires /\ local[r].expires <= clean + LocalTTL
      BY <2>1 DEF IInv, CleanSince, InMemory, LocalLive
    <3> QED
      BY <3>1, <3>2
  <2> QED
    BY <2>1 DEF IInv, CleanSince
<1> QED
  BY <1>1, Invariance, PTL

-----------------------------------------------------------------------------
(* The memory of a replica (TtlCache): for any keys, shards and capacity a *)
(* lookup finds what was last set, what is in use is kept, and no more is  *)
(* held than there is room for.                                            *)
HIDE CacheAssumption
USE TtlCacheAssumption

(* A shard's list l, when u says which keys were used since each was: its  *)
(* own keys, each once, no more than it has places for, the most recently  *)
(* used first.                                                             *)
ProperList(s, l, u) ==
    /\ l \in Seq(Keys) /\ IsInjective(l) /\ Len(l) <= PerShard
    /\ \A i \in DOMAIN l : ShardOf[l[i]] = s
    /\ \A i, j \in DOMAIN l : i < j => l[i] \in u[l[j]]

Lists == \A s \in Shards : ProperList(s, order[s], usedSince)

(* What is held is what was last set. *)
Kept == \A k \in Keys : k \in Held(ShardOf[k]) => entries[k] = promised[k]

(* What is not, though its time is not up, had to make room.               *)
Evicted ==
    \A k \in Keys :
        /\ k \notin Held(ShardOf[k])
        /\ promised[k] # NoItem /\ clock <= promised[k].expires
        => PerShard <= Cardinality(usedSince[k])

(* What a step leaves of a key whose shard it gives the list l. *)
Accounted(k, l) ==
    IF k \in ToSet(l)
    THEN entries'[k] \in Item /\ entries'[k] = promised'[k]
    ELSE /\ entries'[k] = NoItem
         /\ promised'[k] # NoItem /\ clock <= promised'[k].expires =>
               PerShard <= Cardinality(usedSince'[k])

(* What the keys have, or were promised. *)
Table == [Keys -> Item \cup {NoItem}]

MemIInv == MemTypeOK /\ Lists /\ Kept /\ Evicted

-----------------------------------------------------------------------------
LEMMA PerShardType == PerShard \in Nat \ {0}
<1> DEFINE n == Cardinality(Shards)
<1>1. n \in Nat /\ n # 0 /\ Capacity \in Nat
  BY FS_CardinalityType, FS_EmptySet DEF TtlCacheAssumption
<1> HIDE DEF n
<1>2. Capacity \div n \in Int
  BY <1>1
<1> QED
  BY <1>2 DEF PerShard, n

(* Places with at least one key each add up to no more than the capacity.  *)
LEMMA SharesFit ==
    ASSUME Cardinality(Shards) <= Capacity
    PROVE  Cardinality(Shards) * PerShard <= Capacity
<1> DEFINE n == Cardinality(Shards)
<1>1. n \in Nat \ {0} /\ Capacity \in Nat /\ n <= Capacity
  BY FS_CardinalityType, FS_EmptySet DEF TtlCacheAssumption
<1> HIDE DEF n
<1>2. ASSUME NEW a \in Nat, NEW b \in Nat \ {0}, b <= a
      PROVE  a \div b \in Nat /\ a \div b >= 1 /\ b * (a \div b) <= a
  BY <1>2
<1>3. Capacity \div n >= 1 /\ n * (Capacity \div n) <= Capacity /\ Capacity \div n \in Nat
  BY <1>1, <1>2
<1>4. PerShard = Capacity \div n
  BY <1>3 DEF PerShard, n
<1> QED
  BY <1>3, <1>4 DEF n

(* list.Remove takes one element out and keeps the order of the others.    *)
LEMMA RemovedAt ==
    ASSUME NEW S, NEW l \in Seq(S), NEW i \in DOMAIN l
    PROVE  /\ RemoveAt(l, i) \in Seq(S)
           /\ Len(RemoveAt(l, i)) = Len(l) - 1
           /\ \A j \in 1 .. Len(l) - 1 : RemoveAt(l, i)[j] = IF j < i THEN l[j] ELSE l[j + 1]
<1> DEFINE n == Len(l)
           a == SubSeq(l, 1, i - 1)
           b == SubSeq(l, i + 1, n)
<1>1. n \in Nat /\ i \in Int /\ 1 <= i /\ i <= n
  BY LenProperties
<1>2. \A j \in 1 .. n : l[j] \in S
  BY ElementOfSeq
<1>3. RemoveAt(l, i) = a \o b
  BY DEF RemoveAt
<1> HIDE DEF n
<1>4. /\ a \in Seq(S) /\ Len(a) = i - 1
      /\ \A j \in Int : 1 <= j /\ j < i => a[j] = l[j]
  <2>1. \A j \in 1 .. i - 1 : l[j] \in S
    BY <1>1, <1>2
  <2>2. /\ a \in Seq(S) /\ Len(a) = (IF 1 <= i - 1 THEN i - 1 - 1 + 1 ELSE 0)
        /\ \A j \in 1 .. i - 1 - 1 + 1 : a[j] = l[1 + j - 1]
    BY <1>1, <2>1, SubSeqProperties
  <2>3. ASSUME NEW j \in Int, 1 <= j, j < i PROVE a[j] = l[j]
    <3>1. j \in 1 .. i - 1 - 1 + 1 /\ 1 + j - 1 = j
      BY <1>1, <2>3
    <3> QED
      BY <2>2, <3>1
  <2> QED
    BY <1>1, <2>2, <2>3
<1>5. /\ b \in Seq(S) /\ Len(b) = n - i
      /\ \A j \in Int : i <= j /\ j < n => b[j - (i - 1)] = l[j + 1]
  <2>1. \A j \in i + 1 .. n : l[j] \in S
    BY <1>1, <1>2
  <2>2. /\ b \in Seq(S) /\ Len(b) = (IF i + 1 <= n THEN n - (i + 1) + 1 ELSE 0)
        /\ \A j \in 1 .. n - (i + 1) + 1 : b[j] = l[i + 1 + j - 1]
    BY <1>1, <2>1, SubSeqProperties
  <2>3. ASSUME NEW j \in Int, i <= j, j < n PROVE b[j - (i - 1)] = l[j + 1]
    <3>1. j - (i - 1) \in 1 .. n - (i + 1) + 1 /\ i + 1 + (j - (i - 1)) - 1 = j + 1
      BY <1>1, <2>3
    <3> QED
      BY <2>2, <3>1
  <2> QED
    BY <1>1, <2>2, <2>3
<1> HIDE DEF a, b
<1>6. /\ a \o b \in Seq(S) /\ Len(a \o b) = Len(a) + Len(b)
      /\ \A j \in 1 .. Len(a) + Len(b) : (a \o b)[j] = IF j <= Len(a) THEN a[j] ELSE b[j - Len(a)]
  BY <1>4, <1>5, ConcatProperties
<1>7. ASSUME NEW j \in 1 .. n - 1
      PROVE  (a \o b)[j] = IF j < i THEN l[j] ELSE l[j + 1]
  <2>1. (a \o b)[j] = IF j <= i - 1 THEN a[j] ELSE b[j - (i - 1)]
    <3>1. j \in 1 .. Len(a) + Len(b)
      BY <1>1, <1>4, <1>5
    <3> QED
      BY <1>4, <1>6, <3>1
  <2>2. j \in Int /\ 1 <= j /\ j < n
    BY <1>1
  <2>3. CASE j < i
    BY <1>1, <1>4, <2>1, <2>2, <2>3
  <2>4. CASE i <= j
    BY <1>1, <1>5, <2>1, <2>2, <2>4
  <2>5. j < i \/ i <= j
    BY <1>1, <2>2
  <2> QED
    BY <2>3, <2>4, <2>5
<1>8. Len(a \o b) = n - 1
  BY <1>1, <1>4, <1>5, <1>6
<1> QED
  BY <1>3, <1>6, <1>7, <1>8 DEF n

LEMMA Members ==
    ASSUME NEW l \in Seq(Keys)
    PROVE  /\ DOMAIN l = 1 .. Len(l) /\ Len(l) \in Nat
           /\ ToSet(l) \subseteq Keys
           /\ \A i \in DOMAIN l : l[i] \in ToSet(l)
           /\ \A k \in ToSet(l) : \E i \in DOMAIN l : l[i] = k
  BY LenProperties, ElementOfSeq DEF ToSet

(* A proper list without one of its keys is proper. *)
LEMMA WithoutOne ==
    ASSUME PerShard \in Nat, NEW s, NEW l, NEW u, ProperList(s, l, u), NEW i \in DOMAIN l
    PROVE  /\ ProperList(s, RemoveAt(l, i), u)
           /\ Len(RemoveAt(l, i)) = Len(l) - 1
           /\ ToSet(RemoveAt(l, i)) = ToSet(l) \ {l[i]}
<1> DEFINE m == RemoveAt(l, i)
           At(j) == IF j < i THEN j ELSE j + 1
<1>1. /\ l \in Seq(Keys) /\ DOMAIN l = 1 .. Len(l) /\ Len(l) \in Nat /\ IsInjective(l)
  BY Members DEF ProperList
<1>2. /\ m \in Seq(Keys) /\ Len(m) = Len(l) - 1
      /\ \A j \in 1 .. Len(l) - 1 : m[j] = IF j < i THEN l[j] ELSE l[j + 1]
  BY <1>1, RemovedAt
<1>3. DOMAIN m = 1 .. Len(l) - 1
  BY <1>2, Members
<1> HIDE DEF m
<1>4. \A j \in DOMAIN m : At(j) \in DOMAIN l \ {i} /\ m[j] = l[At(j)]
  BY <1>1, <1>2, <1>3
<1>5. \A j, h \in DOMAIN m : /\ j < h => At(j) < At(h)
                             /\ At(j) = At(h) => j = h
  BY <1>1, <1>3
<1>6. \A h \in DOMAIN l \ {i} : \E j \in DOMAIN m : At(j) = h
  <2> SUFFICES ASSUME NEW h \in DOMAIN l \ {i} PROVE \E j \in DOMAIN m : At(j) = h
    OBVIOUS
  <2>1. CASE h < i
    BY <1>1, <1>3, <2>1
  <2>2. CASE h > i
    <3>1. h - 1 \in DOMAIN m /\ At(h - 1) = h
      BY <1>1, <1>3, <2>2
    <3> QED
      BY <3>1
  <2> QED
    BY <1>1, <2>1, <2>2
<1> HIDE DEF At
<1>7. ProperList(s, m, u)
  <2>1. IsInjective(m)
    BY <1>1, <1>4, <1>5 DEF IsInjective
  <2>2. Len(m) <= PerShard
    BY <1>1, <1>2 DEF ProperList
  <2> QED
    BY <1>2, <1>4, <1>5, <2>1, <2>2 DEF ProperList
<1>8. ToSet(m) = ToSet(l) \ {l[i]}
  BY <1>1, <1>4, <1>6 DEF ToSet, IsInjective
<1> QED
  BY <1>2, <1>7, <1>8 DEF m

(* list.Back: to cut the last one off is to take one out. *)
LEMMA CutLast ==
    ASSUME PerShard \in Nat, NEW s, NEW l, NEW u, ProperList(s, l, u), l # <<>>
    PROVE  /\ ProperList(s, Front(l), u)
           /\ Len(Front(l)) = Len(l) - 1
           /\ Last(l) \in ToSet(l)
           /\ ToSet(Front(l)) = ToSet(l) \ {Last(l)}
<1>1. /\ l \in Seq(Keys) /\ DOMAIN l = 1 .. Len(l) /\ Len(l) \in Nat \ {0}
  BY Members, EmptySeq DEF ProperList
<1>2. Len(l) \in DOMAIN l /\ Last(l) = l[Len(l)]
  BY <1>1 DEF Last
<1>3. Front(l) = RemoveAt(l, Len(l))
  <2>1. \A j \in 1 .. Len(l) - 1 : l[j] \in Keys
    BY <1>1, ElementOfSeq
  <2>2. SubSeq(l, 1, Len(l) - 1) \in Seq(Keys)
    BY <1>1, <2>1, SubSeqProperties
  <2>3. SubSeq(l, Len(l) + 1, Len(l)) = <<>>
    BY <1>1, SubSeqEmpty
  <2> QED
    BY <2>2, <2>3, ConcatEmptySeq DEF RemoveAt, Front
<1>4. Last(l) \in ToSet(l)
  BY <1>2 DEF ToSet
<1> QED
  BY <1>2, <1>3, <1>4, WithoutOne

(* list.PushFront: a key that has just been used goes before those that    *)
(* have not been used since.                                               *)
LEMMA PushedFront ==
    ASSUME NEW s, NEW l, NEW u, NEW w, NEW k \in Keys, ProperList(s, l, u),
           k \notin ToSet(l), ShardOf[k] = s, Len(l) < PerShard, PerShard \in Nat,
           \A j \in ToSet(l) : u[j] \cup {k} \subseteq w[j]
    PROVE  ProperList(s, <<k>> \o l, w) /\ ToSet(<<k>> \o l) = {k} \cup ToSet(l)
<1> DEFINE m == <<k>> \o l
<1>1. /\ l \in Seq(Keys) /\ DOMAIN l = 1 .. Len(l) /\ Len(l) \in Nat /\ IsInjective(l)
      /\ \A i \in DOMAIN l : l[i] \in ToSet(l)
  BY Members DEF ProperList
<1>2. <<k>> \in Seq(Keys) /\ Len(<<k>>) = 1 /\ <<k>>[1] = k
  OBVIOUS
<1>3. /\ m \in Seq(Keys) /\ Len(m) = 1 + Len(l)
      /\ \A i \in 1 .. 1 + Len(l) : m[i] = IF i <= 1 THEN <<k>>[i] ELSE l[i - 1]
  BY <1>1, <1>2, ConcatProperties
<1>4. DOMAIN m = 1 .. 1 + Len(l)
  BY <1>3, Members
<1> HIDE DEF m
<1>5. m[1] = k /\ 1 \in DOMAIN m
  BY <1>1, <1>2, <1>3, <1>4
<1>6. \A i \in DOMAIN m \ {1} : i - 1 \in DOMAIN l /\ m[i] = l[i - 1] /\ 1 < i
  BY <1>1, <1>3, <1>4
<1>7. \A i \in DOMAIN l : i + 1 \in DOMAIN m \ {1} /\ m[i + 1] = l[i]
  BY <1>1, <1>3, <1>4
<1>8. IsInjective(m)
  <2> SUFFICES ASSUME NEW i \in DOMAIN m, NEW j \in DOMAIN m, m[i] = m[j] PROVE i = j
    BY DEF IsInjective
  <2>1. CASE i = 1 \/ j = 1
    BY <1>1, <1>5, <1>6, <2>1
  <2>2. CASE i # 1 /\ j # 1
    <3>1. i - 1 = j - 1
      BY <1>1, <1>6, <2>2 DEF IsInjective
    <3> QED
      BY <1>4, <3>1
  <2> QED
    BY <2>1, <2>2
<1>9. ASSUME NEW i \in DOMAIN m, NEW j \in DOMAIN m, i < j
      PROVE  m[i] \in w[m[j]]
  <2>1. j # 1 /\ j - 1 \in DOMAIN l /\ m[j] = l[j - 1] /\ l[j - 1] \in ToSet(l)
    BY <1>1, <1>4, <1>6, <1>9
  <2>2. CASE i = 1
    BY <1>5, <2>1, <2>2
  <2>3. CASE i # 1
    <3>1. i - 1 \in DOMAIN l /\ i - 1 < j - 1 /\ m[i] = l[i - 1]
      BY <1>1, <1>4, <1>6, <1>9, <2>3
    <3> QED
      BY <2>1, <3>1 DEF ProperList
  <2> QED
    BY <2>2, <2>3
<1>10. ProperList(s, m, w)
  <2>1. Len(m) <= PerShard
    BY <1>1, <1>3
  <2>2. \A i \in DOMAIN m : ShardOf[m[i]] = s
    BY <1>5, <1>6 DEF ProperList
  <2> QED
    BY <1>3, <1>8, <1>9, <2>1, <2>2 DEF ProperList
<1>11. ToSet(m) = {k} \cup ToSet(l)
  BY <1>1, <1>5, <1>6, <1>7 DEF ToSet
<1> QED
  BY <1>10, <1>11 DEF m

(* In a full shard every place has a key that was used since the last of   *)
(* its list was; when one more is, the last has to go.                     *)
LEMMA LastMakesRoom ==
    ASSUME PerShard \in Nat \ {0},
           NEW s, NEW l, NEW u, ProperList(s, l, u), Len(l) >= PerShard,
           NEW k, k \notin ToSet(l), NEW W, IsFiniteSet(W), u[Last(l)] \cup {k} \subseteq W
    PROVE  PerShard <= Cardinality(W)
<1> DEFINE n == Len(l)
           f == [i \in 1 .. n |-> IF i < n THEN l[i] ELSE k]
<1>1. /\ n \in Nat /\ n = PerShard /\ DOMAIN l = 1 .. n /\ IsInjective(l)
      /\ \A i \in DOMAIN l : l[i] \in ToSet(l)
  BY Members DEF ProperList
<1>2. n \in DOMAIN l /\ Last(l) = l[n]
  BY <1>1 DEF Last
<1>3. \A i \in 1 .. n : i < n => l[i] \in W
  BY <1>1, <1>2 DEF ProperList
<1> HIDE DEF n
<1>4. f \in Injection(1 .. n, W)
  <2>1. f \in [1 .. n -> W]
    BY <1>3
  <2>2. ASSUME NEW i \in 1 .. n, NEW j \in 1 .. n, f[i] = f[j] PROVE i = j
    BY <1>1, <2>2 DEF IsInjective
  <2> QED
    BY <2>1, <2>2 DEF Injection, IsInjective
<1>5. Cardinality(1 .. n) <= Cardinality(W)
  BY <1>4, FS_Injection
<1>6. n \in Nat \ {0} /\ n = PerShard
  BY <1>1
<1>7. Cardinality(1 .. n) = n
  BY <1>6, FS_Interval
<1> QED
  BY <1>5, <1>6, <1>7

-----------------------------------------------------------------------------
LEMMA MemInitIInv == MemInit => MemIInv
<1> SUFFICES ASSUME MemInit PROVE MemIInv
  OBVIOUS
<1>1. PerShard \in Nat
  BY PerShardType
<1>2. \A s \in Shards : Len(order[s]) = 0 /\ order[s] \in Seq(Keys) /\ DOMAIN order[s] = {}
  BY DEF MemInit
<1>3. \A k \in Keys : ShardOf[k] \in Shards /\ Held(ShardOf[k]) = {}
  BY <1>2 DEF TtlCacheAssumption, Held, ToSet
<1>4. Lists
  BY <1>1, <1>2 DEF Lists, ProperList, IsInjective, MemInit
<1>5. MemTypeOK
  <2>1. clock \in 0 .. MaxClock
    BY DEF MemInit, TtlCacheAssumption
  <2>2. order \in [Shards -> Seq(Keys)]
    BY DEF MemInit
  <2>3. \A s \in Shards : IsInjective(order[s]) /\ \A k \in Held(s) : ShardOf[k] = s
    BY <1>2 DEF IsInjective, Held, ToSet
  <2>4. \A k \in Keys : IsFiniteSet(usedSince[k])
    BY FS_EmptySet DEF MemInit
  <2> QED
    BY <1>3, <2>1, <2>2, <2>3, <2>4 DEF MemTypeOK, MemInit
<1> QED
  BY <1>3, <1>4, <1>5 DEF MemIInv, Kept, Evicted, MemInit

LEMMA HeldIsListed ==
    ASSUME MemIInv, NEW k \in Keys
    PROVE  /\ PerShard \in Nat \ {0} /\ ShardOf[k] \in Shards
           /\ ProperList(ShardOf[k], order[ShardOf[k]], usedSince)
           /\ Held(ShardOf[k]) = ToSet(order[ShardOf[k]])
           /\ Held(ShardOf[k]) \subseteq Keys
           /\ \A j \in Held(ShardOf[k]) : ShardOf[j] = ShardOf[k]
<1>1. PerShard \in Nat \ {0} /\ ShardOf[k] \in Shards
  BY PerShardType DEF TtlCacheAssumption
<1> QED
  BY <1>1, Members DEF MemIInv, Lists, ProperList, Held, MemTypeOK

(* What a step may do to the lists and histories the invariant is about:   *)
(* it changes one shard's list to another proper one, and nothing that is  *)
(* no longer held is missed.                                               *)
LEMMA ListStep ==
    ASSUME MemIInv, NEW k \in Keys, NEW l,
           order' = [order EXCEPT ![ShardOf[k]] = l],
           ProperList(ShardOf[k], l, usedSince'),
           \A j \in Keys : ShardOf[j] # ShardOf[k] => usedSince'[j] = usedSince[j],
           usedSince' \in [Keys -> SUBSET Keys],
           \A j \in Keys : IsFiniteSet(usedSince'[j]),
           clock' = clock,
           entries' \in Table,
           promised' \in Table,
           \A j \in Keys : ShardOf[j] # ShardOf[k] =>
               entries'[j] = entries[j] /\ promised'[j] = promised[j],
           \A j \in Keys : ShardOf[j] = ShardOf[k] => Accounted(j, l)
    PROVE  MemIInv'
<1> DEFINE s == ShardOf[k]
<1>1. s \in Shards /\ \A j \in Keys : ShardOf[j] \in Shards
  BY DEF TtlCacheAssumption
<1>2. /\ order \in [Shards -> Seq(Keys)] /\ entries \in Table
      /\ usedSince \in [Keys -> SUBSET Keys]
  BY DEF MemIInv, MemTypeOK, Table
<1>3. l \in Seq(Keys) /\ order'[s] = l /\ \A t \in Shards \ {s} : order'[t] = order[t]
  BY <1>1, <1>2 DEF ProperList
<1>4. ASSUME NEW t \in Shards PROVE ProperList(t, order'[t], usedSince')
  <2>1. CASE t = s
    BY <1>3, <2>1
  <2>2. CASE t # s
    <3>1. ProperList(t, order[t], usedSince)
      BY DEF MemIInv, Lists
    <3>2. \A i \in DOMAIN order[t] : order[t][i] \in Keys /\ ShardOf[order[t][i]] = t
      BY <1>2, <3>1, Members DEF ProperList
    <3>3. \A i \in DOMAIN order[t] : usedSince'[order[t][i]] = usedSince[order[t][i]]
      BY <2>2, <3>2
    <3> QED
      BY <1>3, <2>2, <3>1, <3>3 DEF ProperList
  <2> QED
    BY <2>1, <2>2
<1>5. Lists'
  BY <1>4 DEF Lists, ProperList, PerShard
<1>6. /\ Held(s)' = ToSet(l)
      /\ \A t \in Shards \ {s} : Held(t)' = Held(t)
  BY <1>1, <1>3 DEF Held, ToSet
<1>7. MemTypeOK'
  <2>1. order' \in [Shards -> Seq(Keys)]
    BY <1>1, <1>2, <1>3
  <2>2. ASSUME NEW t \in Shards
        PROVE  IsInjective(order'[t]) /\ \A j \in ToSet(order'[t]) : ShardOf[j] = t
    BY <1>4 DEF ProperList, ToSet
  <2>3. ASSUME NEW j \in Keys
        PROVE  IF j \in Held(ShardOf[j])' THEN entries'[j] \in Item
               ELSE entries'[j] = NoItem
    <3>1. CASE ShardOf[j] = s
      BY <1>6, <3>1 DEF Accounted
    <3>2. CASE ShardOf[j] # s
      <4>1. IF j \in Held(ShardOf[j]) THEN entries[j] \in Item
            ELSE entries[j] = NoItem
        BY DEF MemIInv, MemTypeOK
      <4> QED
        BY <1>1, <1>6, <3>2, <4>1
    <3> QED
      BY <3>1, <3>2
  <2> QED
    BY <2>1, <2>2, <2>3 DEF MemIInv, MemTypeOK, Held, Table
<1>8. Kept'
  BY <1>1, <1>6 DEF MemIInv, Kept, Accounted
<1>9. Evicted'
  BY <1>1, <1>6 DEF MemIInv, Evicted, PerShard, Accounted
<1> QED
  BY <1>5, <1>7, <1>8, <1>9 DEF MemIInv

(* The place of a key in its list. *)
LEMMA TakenOut ==
    ASSUME MemIInv, NEW k \in Keys, k \in Held(ShardOf[k])
    PROVE  LET s == ShardOf[k] IN
           /\ ProperList(s, Without(s, k), usedSince)
           /\ ToSet(Without(s, k)) = Held(s) \ {k}
           /\ Len(Without(s, k)) < PerShard
<1> DEFINE l == order[ShardOf[k]]
           i == CHOOSE h \in DOMAIN l : l[h] = k
<1>1. /\ PerShard \in Nat /\ ProperList(ShardOf[k], l, usedSince)
      /\ Held(ShardOf[k]) = ToSet(l)
  BY HeldIsListed
<1>2. i \in DOMAIN l /\ l[i] = k
  BY <1>1 DEF ToSet
<1>3. Len(l) \in Nat /\ Len(l) <= PerShard
  BY <1>1, Members DEF ProperList
<1>4. Without(ShardOf[k], k) = RemoveAt(l, i)
  BY DEF Without
<1> HIDE DEF l, i
<1> QED
  BY <1>1, <1>2, <1>3, <1>4, WithoutOne

(* Use only ever adds to what was used since another key was. *)
LEMMA UseGrows ==
    ASSUME MemIInv, NEW k \in Keys, Use(k)
    PROVE  /\ usedSince' \in [Keys -> SUBSET Keys]
           /\ \A j \in Keys : IsFiniteSet(usedSince'[j])
           /\ \A j \in Keys \ {k} :
                 /\ usedSince[j] \subseteq usedSince'[j]
                 /\ IF ShardOf[j] = ShardOf[k] THEN k \in usedSince'[j]
                    ELSE usedSince'[j] = usedSince[j]
                 /\ PerShard <= Cardinality(usedSince[j]) =>
                       PerShard <= Cardinality(usedSince'[j])
<1>1. usedSince \in [Keys -> SUBSET Keys] /\ \A j \in Keys : IsFiniteSet(usedSince[j])
  BY DEF MemIInv, MemTypeOK
<1>2. PerShard \in Nat
  BY PerShardType
<1>3. usedSince' \in [Keys -> SUBSET Keys]
  BY <1>1 DEF Use
<1>4. ASSUME NEW j \in Keys
      PROVE  IsFiniteSet(usedSince'[j])
  <2>1. CASE j = k
    BY <2>1, FS_EmptySet DEF Use
  <2>2. CASE j # k
    <3>1. usedSince'[j] = usedSince[j] \/ usedSince'[j] = usedSince[j] \cup {k}
      BY <2>2 DEF Use
    <3>2. IsFiniteSet(usedSince[j]) /\ IsFiniteSet(usedSince[j] \cup {k})
      BY <1>1, FS_AddElement
    <3> QED
      BY <3>1, <3>2
  <2> QED
    BY <2>1, <2>2
<1>5. ASSUME NEW j \in Keys \ {k}
      PROVE  /\ usedSince[j] \subseteq usedSince'[j]
             /\ IF ShardOf[j] = ShardOf[k] THEN k \in usedSince'[j]
                ELSE usedSince'[j] = usedSince[j]
  BY <1>5 DEF Use
<1>6. ASSUME NEW j \in Keys \ {k}, PerShard <= Cardinality(usedSince[j])
      PROVE  PerShard <= Cardinality(usedSince'[j])
  <2>1. /\ Cardinality(usedSince[j]) <= Cardinality(usedSince'[j])
    BY <1>4, <1>5, FS_Subset
  <2>2. Cardinality(usedSince[j]) \in Nat /\ Cardinality(usedSince'[j]) \in Nat
    BY <1>1, <1>4, FS_CardinalityType
  <2> QED
    BY <1>2, <1>6, <2>1, <2>2
<1> QED
  BY <1>3, <1>4, <1>5, <1>6

(* A key that was in its list is put in front and keeps or gets its entry. *)
LEMMA MovedToFront ==
    ASSUME MemIInv, NEW k \in Keys, k \in Held(ShardOf[k]), Use(k),
           order' = [order EXCEPT ![ShardOf[k]] = InFront(ShardOf[k], k)],
           clock' = clock, NEW e \in Item,
           entries' = [entries EXCEPT ![k] = e], promised' = [promised EXCEPT ![k] = e]
    PROVE  MemIInv'
<1> DEFINE s == ShardOf[k]
           l == Without(s, k)
<1>1. /\ ProperList(s, l, usedSince) /\ ToSet(l) = Held(s) \ {k} /\ Len(l) < PerShard
  BY TakenOut
<1>2. /\ PerShard \in Nat /\ Held(s) \subseteq Keys
      /\ \A j \in Held(s) : ShardOf[j] = s
  BY HeldIsListed
<1>3. \A j \in ToSet(l) : usedSince[j] \cup {k} \subseteq usedSince'[j]
  BY <1>1, <1>2, UseGrows
<1> HIDE DEF l
<1>4. ProperList(s, <<k>> \o l, usedSince') /\ ToSet(<<k>> \o l) = Held(s)
  <2> DEFINE w == usedSince'
             u == usedSince
  <2>1. k \notin ToSet(l) /\ \A j \in ToSet(l) : u[j] \cup {k} \subseteq w[j]
    BY <1>1, <1>3
  <2>2. ProperList(s, l, u) /\ Len(l) < PerShard /\ PerShard \in Nat /\ ShardOf[k] = s
    BY <1>1, <1>2
  <2> HIDE DEF u, w, s
  <2>3. ProperList(s, <<k>> \o l, w) /\ ToSet(<<k>> \o l) = {k} \cup ToSet(l)
    BY <2>1, <2>2, PushedFront
  <2> QED
    BY <1>1, <2>3 DEF w, s
<1>5. order' = [order EXCEPT ![s] = <<k>> \o l]
  BY DEF InFront, l
<1>6. /\ entries \in Table /\ promised \in Table
  BY DEF MemIInv, MemTypeOK, Table
<1>7. ASSUME NEW j \in Keys, ShardOf[j] = s
      PROVE  Accounted(j, <<k>> \o l)
  <2>1. CASE j = k
    BY <1>4, <1>6, <2>1 DEF Table, Accounted
  <2>2. CASE j # k
    <3>1. entries'[j] = entries[j] /\ promised'[j] = promised[j]
      BY <1>6, <2>2
    <3>2. CASE j \in Held(s)
      BY <1>4, <1>7, <3>1, <3>2 DEF MemIInv, MemTypeOK, Kept, Accounted
    <3>3. CASE j \notin Held(s)
      <4>1. entries[j] = NoItem
        BY <1>7, <3>3 DEF MemIInv, MemTypeOK
      <4>2. promised[j] # NoItem /\ clock <= promised[j].expires =>
               PerShard <= Cardinality(usedSince[j])
        BY <1>7, <3>3 DEF MemIInv, Evicted
      <4> QED
        BY <1>4, <2>2, <3>1, <3>3, <4>1, <4>2, UseGrows DEF Accounted
    <3> QED
      BY <3>2, <3>3
  <2> QED
    BY <2>1, <2>2
<1>8. \A j \in Keys : ShardOf[j] # s =>
        /\ usedSince'[j] = usedSince[j]
        /\ entries'[j] = entries[j] /\ promised'[j] = promised[j]
  BY <1>6, UseGrows
<1>9. entries' \in Table /\ promised' \in Table
  BY <1>6 DEF Table
<1>10. usedSince' \in [Keys -> SUBSET Keys] /\ \A j \in Keys : IsFiniteSet(usedSince'[j])
  BY UseGrows
<1> DEFINE front == <<k>> \o l
<1> HIDE DEF s, front
<1> QED
  BY <1>4, <1>5, <1>7, <1>8, <1>9, <1>10, ListStep DEF s, front

(* A key is removed; if it is still promised its time is up.               *)
LEMMA Removed ==
    ASSUME MemIInv, NEW k \in Keys, k \in Held(ShardOf[k]),
           RemoveLocked(k), usedSince' = usedSince, clock' = clock,
           promised' = promised \/ promised' = [promised EXCEPT ![k] = NoItem],
           promised'[k] = NoItem \/ ~(clock <= promised'[k].expires)
    PROVE  MemIInv'
<1> DEFINE s == ShardOf[k]
           l == Without(s, k)
<1>1. /\ ProperList(s, l, usedSince) /\ ToSet(l) = Held(s) \ {k}
  BY TakenOut
<1> HIDE DEF l
<1>2. order' = [order EXCEPT ![s] = l] /\ entries' = [entries EXCEPT ![k] = NoItem]
  BY DEF RemoveLocked, l
<1>3. /\ entries \in Table /\ promised \in Table
      /\ usedSince \in [Keys -> SUBSET Keys] /\ \A j \in Keys : IsFiniteSet(usedSince[j])
  BY DEF MemIInv, MemTypeOK, Table
<1>4. /\ entries' \in Table /\ promised' \in Table
  BY <1>2, <1>3 DEF Table
<1>5. \A j \in Keys \ {k} : entries'[j] = entries[j] /\ promised'[j] = promised[j]
  BY <1>2, <1>3 DEF Table
<1>6. ASSUME NEW j \in Keys, ShardOf[j] = s
      PROVE  Accounted(j, l)
  <2>1. CASE j = k
    BY <1>1, <1>2, <1>3, <2>1 DEF Table, Accounted
  <2>2. CASE j # k /\ j \in Held(s)
    BY <1>1, <1>5, <1>6, <2>2 DEF MemIInv, MemTypeOK, Kept, Accounted
  <2>3. CASE j # k /\ j \notin Held(s)
    <3>1. entries[j] = NoItem
      BY <1>6, <2>3 DEF MemIInv, MemTypeOK
    <3>2. promised[j] # NoItem /\ clock <= promised[j].expires =>
             PerShard <= Cardinality(usedSince[j])
      BY <1>6, <2>3 DEF MemIInv, Evicted
    <3> QED
      BY <1>1, <1>5, <2>3, <3>1, <3>2 DEF Accounted
  <2> QED
    BY <2>1, <2>2, <2>3
<1>7. \A j \in Keys : ShardOf[j] # s =>
        /\ usedSince'[j] = usedSince[j]
        /\ entries'[j] = entries[j] /\ promised'[j] = promised[j]
  BY <1>5
<1>8. ProperList(s, l, usedSince')
  BY <1>1
<1> HIDE DEF s
<1> QED
  BY <1>2, <1>3, <1>4, <1>6, <1>7, <1>8, ListStep DEF s

(* Another key is put in front; in a full shard the last one goes.         *)
LEMMA Inserted ==
    ASSUME MemIInv, NEW k \in Keys, NEW e \in Item,
           Insert(k, e), Use(k), clock' = clock, promised' = [promised EXCEPT ![k] = e]
    PROVE  MemIInv'
<1> DEFINE s == ShardOf[k]
           full == Len(order[s]) >= PerShard
           l == IF full THEN Front(order[s]) ELSE order[s]
           gone == Last(order[s])
<1>1. /\ PerShard \in Nat \ {0} /\ s \in Shards
      /\ ProperList(s, order[s], usedSince)
      /\ Held(s) = ToSet(order[s]) /\ Held(s) \subseteq Keys
      /\ \A j \in Held(s) : ShardOf[j] = s
      /\ Len(order[s]) \in Nat /\ Len(order[s]) <= PerShard
  <2>1. /\ PerShard \in Nat \ {0} /\ s \in Shards
        /\ ProperList(s, order[s], usedSince)
        /\ Held(s) = ToSet(order[s]) /\ Held(s) \subseteq Keys
        /\ \A j \in Held(s) : ShardOf[j] = s
    BY HeldIsListed
  <2> QED
    BY <2>1, Members DEF ProperList
<1>2. k \notin Held(s)
  BY DEF Insert
<1>3. full => order[s] # <<>>
  BY <1>1
<1>4. /\ ProperList(s, l, usedSince) /\ Len(l) < PerShard
      /\ ToSet(l) = Held(s) \ (IF full THEN {gone} ELSE {})
      /\ full => gone \in Held(s)
  <2>1. CASE full
    <3>1. /\ ProperList(s, Front(order[s]), usedSince)
          /\ Len(Front(order[s])) = Len(order[s]) - 1
          /\ gone \in ToSet(order[s])
          /\ ToSet(Front(order[s])) = ToSet(order[s]) \ {gone}
      BY <1>1, <1>3, <2>1, CutLast
    <3> QED
      BY <1>1, <2>1, <3>1
  <2>2. CASE ~full
    BY <1>1, <2>2
  <2> QED
    BY <2>1, <2>2
<1>5. /\ order' = [order EXCEPT ![s] = <<k>> \o l]
      /\ entries' = [j \in Keys |->
            IF j = k THEN e ELSE IF full /\ j = gone THEN NoItem ELSE entries[j]]
  BY DEF Insert
<1>6. \A j \in ToSet(l) : usedSince[j] \cup {k} \subseteq usedSince'[j]
  BY <1>1, <1>2, <1>4, UseGrows
<1>7. full => PerShard <= Cardinality(usedSince'[gone])
  <2> SUFFICES ASSUME full PROVE PerShard <= Cardinality(usedSince'[gone])
    OBVIOUS
  <2> DEFINE W == usedSince'[gone]
             u == usedSince
             h == order[s]
  <2>1. gone \in Keys \ {k} /\ ShardOf[gone] = s
    BY <1>1, <1>2, <1>4
  <2>2. IsFiniteSet(W) /\ u[Last(h)] \cup {k} \subseteq W
    BY <2>1, UseGrows
  <2>3. /\ ProperList(s, h, u) /\ Len(h) >= PerShard /\ PerShard \in Nat \ {0}
        /\ k \notin ToSet(h)
    BY <1>1, <1>2
  <2> HIDE DEF W, u, h, s
  <2> QED
    BY <2>2, <2>3, LastMakesRoom DEF W
<1> HIDE DEF full, l, gone
<1>8. ProperList(s, <<k>> \o l, usedSince') /\ ToSet(<<k>> \o l) = {k} \cup ToSet(l)
  <2> DEFINE w == usedSince'
             u == usedSince
  <2>1. k \notin ToSet(l) /\ \A j \in ToSet(l) : u[j] \cup {k} \subseteq w[j]
    BY <1>2, <1>4, <1>6
  <2>2. ProperList(s, l, u) /\ Len(l) < PerShard /\ PerShard \in Nat /\ ShardOf[k] = s
    BY <1>1, <1>4
  <2> HIDE DEF u, w, s
  <2>3. ProperList(s, <<k>> \o l, w) /\ ToSet(<<k>> \o l) = {k} \cup ToSet(l)
    BY <2>1, <2>2, PushedFront
  <2> QED
    BY <2>3 DEF w
<1>9. /\ entries \in Table /\ promised \in Table
  BY DEF MemIInv, MemTypeOK, Table
<1>10. ASSUME NEW j \in Keys, ShardOf[j] = s
       PROVE  Accounted(j, <<k>> \o l)
  <2>1. CASE j = k
    BY <1>5, <1>8, <1>9, <2>1 DEF Table, Accounted
  <2>2. CASE j # k /\ full /\ j = gone
    BY <1>4, <1>5, <1>7, <1>8, <2>2 DEF Table, Accounted
  <2>3. CASE j # k /\ ~(full /\ j = gone)
    <3>1. entries'[j] = entries[j] /\ promised'[j] = promised[j]
      BY <1>5, <1>9, <2>3
    <3>2. j \in ToSet(<<k>> \o l) <=> j \in Held(s)
      BY <1>4, <1>8, <2>3
    <3>3. CASE j \in Held(s)
      BY <1>10, <3>1, <3>2, <3>3 DEF MemIInv, MemTypeOK, Kept, Accounted
    <3>4. CASE j \notin Held(s)
      <4>1. entries[j] = NoItem
        BY <1>10, <3>4 DEF MemIInv, MemTypeOK
      <4>2. promised[j] # NoItem /\ clock <= promised[j].expires =>
               PerShard <= Cardinality(usedSince[j])
        BY <1>10, <3>4 DEF MemIInv, Evicted
      <4> QED
        BY <2>3, <3>1, <3>2, <3>4, <4>1, <4>2, UseGrows DEF Accounted
    <3> QED
      BY <3>3, <3>4
  <2> QED
    BY <2>1, <2>2, <2>3
<1>11. \A j \in Keys : ShardOf[j] # s =>
        /\ usedSince'[j] = usedSince[j]
        /\ entries'[j] = entries[j] /\ promised'[j] = promised[j]
  BY <1>1, <1>4, <1>5, <1>9, UseGrows
<1>12. entries' \in Table /\ promised' \in Table
  BY <1>5, <1>9 DEF Table
<1>13. usedSince' \in [Keys -> SUBSET Keys] /\ \A j \in Keys : IsFiniteSet(usedSince'[j])
  BY UseGrows
<1>14. order' = [order EXCEPT ![s] = <<k>> \o l] /\ ProperList(s, <<k>> \o l, usedSince')
  BY <1>5, <1>8
<1> DEFINE front == <<k>> \o l
<1> HIDE DEF s, front
<1> QED
  BY <1>10, <1>11, <1>12, <1>13, <1>14, ListStep DEF s, front

LEMMA MemTickIInv == ASSUME MemIInv, MemTick PROVE MemIInv'
<1>1. /\ order' = order /\ entries' = entries /\ promised' = promised /\ usedSince' = usedSince
      /\ clock \in 0 .. MaxClock /\ clock' = clock + 1 /\ clock' \in 0 .. MaxClock
  BY DEF MemTick, MemIInv, MemTypeOK, TtlCacheAssumption
<1>2. \A s \in Shards : Held(s)' = Held(s)
  BY <1>1 DEF Held, ToSet
<1>3. \A k \in Keys : ShardOf[k] \in Shards
  BY DEF TtlCacheAssumption
<1>4. MemTypeOK' /\ Lists' /\ Kept'
  BY <1>1, <1>2, <1>3 DEF MemIInv, MemTypeOK, Lists, ProperList, Kept,
                          PerShard, Held, ToSet
<1>5. Evicted'
  <2> SUFFICES ASSUME NEW k \in Keys, k \notin Held(ShardOf[k])',
                      promised'[k] # NoItem, clock' <= promised'[k].expires
               PROVE  PerShard <= Cardinality(usedSince'[k])
    BY DEF Evicted, PerShard
  <2>1. promised[k] \in Item
    BY <1>1 DEF MemIInv, MemTypeOK
  <2>2. clock <= promised[k].expires
    BY <1>1, <2>1 DEF Item
  <2> QED
    BY <1>1, <1>2, <1>3, <2>2 DEF MemIInv, Evicted
<1> QED
  BY <1>4, <1>5 DEF MemIInv

LEMMA MemStepIInv == MemIInv /\ [MemNext]_memVars => MemIInv'
<1> SUFFICES ASSUME MemIInv, [MemNext]_memVars PROVE MemIInv'
  OBVIOUS
<1>1. CASE UNCHANGED memVars
  <2>1. /\ order' = order /\ entries' = entries /\ promised' = promised
        /\ usedSince' = usedSince /\ clock' = clock
    BY <1>1 DEF memVars
  <2> QED
    BY <2>1 DEF MemIInv, MemTypeOK, Lists, ProperList, Kept, Evicted,
                PerShard, Held, ToSet
<1>2. ASSUME NEW k \in Keys, Hit(k) PROVE MemIInv'
  <2>1. /\ k \in Held(ShardOf[k]) /\ Use(k)
        /\ clock' = clock /\ entries' = entries /\ promised' = promised
        /\ order' = [order EXCEPT ![ShardOf[k]] = InFront(ShardOf[k], k)]
    BY <1>2 DEF Hit, Live
  <2>2. entries[k] \in Item /\ entries[k] = promised[k]
    BY <2>1 DEF MemIInv, MemTypeOK, Kept
  <2>3. /\ entries \in Table /\ promised \in Table
    BY DEF MemIInv, MemTypeOK, Table
  <2>4. /\ entries' = [entries EXCEPT ![k] = entries[k]]
        /\ promised' = [promised EXCEPT ![k] = entries[k]]
    BY <2>1, <2>2, <2>3 DEF Table
  <2> QED
    BY <2>1, <2>2, <2>4, MovedToFront
<1>3. ASSUME NEW k \in Keys, ExpiredMiss(k) PROVE MemIInv'
  <2>1. /\ k \in Held(ShardOf[k]) /\ RemoveLocked(k) /\ usedSince' = usedSince
        /\ clock' = clock /\ promised' = promised /\ ~(clock <= entries[k].expires)
    BY <1>3 DEF ExpiredMiss, Live
  <2>2. entries[k] = promised[k]
    BY <2>1 DEF MemIInv, Kept
  <2> QED
    BY <2>1, <2>2, Removed
<1>4. ASSUME NEW k \in Keys, Delete(k) PROVE MemIInv'
  <2>1. /\ k \in Held(ShardOf[k]) /\ RemoveLocked(k) /\ usedSince' = usedSince
        /\ clock' = clock /\ promised' = [promised EXCEPT ![k] = NoItem]
    BY <1>4 DEF Delete
  <2>2. promised'[k] = NoItem
    BY <2>1 DEF MemIInv, MemTypeOK
  <2> QED
    BY <2>1, <2>2, Removed
<1>5. ASSUME NEW k \in Keys, NEW value \in Values, NEW ttl \in TTLs, Set(k, value, ttl)
      PROVE  MemIInv'
  <2> DEFINE e == [value |-> value, expires |-> clock + ttl]
  <2>1. e \in Item
    BY DEF Item, MemIInv, MemTypeOK, TtlCacheAssumption
  <2>2. /\ Replace(k, e) \/ Insert(k, e)
        /\ promised' = [promised EXCEPT ![k] = e] /\ Use(k) /\ clock' = clock
    BY <1>5 DEF Set
  <2> HIDE DEF e
  <2>3. CASE Replace(k, e)
    BY <2>1, <2>2, <2>3, MovedToFront DEF Replace
  <2>4. CASE Insert(k, e)
    BY <2>1, <2>2, <2>4, Inserted
  <2> QED
    BY <2>2, <2>3, <2>4
<1> QED
  BY <1>1, <1>2, <1>3, <1>4, <1>5, MemTickIInv DEF MemNext

-----------------------------------------------------------------------------
(* The lists stay proper, whatever was evicted, replaced, removed or moved *)
(* in between, and only a full shard drops what was promised (Get, Set).   *)
THEOREM MemInvariance == MemSpec => []MemIInv
<1>1. MemInit => MemIInv
  BY MemInitIInv
<1>2. MemIInv /\ [MemNext]_memVars => MemIInv'
  BY MemStepIInv
<1> QED
  BY <1>1, <1>2, PTL DEF MemSpec

(* The lists and the entries stay in step: a shard's list has its own      *)
(* keys, each once, and exactly those have an entry (removeLocked, Set).   *)
THEOREM MemTypeCorrect == MemSpec => []MemTypeOK
<1>1. MemIInv => MemTypeOK
  BY DEF MemIInv
<1>2. MemSpec => []MemIInv
  BY MemInvariance
<1> QED
  BY <1>1, <1>2, PTL

(* What is found is what was last set, for any keys, shards and capacity   *)
(* (Get, Set, Delete).                                                     *)
THEOREM FindsWhatWasSet == MemSpec => []FoundIsWhatWasSet
<1>1. MemIInv => FoundIsWhatWasSet
  BY DEF MemIInv, Kept, FoundIsWhatWasSet, Live
<1>2. MemSpec => []MemIInv
  BY MemInvariance
<1> QED
  BY <1>1, <1>2, PTL

(* A key in use is kept (the order of the list, Set's eviction).           *)
THEOREM KeepsWorkingSet == MemSpec => []WorkingSetIsKept
<1>1. MemIInv => WorkingSetIsKept
  <2> SUFFICES ASSUME MemIInv, NEW k \in Keys,
                      promised[k] # NoItem, clock <= promised[k].expires,
                      Cardinality(usedSince[k]) < PerShard
               PROVE  Live(k)
    BY DEF WorkingSetIsKept
  <2>1. PerShard \in Nat /\ Cardinality(usedSince[k]) \in Nat
    BY PerShardType, FS_CardinalityType DEF MemIInv, MemTypeOK
  <2>2. k \in Held(ShardOf[k])
    BY <2>1 DEF MemIInv, Evicted
  <2> QED
    BY <2>2 DEF MemIInv, Kept, Live
<1>2. MemSpec => []MemIInv
  BY MemInvariance
<1> QED
  BY <1>1, <1>2, PTL

(* With a place for every shard the cache holds no more than its capacity  *)
(* (NewTTL, and config.go:189, which asks for sixteen).                    *)
THEOREM StaysWithinCapacity ==
    ASSUME Cardinality(Shards) <= Capacity
    PROVE  MemSpec => []CapacityHolds
<1>1. MemIInv => CapacityHolds
  <2> SUFFICES ASSUME MemIInv PROVE CapacityHolds
    OBVIOUS
  <2> DEFINE H == {k \in Keys : k \in Held(ShardOf[k])}
             P == 1 .. PerShard
             At(k) == CHOOSE i \in DOMAIN order[ShardOf[k]] : order[ShardOf[k]][i] = k
             f == [k \in H |-> <<ShardOf[k], At(k)>>]
  <2>1. PerShard \in Nat \ {0}
    BY PerShardType
  <2>2. ASSUME NEW k \in H
        PROVE  ShardOf[k] \in Shards /\ At(k) \in P /\ order[ShardOf[k]][At(k)] = k
    <3>1. /\ ShardOf[k] \in Shards /\ ProperList(ShardOf[k], order[ShardOf[k]], usedSince)
      BY HeldIsListed
    <3>2. At(k) \in DOMAIN order[ShardOf[k]] /\ order[ShardOf[k]][At(k)] = k
      BY DEF Held, ToSet
    <3> HIDE DEF At
    <3>3. DOMAIN order[ShardOf[k]] = 1 .. Len(order[ShardOf[k]])
          /\ Len(order[ShardOf[k]]) \in Nat /\ Len(order[ShardOf[k]]) <= PerShard
      BY <3>1, Members DEF ProperList
    <3> QED
      BY <2>1, <3>1, <3>2, <3>3
  <2> HIDE DEF At
  <2>3. f \in [H -> Shards \X P]
    BY <2>2
  <2>4. \A j, k \in H : f[j] = f[k] => j = k
    BY <2>2
  <2> HIDE DEF f, H
  <2>5. f \in Injection(H, Shards \X P)
    BY <2>3, <2>4 DEF Injection, IsInjective
  <2>6. /\ IsFiniteSet(Shards \X P)
        /\ Cardinality(Shards \X P) = Cardinality(Shards) * PerShard
    <3>1. IsFiniteSet(P) /\ Cardinality(P) = PerShard
      BY <2>1, FS_Interval
    <3> QED
      BY <3>1, FS_Product DEF TtlCacheAssumption
  <2>7. IsFiniteSet(H) /\ Cardinality(H) <= Cardinality(Shards \X P)
    BY <2>5, <2>6, FS_Injection
  <2>8. Cardinality(Shards) * PerShard <= Capacity
    BY SharesFit
  <2>9. Cardinality(H) \in Nat /\ Cardinality(Shards \X P) \in Nat /\ Capacity \in Nat
    BY <2>6, <2>7, FS_CardinalityType DEF TtlCacheAssumption
  <2>10. Cardinality(H) <= Capacity
    BY <2>6, <2>7, <2>8, <2>9
  <2> QED
    BY <2>10 DEF CapacityHolds, H
<1>2. MemSpec => []MemIInv
  BY MemInvariance
<1> QED
  BY <1>1, <1>2, PTL

(* Each key by itself is the local tier that PollCache assumes, whatever   *)
(* the others do to the lists (Get, Set, Delete).                          *)
THEOREM IsLocalTier == MemSpec => ActsAsLocalTier
<1>1. ASSUME MemTypeOK, MemTypeOK', [MemNext]_memVars
      PROVE  [\A k \in Keys : EntryStep(k)]_memVars
  <2> SUFFICES ASSUME MemNext, NEW k \in Keys PROVE EntryStep(k)
    BY <1>1
  (* A key that is not held has no entry, so lists do not matter. *)
  <2> DEFINE Seen(e, t) == IF t <= e.expires THEN e ELSE NoItem
  <2>1. Found(k) = Seen(entries[k], clock) /\ Found(k)' = Seen(entries'[k], clock')
    BY <1>1 DEF Found, Live, MemTypeOK, NoItem
  <2>2. ASSUME clock' = clock, entries'[k] \in {entries[k], NoItem} PROVE EntryStep(k)
    BY <2>1, <2>2 DEF EntryStep, NoItem
  <2>3. CASE MemTick
    BY <1>1, <2>1, <2>3 DEF MemTick, EntryStep, NoItem, MemTypeOK, Item
  <2>4. ASSUME NEW j \in Keys, Hit(j) \/ ExpiredMiss(j) \/ Delete(j)
        PROVE  EntryStep(k)
    BY <1>1, <2>2, <2>4 DEF Hit, ExpiredMiss, Delete, RemoveLocked, MemTypeOK
  <2>5. ASSUME NEW j \in Keys, NEW value \in Values, NEW ttl \in TTLs, Set(j, value, ttl)
        PROVE  EntryStep(k)
    <3> DEFINE new == [value |-> value, expires |-> clock + ttl]
    <3>1. clock' = clock /\ (Replace(j, new) \/ Insert(j, new))
      BY <2>5 DEF Set
    <3>2. CASE j = k
      <4>1. entries'[k] = new
        BY <1>1, <3>1, <3>2 DEF Replace, Insert, MemTypeOK
      <4>2. Seen(new, clock) = new
        BY <1>1 DEF MemTypeOK, TtlCacheAssumption
      <4> QED
        BY <2>1, <2>5, <3>1, <3>2, <4>1, <4>2 DEF EntryStep
    <3>3. CASE j # k
      <4>1. entries'[k] \in {entries[k], NoItem}
        BY <1>1, <3>1, <3>3 DEF Replace, Insert, MemTypeOK
      <4> QED
        BY <2>2, <3>1, <4>1
    <3> QED
      BY <3>2, <3>3
  <2> QED
    BY <2>3, <2>4, <2>5 DEF MemNext
<1>2. MemSpec => []MemTypeOK
  BY MemTypeCorrect
<1> QED
  BY <1>1, <1>2, PTL DEF MemSpec, ActsAsLocalTier
=============================================================================
