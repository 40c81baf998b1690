-------------------------- MODULE HealthProbeProofs --------------------------
(***************************************************************************)
(* Proofs about HealthProbe: for any number of concurrent probes and any   *)
(* timeouts, one probe at a time asks the dependencies, ready means that   *)
(* Redis answered within PROBE_TIMEOUT and PROBE_CACHE_FOR, and unready    *)
(* that it was down within the horizon or a client was gone.               *)
(***************************************************************************)
EXTENDS HealthProbe, TLAPS

(* What the probe q knows of Redis, e after it began to ask, with the      *)
(* attempt a: one that need not be answered met Redis down since it was    *)
(* sent, and it was sent no longer ago than e, as long as e is counted.    *)
(* Afterwards Redis has answered, was down, or q's client had gone, and    *)
(* then, as after PROBE_TIMEOUT, no time passes until the report is made.  *)
Knows(q, e, s, a) ==
    /\ q.pc = "redis" =>
          /\ q.failed = {}
          /\ a.age <= e \/ e = ProbeTimeout
          /\ a.lost => s["down"] <= a.age
    /\ q.pc \in {"postgres", "publish"} =>
          /\ "redis" \notin q.failed => s["up"] <= e
          /\ "redis" \in q.failed =>
                \/ s["down"] <= e
                \/ e = ProbeTimeout /\ s["down"] <= RedisTimeout
                \/ ~q.connected /\ s["gone"] = 0

MutualExclusion == \A p, q \in Probes : Evaluating(p) /\ Evaluating(q) => p = q

(* Redis is up or down now. *)
Present == since[IF up["redis"] THEN "up" ELSE "down"] = 0

(* The report is as true as it was, but for its age. *)
Reported ==
    cacheAge < CacheFor =>
        /\ "redis" \notin cached => since["up"] <= ProbeTimeout + cacheAge
        /\ "redis" \in cached =>
              since["down"] <= Slowest + cacheAge \/ since["gone"] <= cacheAge

IInv ==
    /\ TypeOK
    /\ MutualExclusion
    /\ Present
    /\ Reported
    /\ \A p \in Probes : Knows(probe[p], elapsed, since, attempt)

USE ProbeAssumption

-----------------------------------------------------------------------------
LEMMA Fields ==
    ASSUME TypeOK
    PROVE  /\ elapsed \in Nat /\ elapsed <= ProbeTimeout
           /\ cacheAge \in Nat /\ cacheAge <= CacheFor
           /\ \A e \in Events : since[e] \in Nat /\ since[e] <= Horizon + 1
           /\ Horizon \in Nat /\ Horizon = Slowest + CacheFor
           /\ Slowest \in Nat /\ ProbeTimeout <= Slowest /\ RedisTimeout <= Slowest
           /\ attempt.age \in Nat /\ attempt.age <= RedisTimeout /\ attempt.lost \in BOOLEAN
           /\ \A p \in Probes :
                 /\ probe[p] \in Probe
                 /\ probe[p].connected \in BOOLEAN /\ probe[p].failed \subseteq Dependencies
  BY DEF TypeOK, Horizon, Slowest, Probe, Attempt

LEMMA AttemptFields ==
    /\ NoAttempt \in Attempt
    /\ TypeOK => NewAttempt \in Attempt /\ NewAttempt.age = 0
  BY DEF NoAttempt, NewAttempt, Attempt, TypeOK, Dependencies

(* An attempt that is lost when it is sent meets Redis down.               *)
LEMMA LostMeansDown == ASSUME IInv, NewAttempt.lost PROVE since["down"] = 0
  BY DEF IInv, TypeOK, Dependencies, Present, NewAttempt

LEMMA NewProbeFields == NewProbe \in Probe /\ NewProbe.pc = "idle"
  BY DEF NewProbe, Probe, Dependencies

LEMMA InitIInv == Init => IInv
<1> SUFFICES ASSUME Init PROVE IInv
  OBVIOUS
<1>1. Horizon \in Nat
  BY DEF Horizon, Slowest
<1>2. TypeOK
  BY <1>1, NewProbeFields, AttemptFields DEF Init, TypeOK, Dependencies, Events
<1>3. Present
  BY DEF Init, Present, Events, Dependencies
<1>4. \A p \in Probes : probe[p].pc = "idle"
  BY NewProbeFields DEF Init
<1>5. MutualExclusion /\ \A p \in Probes : Knows(probe[p], elapsed, since, attempt)
  BY <1>4 DEF MutualExclusion, Evaluating, Knows
<1> QED
  BY <1>2, <1>3, <1>5 DEF Init, IInv, Reported

(* One probe moves and nothing else does, except that a client may be      *)
(* found gone, and that the attempt is the business of the one who asks.   *)
LEMMA ProbeStep ==
    ASSUME IInv, NEW p \in Probes,
           UNCHANGED <<up, elapsed, cached, cacheAge>>,
           since' = since \/ since' = [since EXCEPT !.gone = 0],
           attempt' = attempt \/ (Evaluating(p) /\ attempt' \in Attempt),
           probe' \in [Probes -> Probe], \A q \in Probes \ {p} : probe'[q] = probe[q],
           probe'[p].pc \in {"redis", "postgres", "publish"} => Evaluating(p),
           Knows(probe'[p], elapsed, since', attempt')
    PROVE  IInv'
<1>1. /\ since' \in [Events -> 0 .. Horizon + 1]
      /\ since'["up"] = since["up"] /\ since'["down"] = since["down"]
      /\ since'["gone"] = since["gone"] \/ since'["gone"] = 0
  BY Fields DEF IInv, TypeOK, Events
<1>2. TypeOK'
  BY <1>1 DEF IInv, TypeOK
<1>3. MutualExclusion'
  <2>1. \A q \in Probes : Evaluating(q)' => Evaluating(q)
    BY DEF Evaluating
  <2> QED
    BY <2>1 DEF IInv, MutualExclusion
<1>4. Present'
  BY <1>1 DEF IInv, Present
<1>5. Reported'
  BY <1>1, Fields DEF IInv, Reported, Events
<1>6. ASSUME NEW q \in Probes PROVE Knows(probe'[q], elapsed', since', attempt')
  <2>1. CASE q = p
    BY <2>1
  <2>2. CASE q # p
    <3>1. Knows(probe[q], elapsed, since, attempt)
      BY DEF IInv
    <3>2. CASE attempt' = attempt
      BY <1>1, <2>2, <3>1, <3>2 DEF Knows
    <3>3. CASE Evaluating(p)
      BY <2>2, <3>3 DEF IInv, MutualExclusion, Evaluating, Knows
    <3> QED
      BY <3>2, <3>3
  <2> QED
    BY <2>1, <2>2
<1> QED
  BY <1>2, <1>3, <1>4, <1>5, <1>6 DEF IInv

(* A probe that holds no lock knows nothing yet. *)
LEMMA QueueStep ==
    ASSUME IInv, NEW p \in Probes, UNCHANGED <<up, elapsed, attempt, cached, ages>>,
           NEW c \in Probe, probe' = [probe EXCEPT ![p] = c],
           c.pc \notin {"redis", "postgres", "publish"}
    PROVE  IInv'
<1>1. /\ probe' \in [Probes -> Probe] /\ probe'[p] = c
      /\ \A q \in Probes \ {p} : probe'[q] = probe[q]
  BY DEF IInv, TypeOK
<1>2. Knows(probe'[p], elapsed, since', attempt')
  BY <1>1 DEF Knows
<1> QED
  BY <1>1, <1>2, ProbeStep DEF ages

LEMMA ArriveIInv == ASSUME IInv, NEW p \in Probes, Arrive(p) PROVE IInv'
<1> DEFINE c == [probe[p] EXCEPT !.pc = "waiting"]
<1>1. c \in Probe /\ c.pc = "waiting"
  BY DEF IInv, TypeOK, Probe
<1>2. probe' = [probe EXCEPT ![p] = c] /\ UNCHANGED <<up, elapsed, attempt, cached, ages>>
  BY DEF Arrive
<1> HIDE DEF c
<1> QED
  BY <1>1, <1>2, QueueStep

LEMMA StatusFields == ASSUME NEW failed PROVE Status(failed) \in {"ready", "unready"}
  BY DEF Status

LEMMA AnswerFromCacheIInv ==
    ASSUME IInv, NEW p \in Probes, AnswerFromCache(p) PROVE IInv'
<1> DEFINE c == [probe[p] EXCEPT !.pc = Status(cached), !.failed = cached]
<1>1. c \in Probe /\ c.pc \in {"ready", "unready"}
  BY StatusFields DEF IInv, TypeOK, Probe
<1>2. probe' = [probe EXCEPT ![p] = c] /\ UNCHANGED <<up, elapsed, attempt, cached, ages>>
  BY DEF AnswerFromCache, IInv, TypeOK, Probe
<1> HIDE DEF c
<1> QED
  BY <1>1, <1>2, QueueStep

LEMMA AgainIInv == ASSUME IInv, NEW p \in Probes, Again(p) PROVE IInv'
  BY NewProbeFields, QueueStep DEF Again

LEMMA DisconnectIInv == ASSUME IInv, NEW p \in Probes, Disconnect(p) PROVE IInv'
<1> DEFINE c == [probe[p] EXCEPT !.connected = FALSE]
<1>1. /\ c \in Probe /\ c.pc = probe[p].pc /\ c.failed = probe[p].failed
      /\ ~c.connected /\ probe[p].connected
  BY DEF Disconnect, IInv, TypeOK, Probe
<1>2. probe' = [probe EXCEPT ![p] = c] /\ UNCHANGED <<up, elapsed, attempt, cached, ages>>
  BY DEF Disconnect
<1> HIDE DEF c
<1>3. /\ probe' \in [Probes -> Probe] /\ probe'[p] = c
      /\ \A q \in Probes \ {p} : probe'[q] = probe[q]
  BY <1>1, <1>2 DEF IInv, TypeOK
<1>4. Knows(c, elapsed, since, attempt)
  BY <1>1 DEF IInv, Knows
<1> QED
  BY <1>1, <1>2, <1>3, <1>4, ProbeStep DEF ages, Evaluating

(* The lock is free: whoever takes it is the only one to know anything.    *)
LEMMA LockStep ==
    ASSUME IInv, NEW p \in Probes, ~Locked, UNCHANGED <<up, cached, cacheAge>>,
           elapsed' = 0, attempt' \in Attempt,
           since' = since \/ since' = [since EXCEPT !.gone = 0],
           NEW c \in Probe, probe' = [probe EXCEPT ![p] = c],
           Knows(c, elapsed', since', attempt')
    PROVE  IInv'
<1>1. /\ probe' \in [Probes -> Probe] /\ probe'[p] = c
      /\ \A q \in Probes \ {p} : probe'[q] = probe[q]
      /\ \A q \in Probes : ~Evaluating(q)
  BY DEF IInv, TypeOK, Locked
<1>2. /\ since' \in [Events -> 0 .. Horizon + 1]
      /\ since'["up"] = since["up"] /\ since'["down"] = since["down"]
      /\ since'["gone"] = since["gone"] \/ since'["gone"] = 0
  BY Fields DEF IInv, TypeOK, Events
<1>3. TypeOK'
  BY <1>1, <1>2 DEF IInv, TypeOK
<1>4. MutualExclusion'
  BY <1>1 DEF MutualExclusion, Evaluating
<1>5. Present' /\ Reported'
  BY <1>2, Fields DEF IInv, Present, Reported, Events
<1>6. ASSUME NEW q \in Probes PROVE Knows(probe'[q], elapsed', since', attempt')
  <2>1. CASE q = p
    BY <1>1, <2>1
  <2>2. CASE q # p
    BY <1>1, <2>2 DEF Knows, Evaluating
  <2> QED
    BY <2>1, <2>2
<1> QED
  BY <1>3, <1>4, <1>5, <1>6 DEF IInv

LEMMA StartIInv == ASSUME IInv, NEW p \in Probes, Start(p) PROVE IInv'
<1> DEFINE c == [probe[p] EXCEPT !.pc = "redis", !.failed = {}]
<1>1. c \in Probe /\ c.pc = "redis" /\ c.failed = {}
  BY DEF IInv, TypeOK, Probe
<1>2. /\ ~Locked /\ probe' = [probe EXCEPT ![p] = c] /\ elapsed' = 0
      /\ attempt' = NewAttempt /\ UNCHANGED <<up, cached, cacheAge>> /\ since' = since
  BY DEF Start, ages, IInv, TypeOK, Probe
<1> HIDE DEF c
<1>3. /\ attempt' \in Attempt /\ attempt'.age = 0
      /\ attempt'.lost => since["down"] = 0
  BY <1>2, AttemptFields, LostMeansDown DEF IInv
<1>4. Knows(c, elapsed', since', attempt')
  BY <1>1, <1>2, <1>3 DEF Knows
<1> QED
  BY <1>1, <1>2, <1>3, <1>4, LockStep

LEMMA StartInVainIInv == ASSUME IInv, NEW p \in Probes, StartInVain(p) PROVE IInv'
<1> DEFINE c == [probe[p] EXCEPT !.pc = "publish", !.failed = Dependencies]
<1>1. /\ c \in Probe /\ c.pc = "publish" /\ c.failed = Dependencies
      /\ c.connected = probe[p].connected
  BY DEF IInv, TypeOK, Probe
<1>2. /\ ~Locked /\ probe' = [probe EXCEPT ![p] = c] /\ elapsed' = 0 /\ ~probe[p].connected
      /\ UNCHANGED <<up, attempt, cached, cacheAge>> /\ since' = [since EXCEPT !.gone = 0]
  BY DEF StartInVain, IInv, TypeOK, Probe
<1> HIDE DEF c
<1>3. since'["gone"] = 0
  BY <1>2 DEF IInv, TypeOK, Events
<1>4. Knows(c, elapsed', since', attempt')
  BY <1>1, <1>2, <1>3 DEF Knows, Dependencies
<1>5. attempt' \in Attempt
  BY <1>2 DEF IInv, TypeOK
<1> QED
  BY <1>1, <1>2, <1>4, <1>5, LockStep

(* Another attempt, which is a new one, and lost only if Redis is down.    *)
LEMMA TryAgainIInv == ASSUME IInv, NEW p \in Probes, TryAgain(p) PROVE IInv'
<1>1. /\ probe[p].pc = "redis" /\ attempt' = NewAttempt
      /\ UNCHANGED <<up, probe, elapsed, cached, cacheAge>> /\ since' = since
  BY DEF TryAgain, ages
<1>2. /\ attempt' \in Attempt /\ attempt'.age = 0
      /\ attempt'.lost => since["down"] = 0
  BY <1>1, AttemptFields, LostMeansDown DEF IInv
<1>3. Evaluating(p) /\ Knows(probe[p], elapsed, since, attempt)
  BY <1>1 DEF Evaluating, IInv
<1>4. elapsed \in Nat
  BY Fields DEF IInv
<1>5. Knows(probe'[p], elapsed, since', attempt')
  BY <1>1, <1>2, <1>3, <1>4 DEF Knows
<1>6. probe' \in [Probes -> Probe]
  BY <1>1 DEF IInv, TypeOK
<1> QED
  BY <1>1, <1>2, <1>3, <1>5, <1>6, ProbeStep

(* Redis or PostgreSQL is asked: what p knows of Redis is true then, since *)
(* it answers only while up, and does not when it was down during the last *)
(* attempt or when the client has gone.                                    *)
LEMMA AskedIInv ==
    ASSUME IInv, NEW p \in Probes, NEW d \in Dependencies, NEW ok \in BOOLEAN,
           probe[p].pc = d, Asked(p, d, ok),
           UNCHANGED <<up, elapsed, cached, cacheAge>>,
           since' = since \/ since' = [since EXCEPT !.gone = 0],
           ok => up[d],
           ~ok /\ d = "redis" =>
              \/ attempt.lost
              \/ ~probe[p].connected /\ since' = [since EXCEPT !.gone = 0]
    PROVE  IInv'
<1> DEFINE k == probe[p]
           c == [k EXCEPT !.pc = IF d = "redis" THEN "postgres" ELSE "publish",
                          !.failed = IF ok THEN k.failed ELSE k.failed \cup {d}]
<1>1. /\ c \in Probe /\ c.connected = k.connected
      /\ c.pc = IF d = "redis" THEN "postgres" ELSE "publish"
      /\ c.failed = IF ok THEN k.failed ELSE k.failed \cup {d}
  <2>1. k \in Probe /\ d \in Dependencies
    BY DEF IInv, TypeOK
  <2>2. (IF ok THEN k.failed ELSE k.failed \cup {d}) \in SUBSET Dependencies
    BY <2>1 DEF Probe
  <2> QED
    BY <2>1, <2>2 DEF Probe
<1>2. probe' = [probe EXCEPT ![p] = c] /\ attempt' = NoAttempt
  BY DEF Asked, IInv, TypeOK, Probe
<1> HIDE DEF c
<1>3. /\ probe' \in [Probes -> Probe] /\ probe'[p] = c
      /\ \A q \in Probes \ {p} : probe'[q] = probe[q]
  BY <1>1, <1>2 DEF IInv, TypeOK
<1>4. /\ since'["up"] = since["up"] /\ since'["down"] = since["down"]
      /\ since'["gone"] = since["gone"] \/ since'["gone"] = 0
      /\ since' = [since EXCEPT !.gone = 0] => since'["gone"] = 0
  BY DEF IInv, TypeOK, Events
<1>5. Knows(c, elapsed, since', attempt')
  <2>1. elapsed \in Nat /\ Knows(k, elapsed, since, attempt)
    BY Fields DEF IInv
  <2>2. CASE d = "postgres"
    BY <1>1, <1>4, <2>1, <2>2 DEF Knows
  <2>3. CASE d = "redis"
    <3>1. c.pc = "postgres" /\ k.failed = {}
      BY <1>1, <2>1, <2>3 DEF Knows
    <3>2. CASE ok
      BY <1>1, <1>4, <2>1, <2>3, <3>1, <3>2 DEF Knows, IInv, Present
    <3>3. CASE ~ok /\ attempt.lost
      <4>1. since["down"] <= attempt.age /\ (attempt.age <= elapsed \/ elapsed = ProbeTimeout)
        BY <2>1, <2>3, <3>3 DEF Knows
      <4>2. since["down"] <= elapsed \/ (elapsed = ProbeTimeout /\ since["down"] <= RedisTimeout)
        BY <4>1, Fields DEF IInv, Events
      <4> QED
        BY <1>1, <1>4, <2>3, <3>1, <3>3, <4>2 DEF Knows
    <3>4. CASE ~ok /\ ~attempt.lost
      BY <1>1, <1>4, <2>3, <3>1, <3>4 DEF Knows
    <3> QED
      BY <3>2, <3>3, <3>4
  <2> QED
    BY <2>2, <2>3 DEF Dependencies
<1>6. attempt' \in Attempt
  BY <1>2, AttemptFields
<1> QED
  BY <1>3, <1>5, <1>6, ProbeStep DEF Evaluating, Dependencies

LEMMA ChecksIInv ==
    ASSUME IInv, NEW p \in Probes, NEW d \in Dependencies,
           CheckSucceeds(p, d) \/ CheckFails(p, d) \/ CheckEnds(p, d)
    PROVE  IInv'
<1>1. CASE CheckSucceeds(p, d)
  <2>1. /\ probe[p].pc = d /\ Asked(p, d, TRUE) /\ up[d]
        /\ UNCHANGED <<up, elapsed, cached, cacheAge>> /\ since' = since
    BY <1>1 DEF CheckSucceeds, ages
  <2> QED
    BY <2>1, AskedIInv
<1>2. CASE CheckFails(p, d)
  <2>1. /\ probe[p].pc = d /\ Asked(p, d, FALSE) /\ (d = "redis" => attempt.lost)
        /\ UNCHANGED <<up, elapsed, cached, cacheAge>> /\ since' = since
    BY <1>2 DEF CheckFails, ages
  <2> QED
    BY <2>1, AskedIInv
<1>3. CASE CheckEnds(p, d)
  <2>1. /\ probe[p].pc = d /\ Asked(p, d, FALSE)
        /\ UNCHANGED <<up, elapsed, cached, cacheAge>>
        /\ since' = since \/ since' = [since EXCEPT !.gone = 0]
        /\ d = "redis" => ~probe[p].connected /\ since' = [since EXCEPT !.gone = 0]
    BY <1>3 DEF CheckEnds
  <2> QED
    BY <2>1, AskedIInv
<1> QED
  BY <1>1, <1>2, <1>3

(* The report is about as old as the time it took. *)
LEMMA PublishIInv == ASSUME IInv, NEW p \in Probes, Publish(p) PROVE IInv'
<1> DEFINE c == [probe[p] EXCEPT !.pc = Status(probe[p].failed)]
<1>1. c \in Probe /\ c.pc \in {"ready", "unready"}
  BY StatusFields DEF IInv, TypeOK, Probe
<1>2. /\ probe[p].pc = "publish" /\ cached' = probe[p].failed /\ cacheAge' = 0
      /\ probe' = [probe EXCEPT ![p] = c] /\ UNCHANGED <<up, elapsed, attempt, since>>
  BY DEF Publish
<1> HIDE DEF c
<1>3. /\ probe' \in [Probes -> Probe] /\ probe'[p] = c
      /\ \A q \in Probes \ {p} : probe'[q] = probe[q]
  BY <1>1, <1>2 DEF IInv, TypeOK
<1>4. TypeOK'
  BY <1>2, <1>3, Fields DEF IInv, TypeOK
<1>5. MutualExclusion'
  BY <1>1, <1>3 DEF IInv, MutualExclusion, Evaluating
<1>6. Present'
  BY <1>2 DEF IInv, Present
<1>7. Reported'
  <2>1. Knows(probe[p], elapsed, since, attempt)
    BY DEF IInv
  <2> QED
    BY <1>2, <2>1, Fields DEF IInv, Knows, Reported, Events
<1>8. \A q \in Probes : Knows(probe'[q], elapsed', since', attempt')
  BY <1>1, <1>2, <1>3 DEF IInv, Knows
<1> QED
  BY <1>4, <1>5, <1>6, <1>7, <1>8 DEF IInv

LEMMA ToggleIInv == ASSUME IInv, NEW d \in Dependencies, Toggle(d) PROVE IInv'
<1>1. /\ up' \in [Dependencies -> BOOLEAN] /\ UNCHANGED <<probe, elapsed, cached, cacheAge>>
      /\ d # "redis" => up'["redis"] = up["redis"]
  BY DEF Toggle, IInv, TypeOK, Dependencies
<1>2. /\ since' \in [Events -> 0 .. Horizon + 1]
      /\ since'["gone"] = since["gone"]
      /\ d = "redis" => since'["up"] = 0 /\ since'["down"] = 0
      /\ d # "redis" => since' = since
  <2>1. since \in [Events -> 0 .. Horizon + 1] /\ 0 \in 0 .. Horizon + 1
    BY Fields DEF IInv, TypeOK
  <2>2. CASE d = "redis"
    <3>1. since' = [since EXCEPT !.up = 0, !.down = 0]
      BY <2>2 DEF Toggle
    <3> QED
      BY <2>1, <2>2, <3>1 DEF Events
  <2>3. CASE d # "redis"
    BY <2>1, <2>3 DEF Toggle
  <2> QED
    BY <2>2, <2>3
<1>3. TypeOK' /\ attempt'.age = attempt.age /\ (d # "redis" => attempt' = attempt)
  <2>1. attempt' \in Attempt /\ attempt'.age = attempt.age /\ (d # "redis" => attempt' = attempt)
    BY DEF Toggle, IInv, TypeOK, Attempt
  <2> QED
    BY <1>1, <1>2, <2>1 DEF IInv, TypeOK
<1>4. MutualExclusion'
  BY <1>1 DEF IInv, MutualExclusion, Evaluating
<1>5. Present'
  BY <1>1, <1>2 DEF IInv, Present
<1>6. Reported'
  BY <1>1, <1>2, Fields DEF IInv, Reported
<1>7. \A q \in Probes : Knows(probe'[q], elapsed', since', attempt')
  BY <1>1, <1>2, <1>3, Fields DEF IInv, Knows
<1> QED
  BY <1>3, <1>4, <1>5, <1>6, <1>7 DEF IInv

(* Who waits for Redis over a tick has a lost attempt, a tick older; who   *)
(* waits for PostgreSQL knows of Redis what it knew, a tick older; and the *)
(* report ages with what it is based on.                                   *)
LEMMA TickIInv == ASSUME IInv, Tick PROVE IInv'
<1>1. /\ UNCHANGED <<up, probe, cached>>
      /\ cacheAge' = Older(cacheAge, CacheFor)
      /\ elapsed' = IF Locked THEN Older(elapsed, ProbeTimeout) ELSE 0
      /\ since' = [e \in Events |-> IF e = (IF up["redis"] THEN "up" ELSE "down") THEN 0
                                    ELSE Older(since[e], Horizon + 1)]
  BY DEF Tick
<1>2. ASSUME NEW e \in Events
      PROVE  since'[e] \in 0 .. Horizon + 1 /\ since'[e] <= since[e] + 1
  BY <1>1, Fields DEF Older, IInv
<1>3. since' \in [Events -> 0 .. Horizon + 1]
  BY <1>1, <1>2
<1>4. elapsed' \in 0 .. ProbeTimeout
  BY <1>1, Fields DEF Older, IInv
<1>5. cacheAge' \in 0 .. CacheFor /\ (cacheAge' < CacheFor => cacheAge' = cacheAge + 1)
  BY <1>1, Fields DEF Older, IInv
<1>6. TypeOK'
  <2>1. CASE Asking("redis")
    <3>1. attempt.age < RedisTimeout /\ attempt' = [attempt EXCEPT !.age = @ + 1]
      BY <2>1 DEF Tick, Asking, Evaluating
    <3>2. attempt' \in Attempt
      BY <3>1 DEF IInv, TypeOK, Attempt
    <3> QED
      BY <1>1, <1>3, <1>4, <1>5, <3>2 DEF IInv, TypeOK
  <2>2. CASE ~Asking("redis")
    BY <1>1, <1>3, <1>4, <1>5, <2>2 DEF Tick, IInv, TypeOK
  <2> QED
    BY <2>1, <2>2
<1>7. MutualExclusion'
  BY <1>1 DEF IInv, MutualExclusion, Evaluating
<1>8. Present'
  BY <1>1 DEF IInv, Present, Events
<1>9. Reported'
  <2>1. CASE cacheAge < CacheFor /\ cacheAge' = cacheAge + 1
    <3>1. /\ since'["up"] \in Nat /\ since'["up"] <= since["up"] + 1
          /\ since'["down"] \in Nat /\ since'["down"] <= since["down"] + 1
          /\ since'["gone"] \in Nat /\ since'["gone"] <= since["gone"] + 1
      BY <1>2, Fields DEF Events, IInv
    <3> QED
      BY <1>1, <2>1, <3>1, Fields DEF IInv, Reported, Events
  <2>2. CASE ~(cacheAge' < CacheFor)
    BY <2>2 DEF Reported
  <2> QED
    BY <1>5, <2>1, <2>2, Fields DEF IInv
<1>10. ASSUME NEW q \in Probes PROVE Knows(probe'[q], elapsed', since', attempt')
  <2> DEFINE k == probe[q]
  <2>1. CASE Evaluating(q)
    <3>1. /\ Knows(k, elapsed, since, attempt) /\ elapsed' = Older(elapsed, ProbeTimeout)
          /\ \/ k.pc = "redis" /\ attempt.lost /\ attempt.age < RedisTimeout
             \/ k.pc = "postgres" /\ k.connected /\ elapsed # ProbeTimeout
      BY <1>1, <2>1 DEF Tick, Locked, ContextOver, IInv
    <3>2. /\ since'["up"] \in Nat /\ since'["up"] <= since["up"] + 1
          /\ since'["down"] \in Nat /\ since'["down"] <= since["down"] + 1
      BY <1>2, Fields DEF Events, IInv
    <3>3. elapsed' = IF elapsed = ProbeTimeout THEN ProbeTimeout ELSE elapsed + 1
      BY <3>1, Fields DEF Older, IInv
    <3>4. CASE k.pc = "redis"
      <4>1. attempt'.age = attempt.age + 1 /\ attempt'.lost = attempt.lost
        BY <3>4 DEF Tick, Asking, IInv, TypeOK, Attempt
      <4>2. /\ k.failed = {} /\ since["down"] <= attempt.age
            /\ attempt.age <= elapsed \/ elapsed = ProbeTimeout
        BY <3>1, <3>4 DEF Knows
      <4> QED
        BY <1>1, <3>2, <3>3, <3>4, <4>1, <4>2, Fields DEF IInv, Knows, Events
    <3>5. CASE k.pc = "postgres"
      BY <1>1, <3>1, <3>2, <3>3, <3>5, Fields DEF IInv, Knows, Events
    <3> QED
      BY <3>1, <3>4, <3>5
  <2>2. CASE ~Evaluating(q)
    BY <1>1, <2>2 DEF Knows, Evaluating
  <2> QED
    BY <2>1, <2>2
<1> QED
  BY <1>6, <1>7, <1>8, <1>9, <1>10 DEF IInv

LEMMA StepIInv == IInv /\ [Next]_vars => IInv'
<1> SUFFICES ASSUME IInv, [Next]_vars PROVE IInv'
  OBVIOUS
<1>1. CASE UNCHANGED vars
  BY <1>1 DEF vars, ages, IInv, TypeOK, MutualExclusion, Evaluating, Present, Reported
<1>2. ASSUME NEW p \in Probes,
             Arrive(p) \/ AnswerFromCache(p) \/ Disconnect(p) \/ Again(p)
      PROVE  IInv'
  BY <1>2, ArriveIInv, AnswerFromCacheIInv, DisconnectIInv, AgainIInv
<1>3. ASSUME NEW p \in Probes, Evaluate(p) PROVE IInv'
  BY <1>3, StartIInv, StartInVainIInv, TryAgainIInv, PublishIInv, ChecksIInv DEF Evaluate
<1>4. ASSUME NEW d \in Dependencies, Toggle(d) PROVE IInv'
  BY <1>4, ToggleIInv
<1>5. CASE Tick
  BY <1>5, TickIInv
<1> QED
  BY <1>1, <1>2, <1>3, <1>4, <1>5 DEF Next

-----------------------------------------------------------------------------
(* What a probe knows and what the report says stays true while probes     *)
(* queue, clients leave and the dependencies come and go (evaluate).       *)
THEOREM Invariance == Spec => []IInv
  BY InitIInv, StepIInv, PTL DEF Spec

(* Probes, ages and the report stay within their types. *)
THEOREM TypeCorrect == Spec => []TypeOK
<1>1. IInv => TypeOK
  BY DEF IInv
<1> QED
  BY <1>1, Invariance, PTL

(* The mutex is held by one probe at a time, over the whole evaluation     *)
(* (evaluate).                                                             *)
THEOREM OneProbeAsks == Spec => []MutualExclusion
<1>1. IInv => MutualExclusion
  BY DEF IInv
<1> QED
  BY <1>1, Invariance, PTL

(* How the answer of a probe comes about: from a report that is young      *)
(* enough or from what it has found itself.                                *)
LEMMA AnswerHasASource ==
    ASSUME IInv, NEW p \in Probes, NEW answer \in {"ready", "unready"},
           [Next]_vars, Answered(p, answer)
    PROVE  \/ answer = Status(cached) /\ cacheAge < CacheFor
           \/ answer = Status(probe[p].failed) /\ probe[p].pc = "publish"
<1>1. /\ probe[p].pc # answer /\ probe'[p].pc = answer
      /\ probe \in [Probes -> Probe]
      /\ answer \notin {"idle", "waiting", "redis", "postgres", "publish"}
  BY DEF Answered, IInv, TypeOK
<1>2. ~UNCHANGED probe
  BY <1>1
<1>3. ASSUME NEW q \in Probes, Arrive(q) PROVE FALSE
  BY <1>1, <1>3 DEF Arrive, Probe
<1>4. ASSUME NEW q \in Probes, Disconnect(q) PROVE FALSE
  BY <1>1, <1>4 DEF Disconnect, Probe
<1>5. ASSUME NEW q \in Probes, Again(q) PROVE FALSE
  BY <1>1, <1>5, NewProbeFields DEF Again
<1>6. ASSUME NEW q \in Probes, Start(q) \/ StartInVain(q) \/ TryAgain(q) PROVE FALSE
  BY <1>1, <1>2, <1>6 DEF Start, StartInVain, TryAgain, Probe
<1>7. ASSUME NEW q \in Probes, NEW d \in Dependencies, NEW ok \in BOOLEAN, Asked(q, d, ok)
      PROVE  FALSE
  BY <1>1, <1>7 DEF Asked, Probe
<1>8. ASSUME NEW q \in Probes, NEW d \in Dependencies,
             CheckSucceeds(q, d) \/ CheckFails(q, d) \/ CheckEnds(q, d)
      PROVE  FALSE
  BY <1>7, <1>8 DEF CheckSucceeds, CheckFails, CheckEnds
<1>9. ASSUME NEW q \in Probes, AnswerFromCache(q)
      PROVE  answer = Status(cached) /\ cacheAge < CacheFor
  BY <1>1, <1>9 DEF AnswerFromCache, Probe
<1>10. ASSUME NEW q \in Probes, Publish(q)
       PROVE  answer = Status(probe[p].failed) /\ probe[p].pc = "publish"
  BY <1>1, <1>10 DEF Publish, Probe
<1>11. ~Tick /\ \A d \in Dependencies : ~Toggle(d)
  BY <1>2 DEF Tick, Toggle
<1>12. ~UNCHANGED vars
  BY <1>2 DEF vars
<1> QED
  BY <1>3, <1>4, <1>5, <1>6, <1>8, <1>9, <1>10, <1>11, <1>12 DEF Next, Evaluate

(* A replica is called ready only when Redis has answered some probe not   *)
(* longer ago than PROBE_TIMEOUT and PROBE_CACHE_FOR together, however     *)
(* long an attempt of its client may take (evaluate).                      *)
THEOREM ReadyIsJustified == Spec => ReadyMeansRedisAnswered
<1> DEFINE Justified == \A p \in Probes : Answered(p, "ready") => since.up <= ProbeTimeout + CacheFor
<1>1. IInv /\ [Next]_vars => Justified
  <2> SUFFICES ASSUME IInv, [Next]_vars, NEW p \in Probes, Answered(p, "ready")
               PROVE  since["up"] <= ProbeTimeout + CacheFor
    OBVIOUS
  <2>1. CASE "ready" = Status(cached) /\ cacheAge < CacheFor
    BY <2>1, Fields DEF Status, Critical, IInv, Reported, Events
  <2>2. CASE "ready" = Status(probe[p].failed) /\ probe[p].pc = "publish"
    BY <2>2, Fields DEF Status, Critical, IInv, Knows, Events
  <2> QED
    BY <2>1, <2>2, AnswerHasASource
<1>2. IInv /\ [Next]_vars => [Justified]_vars
  BY <1>1
<1> QED
  BY <1>2, Invariance, PTL DEF Spec, ReadyMeansRedisAnswered

(* It is called unready only when Redis was down within PROBE_CACHE_FOR    *)
(* and the longer of PROBE_TIMEOUT and an attempt of Redis's client, or    *)
(* the client of the probe that asked was gone; never for PostgreSQL alone *)
(* (evaluate, NewRedisClient).                                             *)
THEOREM UnreadyIsJustified == Spec => UnreadyHasACause
<1> DEFINE Justified == \A p \in Probes : Answered(p, "unready") =>
                            since.down <= Horizon \/ since.gone <= CacheFor
<1>1. IInv /\ [Next]_vars => Justified
  <2> SUFFICES ASSUME IInv, [Next]_vars, NEW p \in Probes, Answered(p, "unready")
               PROVE  since["down"] <= Horizon \/ since["gone"] <= CacheFor
    OBVIOUS
  <2>1. CASE "unready" = Status(cached) /\ cacheAge < CacheFor
    BY <2>1, Fields DEF Status, Critical, IInv, TypeOK, Dependencies, Reported, Events
  <2>2. CASE "unready" = Status(probe[p].failed) /\ probe[p].pc = "publish"
    BY <2>2, Fields DEF Status, Critical, IInv, Knows, Events
  <2> QED
    BY <2>1, <2>2, AnswerHasASource
<1>2. IInv /\ [Next]_vars => [Justified]_vars
  BY <1>1
<1> QED
  BY <1>2, Invariance, PTL DEF Spec, UnreadyHasACause
=============================================================================
