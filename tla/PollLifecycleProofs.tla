------------------------- MODULE PollLifecycleProofs -------------------------
(***************************************************************************)
(* Proofs about PollLifecycle: an activated poll stays tracked until it is *)
(* settled, and when it is dropped all its ballots are in PostgreSQL,      *)
(* provided that SYNC_SETTLE_AFTER is long enough for the caches, the      *)
(* requests and the cycles in use.                                         *)
(***************************************************************************)
EXTENDS PollLifecycle, FiniteSetTheorems, TLAPS

(* A poll is finished within a request's time from its finished_at, and    *)
(* only a finished one has been closed.                                    *)
Phases ==
    /\ \A a \in Admins : admin[a].pc = "begun" => admin[a].op # "none"
    /\ status = "finished" => closedAt < finishedAt + RequestTimeout
    /\ status # "finished" => closedAt = 0

(* A ballot under way was let in while the poll was open, or while a cache *)
(* could still show it open.                                               *)
LateBallots ==
    \A v \in Voters : voter[v].pc = "checked" =>
        /\ status # "draft" /\ voter[v].at <= now
        /\ status = "finished" => closedAt > 0 /\ voter[v].at <= closedAt + CacheStaleness

(* So none is counted from some time after finished_at on. *)
CountingIsOver == now + 1 >= finishedAt + CacheStaleness + 2 * RequestTimeout

(* What a cycle knows of the poll is true; nobody has more ballots than    *)
(* were counted; a cycle that saw fewer ballots of a finished poll than    *)
(* there are now began before counting was over.                           *)
CyclesKnow ==
    /\ durable <= Cardinality(counted)
    /\ \A s \in Syncers :
          LET c == sync[s] IN
          /\ c.seen <= Cardinality(counted)
          /\ Running(s) => c.at <= now
          /\ c.pc = "saved" => c.seen <= durable
          /\ c.pc \in {"loaded", "read", "saved"} /\ c.status = "finished" =>
                status = "finished" /\ c.finishedAt = finishedAt
          /\ c.pc \in {"read", "saved"} /\ c.status = "finished"
             /\ c.seen # Cardinality(counted) =>
                c.at + 2 <= finishedAt + CacheStaleness + 2 * RequestTimeout

(* TrackPoll has been called for the activation and was answered. *)
Registered ==
    \E a \in Admins : admin[a].op = "activate" /\ admin[a].pc \in {"tracked", "ok"}

UntrackedIsSettled ==
    Registered /\ ~tracked => status = "finished" /\ now >= finishedAt + SettleAfter

IInv == TypeOK /\ Phases /\ LateBallots /\ CyclesKnow /\ UntrackedIsSettled

(* The settle window outlasts the caches, the requests on both sides of    *)
(* the status change and the cycle that settles; to the tick, for each of  *)
(* them ends strictly before its time is over.                             *)
SettleSuffices ==
    CacheStaleness + 2 * RequestTimeout + SyncTimeout <= SettleAfter + 2

UntrackedIsPersisted ==
    Registered /\ ~tracked => CountingIsOver /\ durable = Cardinality(counted)

USE LifecycleAssumption

-----------------------------------------------------------------------------
LEMMA CountedFinite ==
    ASSUME NEW B, B \subseteq Voters
    PROVE  IsFiniteSet(B) /\ Cardinality(B) \in 0 .. Cardinality(Voters)
<1>1. IsFiniteSet(B) /\ Cardinality(B) <= Cardinality(Voters)
  BY FS_Subset
<1>2. Cardinality(B) \in Nat /\ Cardinality(Voters) \in Nat
  BY <1>1, FS_CardinalityType
<1> QED
  BY <1>1, <1>2

LEMMA InitIInv == Init => IInv
<1> SUFFICES ASSUME Init PROVE IInv
  OBVIOUS
<1>1. Cardinality(Voters) \in Nat /\ Cardinality({}) = 0
  BY FS_CardinalityType, FS_EmptySet
<1>2. NoCycle \in Cycle
  BY <1>1 DEF NoCycle, Cycle, Statuses
<1>3. TypeOK
  <2>1. now \in 1 .. MaxTime /\ durable \in 0 .. Cardinality(Voters)
    BY <1>1 DEF Init
  <2>2. admin \in [Admins -> AdminRequest] /\ voter \in [Voters -> VoteRequest]
    BY DEF Init, AdminRequest, VoteRequest
  <2>3. sync \in [Syncers -> Cycle]
    BY <1>2 DEF Init
  <2> QED
    BY <2>1, <2>2, <2>3 DEF Init, TypeOK, Statuses
<1> QED
  BY <1>1, <1>3 DEF Init, IInv, Phases, LateBallots, CyclesKnow, NoCycle, Running,
                    UntrackedIsSettled, Registered

-----------------------------------------------------------------------------
(* Requests of the admin. *)

(* All of them but the UPDATE change the request and perhaps track the     *)
(* poll, which they do before they register it.                            *)
LEMMA AdminOnly ==
    ASSUME IInv, NEW a \in Admins, admin' \in [Admins -> AdminRequest],
           \A b \in Admins \ {a} : admin'[b] = admin[b],
           UNCHANGED <<now, status, finishedAt, closedAt, counted, durable, voter, sync>>,
           tracked' \in BOOLEAN, tracked => tracked',
           admin'[a].pc = "begun" => admin'[a].op # "none",
           admin'[a].op = "activate" /\ admin'[a].pc \in {"tracked", "ok"} =>
               tracked' \/ (admin[a].op = "activate" /\ admin[a].pc \in {"tracked", "ok"})
    PROVE  IInv'
<1>1. TypeOK'
  BY DEF IInv, TypeOK
<1>2. Phases'
  BY DEF IInv, Phases
<1>3. LateBallots' /\ CyclesKnow'
  BY DEF IInv, LateBallots, CyclesKnow, Running
<1>4. UntrackedIsSettled'
  BY DEF IInv, UntrackedIsSettled, Registered
<1> QED
  BY <1>1, <1>2, <1>3, <1>4 DEF IInv

LEMMA UpdateStatusIInv ==
    ASSUME IInv, NEW a \in Admins, UpdateStatus(a)
    PROVE  IInv'
<1>1. /\ admin \in [Admins -> AdminRequest] /\ admin[a].pc = "begun"
      /\ admin[a].op \in {"activate", "finish"}
      /\ admin[a].at \in Nat /\ now < admin[a].at + RequestTimeout
  BY DEF IInv, TypeOK, Phases, UpdateStatus, InTime, AdminRequest
<1>2. /\ status # "finished" /\ status' # "draft"
      /\ status' = "finished" => finishedAt' = admin[a].at
      /\ status' # "finished" => status = "draft"
      /\ status' \in Statuses /\ finishedAt' \in Nat
      /\ UNCHANGED <<now, tracked, counted, durable, voter, sync>>
  BY <1>1 DEF UpdateStatus, From, To, Statuses
<1>3. /\ closedAt' \in Nat /\ closedAt' <= now
      /\ status = "active" => closedAt' = now
      /\ status = "draft" => closedAt' = 0
      /\ now \in Nat \ {0} /\ RequestTimeout \in Nat /\ CacheStaleness \in Nat
  BY DEF UpdateStatus, IInv, TypeOK
<1>4. PICK pc \in {"updated", "failed"} : admin' = [admin EXCEPT ![a].pc = pc]
  BY DEF UpdateStatus
<1>5. TypeOK'
  BY <1>1, <1>2, <1>3, <1>4 DEF IInv, TypeOK, AdminRequest
<1>6. Phases'
  BY <1>1, <1>2, <1>3, <1>4 DEF IInv, Phases, AdminRequest
<1>7. LateBallots'
  BY <1>2, <1>3 DEF IInv, TypeOK, Statuses, VoteRequest, LateBallots
<1>8. CyclesKnow'
  BY <1>2 DEF IInv, CyclesKnow, Running
<1>9. UntrackedIsSettled'
  BY <1>1, <1>2, <1>4 DEF IInv, UntrackedIsSettled, Registered
<1> QED
  BY <1>5, <1>6, <1>7, <1>8, <1>9 DEF IInv

LEMMA AdminStepIInv ==
    ASSUME IInv, NEW a \in Admins, AdminStep(a)
    PROVE  IInv'
<1>1. /\ admin \in [Admins -> AdminRequest]
      /\ tracked \in BOOLEAN /\ now \in Nat
  BY DEF IInv, TypeOK
<1>2. ASSUME NEW op \in {"activate", "finish"}, Begin(a, op) PROVE IInv'
  BY <1>1, <1>2, AdminOnly DEF Begin, AdminRequest
<1>3. CASE UpdateStatus(a)
  BY <1>3, UpdateStatusIInv
<1>4. CASE UpdateRefused(a)
  BY <1>1, <1>4, AdminOnly DEF UpdateRefused, AdminRequest
<1>5. CASE ReadStatus(a)
  BY <1>1, <1>5, AdminOnly DEF ReadStatus, AdminRequest
<1>6. CASE LoadPoll(a)
  BY <1>1, <1>6, AdminOnly DEF LoadPoll, AdminRequest
<1>7. CASE Track(a)
  BY <1>1, <1>7, AdminOnly DEF Track, AdminRequest
<1>8. CASE Succeed(a)
  BY <1>1, <1>8, AdminOnly DEF Succeed, AdminRequest
<1>9. CASE Fail(a)
  BY <1>1, <1>9, AdminOnly DEF Fail, AdminRequest
<1> QED
  BY <1>2, <1>3, <1>4, <1>5, <1>6, <1>7, <1>8, <1>9 DEF AdminStep

-----------------------------------------------------------------------------
(* Ballots. *)

LEMMA CheckOpenIInv ==
    ASSUME IInv, NEW v \in Voters, CheckOpen(v)
    PROVE  IInv'
<1>1. /\ voter' = [voter EXCEPT ![v] = [pc |-> "checked", at |-> now]]
      /\ UNCHANGED <<now, status, finishedAt, closedAt, tracked, counted, durable, admin, sync>>
  BY DEF CheckOpen
<1>2. TypeOK'
  BY <1>1 DEF IInv, TypeOK, VoteRequest
<1>3. status = "active" \/ (status = "finished" /\ closedAt > 0 /\ now <= closedAt + CacheStaleness)
  BY DEF CheckOpen, MaySeeActive, IInv, TypeOK, Statuses, Phases
<1>4. LateBallots'
  BY <1>1, <1>3 DEF IInv, TypeOK, LateBallots
<1> QED
  BY <1>1, <1>2, <1>4
     DEF IInv, Phases, CyclesKnow, Running, UntrackedIsSettled, Registered

(* A ballot of a finished poll is counted before counting is over. *)
LEMMA CountedInTime ==
    ASSUME IInv, NEW v \in Voters, CountBallot(v), status = "finished"
    PROVE  now + 2 <= finishedAt + CacheStaleness + 2 * RequestTimeout
<1>1. /\ voter[v].at \in Nat /\ now \in Nat /\ closedAt \in Nat /\ finishedAt \in Nat
      /\ RequestTimeout \in Nat /\ CacheStaleness \in Nat
  BY DEF IInv, TypeOK, VoteRequest
<1>2. /\ now < voter[v].at + RequestTimeout
      /\ voter[v].at <= closedAt + CacheStaleness
      /\ closedAt < finishedAt + RequestTimeout
  BY DEF IInv, CountBallot, InTime, LateBallots, Phases
<1> QED
  BY <1>1, <1>2

LEMMA CountBallotIInv ==
    ASSUME IInv, NEW v \in Voters, CountBallot(v)
    PROVE  IInv'
<1>1. /\ voter' = [voter EXCEPT ![v] = [pc |-> "done", at |-> 0]]
      /\ counted' = counted \cup {v}
      /\ UNCHANGED <<now, status, finishedAt, closedAt, tracked, durable, admin, sync>>
  BY DEF CountBallot
<1>2. TypeOK'
  BY <1>1 DEF IInv, TypeOK, VoteRequest
<1>3. LateBallots'
  BY <1>1 DEF IInv, TypeOK, LateBallots
<1>4. /\ Cardinality(counted) <= Cardinality(counted')
      /\ Cardinality(counted) \in Nat /\ Cardinality(counted') \in Nat
  <2>1. counted \subseteq counted' /\ counted' \subseteq Voters
    BY <1>1 DEF IInv, TypeOK
  <2> QED
    BY <2>1, CountedFinite, FS_Subset
<1>5. durable <= Cardinality(counted')
  BY <1>4, CountedFinite DEF IInv, TypeOK, CyclesKnow
<1>6. ASSUME NEW s \in Syncers
      PROVE  /\ sync[s].seen <= Cardinality(counted')
             /\ sync[s].pc \in {"read", "saved"} /\ sync[s].status = "finished" =>
                   sync[s].at + 2 <= finishedAt + CacheStaleness + 2 * RequestTimeout
  <2>1. /\ sync[s].at \in Nat /\ sync[s].seen \in Nat /\ now \in Nat
        /\ finishedAt \in Nat /\ RequestTimeout \in Nat /\ CacheStaleness \in Nat
    BY CountedFinite DEF IInv, TypeOK, Cycle
  <2>2. sync[s].seen <= Cardinality(counted')
    BY <1>4, <2>1 DEF IInv, CyclesKnow
  <2>3. ASSUME sync[s].pc \in {"read", "saved"}, sync[s].status = "finished"
        PROVE  sync[s].at + 2 <= finishedAt + CacheStaleness + 2 * RequestTimeout
    <3>1. sync[s].at <= now /\ status = "finished"
      BY <2>3 DEF IInv, CyclesKnow, Running
    <3> QED
      BY <2>1, <3>1, CountedInTime
  <2> QED
    BY <2>2, <2>3
<1>7. CyclesKnow'
  BY <1>1, <1>5, <1>6 DEF IInv, CyclesKnow, Running
<1> QED
  BY <1>1, <1>2, <1>3, <1>7 DEF IInv, Phases, UntrackedIsSettled, Registered

-----------------------------------------------------------------------------
(* The synchroniser. *)

LEMMA CycleStepIInv ==
    ASSUME IInv, NEW s \in Syncers, CycleStep(s) \/ Abort(s)
    PROVE  IInv'
<1> DEFINE c == sync[s]
           total == Cardinality(counted)
           Knows(d, persisted) ==
               /\ d.seen <= total
               /\ d.pc \notin {"idle", "aborted"} => d.at <= now
               /\ d.pc = "saved" => d.seen <= persisted
               /\ d.pc \in {"loaded", "read", "saved"} /\ d.status = "finished" =>
                     status = "finished" /\ d.finishedAt = finishedAt
               /\ d.pc \in {"read", "saved"} /\ d.status = "finished" /\ d.seen # total =>
                     d.at + 2 <= finishedAt + CacheStaleness + 2 * RequestTimeout
<1>1. /\ sync \in [Syncers -> Cycle] /\ c \in Cycle
      /\ now \in Nat /\ status \in Statuses /\ finishedAt \in Nat /\ tracked \in BOOLEAN
      /\ durable \in 0 .. Cardinality(Voters) /\ durable \in Nat /\ c.seen \in Nat
      /\ total \in 0 .. Cardinality(Voters) /\ total \in Nat /\ Cardinality(Voters) \in Nat
  BY CountedFinite DEF IInv, TypeOK, Cycle
<1>2. durable <= total /\ \A t \in Syncers : Knows(sync[t], durable)
  BY DEF IInv, CyclesKnow, Running
<1>3. UNCHANGED <<now, status, finishedAt, closedAt, counted, admin, voter>>
  BY DEF CycleStep, List, Load, ReadCounters, Save, Settle, TimeOut, Abort
<1>4. /\ durable' \in 0 .. Cardinality(Voters)
      /\ durable <= durable' /\ durable' <= total /\ durable' \in Nat
  BY <1>1, <1>2 DEF CycleStep, List, Load, ReadCounters, Save, Settle, TimeOut, Abort
<1>5. tracked' \in BOOLEAN /\ UntrackedIsSettled'
  <2>1. CASE Settle(s)
    BY <1>2, <2>1 DEF Settle, Settled, IInv, TypeOK, UntrackedIsSettled, Registered
  <2>2. CASE ~Settle(s)
    BY <1>1, <1>3, <2>2 DEF CycleStep, List, Load, ReadCounters, Save, TimeOut, Abort,
                            IInv, UntrackedIsSettled, Registered
  <2> QED
    BY <2>1, <2>2
<1>6. \E d \in Cycle : sync' = [sync EXCEPT ![s] = d] /\ Knows(d, durable')
  <2>1. CASE List(s)
    <3> DEFINE d == [c EXCEPT !.pc = "listed", !.at = now]
    <3>1. d \in Cycle /\ sync' = [sync EXCEPT ![s] = d]
      BY <1>1, <2>1 DEF List, Cycle
    <3>2. Knows(d, durable')
      BY <1>1, <1>2, <2>1 DEF List, Cycle
    <3> QED
      BY <3>1, <3>2
  <2>2. CASE Load(s)
    <3> DEFINE d == [c EXCEPT !.pc = "loaded", !.status = status, !.finishedAt = finishedAt]
    <3>1. d \in Cycle /\ sync' = [sync EXCEPT ![s] = d]
      BY <1>1, <2>2 DEF Load, Cycle
    <3>2. Knows(d, durable')
      BY <1>1, <1>2, <2>2 DEF Load, Cycle, Running
    <3> QED
      BY <3>1, <3>2
  <2>3. CASE ReadCounters(s)
    <3> DEFINE d == [c EXCEPT !.pc = "read", !.seen = total]
    <3>1. d \in Cycle /\ sync' = [sync EXCEPT ![s] = d]
      BY <1>1, <2>3 DEF ReadCounters, Cycle
    <3>2. Knows(d, durable')
      BY <1>1, <1>2, <2>3 DEF ReadCounters, Cycle, Running
    <3> QED
      BY <3>1, <3>2
  <2>4. CASE Save(s)
    <3> DEFINE d == [c EXCEPT !.pc = "saved"]
    <3>1. d \in Cycle /\ sync' = [sync EXCEPT ![s] = d]
      BY <1>1, <2>4 DEF Save, Cycle
    <3>2. Knows(d, durable')
      BY <1>1, <1>2, <1>4, <2>4 DEF Save, Cycle, Running
    <3> QED
      BY <3>1, <3>2
  <2>5. NoCycle \in Cycle /\ [NoCycle EXCEPT !.pc = "aborted"] \in Cycle
    BY <1>1 DEF NoCycle, Cycle, Statuses
  <2>6. CASE Settle(s) \/ TimeOut(s)
    BY <1>1, <2>5, <2>6 DEF Settle, TimeOut, NoCycle
  <2>7. CASE Abort(s)
    <3> DEFINE d == [NoCycle EXCEPT !.pc = "aborted"]
    <3>1. d \in Cycle /\ sync' = [sync EXCEPT ![s] = d]
      BY <2>5, <2>7 DEF Abort
    <3>2. Knows(d, durable')
      BY <1>1 DEF NoCycle
    <3> QED
      BY <3>1, <3>2
  <2> QED
    BY <2>1, <2>2, <2>3, <2>4, <2>6, <2>7 DEF CycleStep
<1>7. PICK d \in Cycle : sync' = [sync EXCEPT ![s] = d] /\ Knows(d, durable')
  BY <1>6
<1>8. TypeOK'
  BY <1>1, <1>3, <1>4, <1>5, <1>7 DEF IInv, TypeOK
<1>9. CyclesKnow'
  <2> SUFFICES ASSUME NEW t \in Syncers PROVE Knows(sync'[t], durable')
    BY <1>3, <1>4 DEF CyclesKnow, Running
  <2>1. CASE t = s
    BY <1>1, <1>7, <2>1
  <2>2. CASE t # s
    <3>1. sync'[t] = sync[t] /\ sync[t].seen \in Nat
      BY <1>1, <1>7, <2>2 DEF Cycle
    <3> QED
      BY <1>1, <1>2, <1>4, <3>1
  <2> QED
    BY <2>1, <2>2
<1> QED
  BY <1>3, <1>5, <1>8, <1>9 DEF IInv, Phases, LateBallots

-----------------------------------------------------------------------------
LEMMA TickIInv ==
    ASSUME IInv, Tick
    PROVE  IInv'
<1>1. TypeOK'
  BY DEF IInv, TypeOK, Tick
<1>2. LateBallots'
  BY DEF IInv, TypeOK, VoteRequest, LateBallots, Tick
<1>3. CyclesKnow'
  BY DEF IInv, TypeOK, Cycle, CyclesKnow, Running, Tick
<1>4. UntrackedIsSettled'
  BY DEF IInv, TypeOK, UntrackedIsSettled, Registered, Tick
<1> QED
  BY <1>1, <1>2, <1>3, <1>4 DEF IInv, Phases, Tick

LEMMA StepIInv == IInv /\ [Next]_vars => IInv'
<1> SUFFICES ASSUME IInv, [Next]_vars PROVE IInv'
  OBVIOUS
<1>1. CASE \E a \in Admins : AdminStep(a)
  BY <1>1, AdminStepIInv
<1>2. CASE \E v \in Voters : CheckOpen(v) \/ CountBallot(v)
  BY <1>2, CheckOpenIInv, CountBallotIInv
<1>3. CASE \E s \in Syncers : CycleStep(s) \/ Abort(s)
  BY <1>3, CycleStepIInv
<1>4. CASE Tick
  BY <1>4, TickIInv
<1>5. CASE UNCHANGED vars
  BY <1>5 DEF vars, IInv, TypeOK, Phases, LateBallots, CyclesKnow, Running,
              UntrackedIsSettled, Registered
<1> QED
  BY <1>1, <1>2, <1>3, <1>4, <1>5 DEF Next
-----------------------------------------------------------------------------
(* The settle window. *)

(* The cycle that drops the poll has seen all its ballots, and none is to  *)
(* come: had it missed one, it would have begun before counting was over   *)
(* and would be out of time by now.                                        *)
LEMMA SettlePersisted ==
    ASSUME SettleSuffices, IInv, NEW s \in Syncers, Settle(s), Settled(s)
    PROVE  CountingIsOver /\ durable = Cardinality(counted)
<1> DEFINE c == sync[s]
<1>1. /\ now \in Nat /\ finishedAt \in Nat /\ durable \in Nat /\ Cardinality(counted) \in Nat
      /\ c.at \in Nat /\ c.seen \in Nat
      /\ RequestTimeout \in Nat /\ CacheStaleness \in Nat /\ SyncTimeout \in Nat
      /\ SettleAfter \in Nat
  BY CountedFinite DEF IInv, TypeOK, Cycle
<1>2. /\ c.pc = "saved" /\ now < c.at + SyncTimeout
      /\ c.status = "finished" /\ now >= c.finishedAt + SettleAfter
  BY DEF Settle, Settled, InTime
<1>3. /\ c.finishedAt = finishedAt /\ c.at <= now /\ c.seen <= durable
      /\ durable <= Cardinality(counted)
      /\ c.seen # Cardinality(counted) =>
            c.at + 2 <= finishedAt + CacheStaleness + 2 * RequestTimeout
  BY <1>2 DEF IInv, CyclesKnow, Running
<1>4. now + 2 >= finishedAt + CacheStaleness + 2 * RequestTimeout + SyncTimeout
  BY <1>1, <1>2, <1>3 DEF SettleSuffices
<1>5. CountingIsOver
  BY <1>1, <1>2, <1>3, <1>4 DEF CountingIsOver
<1>6. c.seen = Cardinality(counted)
  BY <1>1, <1>2, <1>3, <1>4
<1> QED
  BY <1>1, <1>3, <1>5, <1>6

LEMMA StepPersisted ==
    ASSUME SettleSuffices, IInv, IInv', UntrackedIsPersisted, [Next]_vars
    PROVE  UntrackedIsPersisted'
<1> SUFFICES ASSUME Registered', ~tracked'
             PROVE  CountingIsOver' /\ durable' = Cardinality(counted')
  BY DEF UntrackedIsPersisted
<1> USE DEF CountingIsOver, UntrackedIsPersisted
<1>1. /\ durable <= Cardinality(counted) /\ durable' <= Cardinality(counted')
      /\ durable \in Nat /\ durable' \in Nat
      /\ Cardinality(counted) \in Nat /\ Cardinality(counted') \in Nat
      /\ now \in Nat /\ finishedAt \in Nat /\ tracked \in BOOLEAN
      /\ RequestTimeout \in Nat /\ CacheStaleness \in Nat
      /\ admin \in [Admins -> AdminRequest]
  <2>1. Cardinality(Voters) \in Nat
    BY CountedFinite
  <2> QED
    BY <2>1, CountedFinite DEF IInv, TypeOK, CyclesKnow
<1>2. Registered /\ ~tracked => status = "finished"
  BY DEF IInv, UntrackedIsSettled
<1>3. ASSUME NEW a \in Admins, AdminStep(a)
      PROVE  CountingIsOver' /\ durable' = Cardinality(counted')
  <2>1. Registered /\ ~tracked
    BY <1>1, <1>3 DEF AdminStep, Begin, UpdateStatus, UpdateRefused, ReadStatus, LoadPoll,
                      Track, Succeed, Fail, Registered, AdminRequest
  <2>2. ~UpdateStatus(a)
    BY <1>2, <2>1 DEF UpdateStatus, From
  <2> QED
    BY <1>3, <2>1, <2>2 DEF AdminStep, Begin, UpdateRefused, ReadStatus, LoadPoll,
                            Track, Succeed, Fail
<1>4. CASE \E v \in Voters : CheckOpen(v)
  BY <1>4 DEF CheckOpen, Registered
<1>5. ASSUME NEW v \in Voters, CountBallot(v)
      PROVE  CountingIsOver' /\ durable' = Cardinality(counted')
  <2>1. Registered /\ ~tracked
    BY <1>5 DEF CountBallot, Registered
  <2> QED
    BY <1>1, <1>2, <1>5, <2>1, CountedInTime
<1>6. ASSUME NEW s \in Syncers, CycleStep(s) \/ Abort(s)
      PROVE  CountingIsOver' /\ durable' = Cardinality(counted')
  <2>1. UNCHANGED <<now, status, finishedAt, counted, admin>> /\ durable <= durable'
    BY <1>1, <1>6 DEF CycleStep, List, Load, ReadCounters, Save, Settle, TimeOut, Abort
  <2>2. CASE tracked
    <3>1. Settle(s) /\ Settled(s)
      BY <1>6, <2>2 DEF CycleStep, List, Load, ReadCounters, Save, Settle, TimeOut, Abort
    <3> QED
      BY <2>1, <3>1, SettlePersisted DEF Settle
  <2>3. CASE ~tracked
    <3>1. CountingIsOver /\ durable = Cardinality(counted)
      BY <2>1, <2>3 DEF Registered
    <3> QED
      BY <1>1, <2>1, <3>1
  <2> QED
    BY <2>2, <2>3
<1>7. CASE Tick
  BY <1>1, <1>7 DEF Tick, Registered
<1>8. CASE UNCHANGED vars
  BY <1>8 DEF vars, Registered
<1> QED
  BY <1>3, <1>4, <1>5, <1>6, <1>7, <1>8 DEF Next

-----------------------------------------------------------------------------
THEOREM Invariance == Spec => []IInv
  BY InitIInv, StepIInv, PTL DEF Spec

(* The state of the lifecycle is well-formed in every reachable state      *)
(* (PollService, SyncService).                                             *)
THEOREM TypeCorrect == Spec => []TypeOK
  BY Invariance, PTL DEF IInv

(* Whatever admins, cycles and failures do to each other, an activation    *)
(* answered with success has its poll in the tracked set until the poll    *)
(* is settled (Activate, syncPoll).                                        *)
THEOREM StaysTracked == Spec => []ActivatedStaysTracked
<1>1. IInv => ActivatedStaysTracked
  BY DEF IInv, UntrackedIsSettled, Registered, ActivatedStaysTracked
<1> QED
  BY <1>1, Invariance, PTL

(* No race of transitions takes a poll back or moves the finished_at of a  *)
(* finished one (UpdatePollStatus).                                        *)
THEOREM ForwardOnly == Spec => FinishedForGood
<1> DEFINE Forward == /\ status # "draft" => status' # "draft"
                      /\ status = "finished" => status' = "finished" /\ finishedAt' = finishedAt
<1>1. [Next]_vars => [Forward]_vars
  BY DEF Next, vars, AdminStep, Begin, UpdateStatus, From, To, UpdateRefused, ReadStatus,
         LoadPoll, Track, Succeed, Fail, CheckOpen, CountBallot, CycleStep, List, Load,
         ReadCounters, Save, Settle, TimeOut, Abort, Tick
<1> QED
  BY <1>1, PTL DEF Spec, FinishedForGood

(* With a settle window that is long enough, a poll that is dropped from   *)
(* the tracked set has every ballot in PostgreSQL, late ones included      *)
(* (settled, syncPoll).                                                    *)
THEOREM DroppedIsPersisted ==
    ASSUME SettleSuffices
    PROVE  Spec => []SettledIsPersisted
<1>1. Init => UntrackedIsPersisted
  BY DEF Init, UntrackedIsPersisted, Registered
<1>2. IInv /\ IInv' /\ UntrackedIsPersisted /\ [Next]_vars => UntrackedIsPersisted'
  BY StepPersisted
<1>3. UntrackedIsPersisted => SettledIsPersisted
  BY DEF UntrackedIsPersisted, Registered, SettledIsPersisted
<1> QED
  BY <1>1, <1>2, <1>3, Invariance, PTL DEF Spec
=============================================================================
