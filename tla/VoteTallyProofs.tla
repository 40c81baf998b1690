--------------------------- MODULE VoteTallyProofs ---------------------------
(***************************************************************************)
(* Proofs about VoteTally: whatever expires, is lost, overlaps or fails,   *)
(* neither PostgreSQL nor the results ever show more votes than were       *)
(* counted, and the vote path implements DurableTally.                     *)
(***************************************************************************)
EXTENDS VoteTally, FiniteSetTheorems, TLAPS

(* Every set of ballots kept anywhere holds counted ballots only, ...      *)
SetsWithinCounted ==
    /\ \A s \in Shards : counts[s] \subseteq Counted
    /\ \A p \in Callers : call[p].got \subseteq Counted

(* ... and so does every number derived from one.                          *)
Within(m) == \A o \in Options : m[o] <= Votes(Counted, o)

ResultsWithinCounted ==
    \A r \in Readers : Within(result[r].snapshot) /\ Within(result[r].total)

IInv ==
    /\ TypeOK
    /\ SetsWithinCounted
    /\ DurableNeverOvercounts
    /\ ResultsWithinCounted

USE BallotsAssumption, ShardsAssumption, TimesAssumption, CallersAssumption

-----------------------------------------------------------------------------
LEMMA VotesMonotone ==
    ASSUME NEW A, NEW B, A \subseteq B, B \subseteq Ballots, NEW o
    PROVE  /\ Votes(A, o) \in Nat /\ Votes(B, o) \in Nat
           /\ Votes(A, o) <= Votes(B, o)
<1> DEFINE X == {b \in A : o \in ChoiceOf[b]}
           Y == {b \in B : o \in ChoiceOf[b]}
<1>1. IsFiniteSet(Y)
  BY FS_Subset
<1>2. X \subseteq Y
  OBVIOUS
<1>3. IsFiniteSet(X) /\ Cardinality(X) <= Cardinality(Y)
  BY <1>1, <1>2, FS_Subset
<1>4. Cardinality(X) \in Nat /\ Cardinality(Y) \in Nat
  BY <1>1, <1>3, FS_CardinalityType
<1> QED
  BY <1>3, <1>4 DEF Votes

(* The larger of two numbers of counted votes is one, too. *)
LEMMA LargerWithin ==
    ASSUME NEW m \in Totals, NEW B, B \subseteq Counted, Within(m),
           NEW n, n = [o \in Options |-> LargerOf(m[o], Votes(B, o))]
    PROVE  n \in Totals /\ Within(n) /\ \A o \in Options : m[o] <= n[o]
<1>1. \A o \in Options : Votes(B, o) \in Nat /\ Votes(B, o) <= Votes(Counted, o)
  BY VotesMonotone DEF Counted
<1> QED
  BY <1>1 DEF Totals, Within, LargerOf

(* A step that keeps the counted ballots keeps what is within them; one    *)
(* that counts another does as well.                                       *)
LEMMA WithinGrows ==
    ASSUME Counted \subseteq Counted', NEW m \in Totals, Within(m)
    PROVE  \A o \in Options : m[o] <= Votes(Counted', o)
<1>1. \A o \in Options : /\ Votes(Counted, o) \in Nat /\ Votes(Counted', o) \in Nat
                         /\ Votes(Counted, o) <= Votes(Counted', o)
  BY VotesMonotone DEF Counted
<1> QED
  BY <1>1 DEF Within, Totals

LEMMA InitIInv == Init => IInv
<1> SUFFICES ASSUME Init PROVE IInv
  OBVIOUS
<1>1. TypeOK
  BY DEF Init, StoreInit, TypeOK, StoreTypeOK, Call, Result, Idle, Unanswered, Zero, Totals
<1>2. SetsWithinCounted
  BY DEF Init, StoreInit, SetsWithinCounted, Idle
<1>3. Within(Zero)
  BY VotesMonotone DEF Within, Zero, Counted
<1> QED
  BY <1>1, <1>2, <1>3 DEF Init, IInv, DurableNeverOvercounts, ResultsWithinCounted, Within, Unanswered

-----------------------------------------------------------------------------
(* The steps that leave Redis alone. *)
LEMMA ReadShardIInv ==
    ASSUME IInv, NEW p \in Callers, NEW s \in Shards, ReadShard(p, s)
    PROVE  IInv'
<1> DEFINE q == [call[p] EXCEPT !.unread = @ \ {s}, !.got = @ \cup Live(s)]
<1>1. /\ call \in [Callers -> Call] /\ counts[s] \in SUBSET Ballots
      /\ Live(s) \subseteq counts[s]
  BY DEF IInv, TypeOK, StoreTypeOK, Live
<1>2. call' = [call EXCEPT ![p] = q] /\ UNCHANGED <<storeVars, durable, result>>
  BY <1>1 DEF ReadShard
<1>3. q \in Call
  BY <1>1 DEF Call
<1>4. TypeOK'
  BY <1>1, <1>2, <1>3 DEF IInv, TypeOK, StoreTypeOK, storeVars
<1>5. Counted' = Counted
  BY <1>2 DEF storeVars, Counted
<1>6. SetsWithinCounted'
  BY <1>1, <1>2, <1>5 DEF IInv, SetsWithinCounted, storeVars, Call
<1> QED
  BY <1>2, <1>4, <1>5, <1>6 DEF IInv, DurableNeverOvercounts, ResultsWithinCounted, Within, Votes

LEMMA SyncSaveIInv ==
    ASSUME IInv, NEW p \in Syncers, SyncSave(p)
    PROVE  IInv' /\ \A o \in Options : durable[o] <= durable'[o]
<1>1. /\ p \in Callers /\ call \in [Callers -> Call]
      /\ durable \in Totals /\ Within(durable)
      /\ call[p].got \subseteq Counted
  BY DEF IInv, TypeOK, Callers, DurableNeverOvercounts, Within, SetsWithinCounted
<1>2. durable' \in Totals /\ Within(durable') /\ \A o \in Options : durable[o] <= durable'[o]
  BY <1>1, LargerWithin, Zenon DEF SyncSave
<1>3. UNCHANGED storeVars /\ Counted' = Counted
  BY DEF SyncSave, storeVars, Counted
<1>4. Idle \in Call
  BY DEF Idle, Call
<1>5. call' \in [Callers -> Call]
  BY <1>1, <1>4 DEF SyncSave
<1>6. TypeOK'
  BY <1>2, <1>3, <1>5 DEF SyncSave, IInv, TypeOK, StoreTypeOK, storeVars
<1>7. SetsWithinCounted'
  BY <1>1, <1>3 DEF SyncSave, IInv, SetsWithinCounted, storeVars, Idle, Call
<1> QED
  BY <1>2, <1>3, <1>6, <1>7
     DEF SyncSave, IInv, DurableNeverOvercounts, ResultsWithinCounted, Within, Votes

(* Begun, Idle and the end of a request keep at most the ballots a caller  *)
(* has read.                                                               *)
LEMMA CallStep ==
    ASSUME IInv, NEW p \in Callers, NEW c \in Call, call' = [call EXCEPT ![p] = c],
           c.got \subseteq call[p].got,
           UNCHANGED <<storeVars, durable>>,
           result' \in [Readers -> Result], ResultsWithinCounted'
    PROVE  IInv'
<1>1. Counted' = Counted
  BY DEF storeVars, Counted
<1>2. TypeOK'
  BY DEF IInv, TypeOK, StoreTypeOK, storeVars
<1>3. SetsWithinCounted'
  BY <1>1 DEF IInv, TypeOK, SetsWithinCounted, storeVars
<1> QED
  BY <1>1, <1>2, <1>3 DEF IInv, DurableNeverOvercounts, Votes

LEMMA SyncBeginFailIInv ==
    ASSUME IInv, NEW p \in Syncers, SyncBegin(p) \/ SyncFail(p)
    PROVE  IInv'
<1>1. p \in Callers /\ Begun \in Call /\ Idle \in Call /\ Begun.got = {} /\ Idle.got = {}
  BY DEF Callers, Begun, Idle, Call, Counted
<1>2. result' \in [Readers -> Result] /\ ResultsWithinCounted'
  BY DEF SyncBegin, SyncFail, IInv, TypeOK, ResultsWithinCounted, Within, Votes, Counted, storeVars
<1> QED
  BY <1>1, <1>2, CallStep DEF SyncBegin, SyncFail

LEMMA ResultsBeginIInv ==
    ASSUME IInv, NEW r \in Readers, NEW ok \in BOOLEAN, ResultsBegin(r, ok)
    PROVE  IInv'
<1> DEFINE m == IF ok THEN durable ELSE Zero
           q == [result[r] EXCEPT !.snapshot = m, !.durableOk = ok]
<1>1. r \in Callers /\ Begun \in Call /\ Begun.got = {} /\ Counted' = Counted
  BY DEF Callers, Begun, Call, Counted, ResultsBegin, storeVars
<1>2. m \in Totals /\ Within(m)
  BY VotesMonotone DEF IInv, TypeOK, Totals, Zero, Within, DurableNeverOvercounts, Counted
<1>3. result \in [Readers -> Result] /\ result' = [result EXCEPT ![r] = q]
  BY DEF ResultsBegin, IInv, TypeOK
<1>4. q \in Result
  BY <1>2, <1>3 DEF Result
<1>5. result' \in [Readers -> Result]
  BY <1>3, <1>4
<1>6. ResultsWithinCounted'
  BY <1>1, <1>2, <1>3 DEF IInv, ResultsWithinCounted, Within, Votes, Result
<1> QED
  BY <1>1, <1>5, <1>6, CallStep DEF ResultsBegin

(* Both ends of a results request put counted votes into its totals. *)
LEMMA ResultsEnd ==
    ASSUME IInv, NEW r \in Readers, NEW n \in Totals, Within(n), NEW live \in BOOLEAN,
           result' = [result EXCEPT ![r] = [@ EXCEPT !.liveOk = live, !.total = n]],
           NEW pc \in {"answered", "idle"}, call' = [call EXCEPT ![r] = Ended(pc)],
           UNCHANGED <<storeVars, durable>>
    PROVE  IInv'
<1> DEFINE q == [result[r] EXCEPT !.liveOk = live, !.total = n]
<1>1. /\ r \in Callers /\ result \in [Readers -> Result]
      /\ Counted' = Counted
  BY DEF Callers, IInv, TypeOK, Counted, storeVars
<1>2. Ended(pc) \in Call /\ Ended(pc).got = {}
  BY DEF Ended, Idle, Call
<1>3. q \in Result /\ result' = [result EXCEPT ![r] = q]
  BY <1>1 DEF Result
<1>4. result' \in [Readers -> Result]
  BY <1>1, <1>3
<1>5. ResultsWithinCounted'
  <2> SUFFICES ASSUME NEW x \in Readers
               PROVE  /\ \A o \in Options : result'[x].snapshot[o] <= Votes(Counted, o)
                      /\ \A o \in Options : result'[x].total[o] <= Votes(Counted, o)
    BY <1>1 DEF ResultsWithinCounted, Within, Votes
  <2>1. /\ \A o \in Options : result[x].snapshot[o] <= Votes(Counted, o)
        /\ \A o \in Options : result[x].total[o] <= Votes(Counted, o)
        /\ \A o \in Options : n[o] <= Votes(Counted, o)
    BY DEF IInv, ResultsWithinCounted, Within
  <2>2. CASE x = r
    BY <2>1, <2>2, <1>1, <1>3 DEF Result
  <2>3. CASE x # r
    BY <2>1, <2>3, <1>1, <1>3
  <2> QED
    BY <2>2, <2>3
<1> QED
  BY <1>1, <1>2, <1>4, <1>5, CallStep

LEMMA ResultsAnswerIInv ==
    ASSUME IInv, NEW r \in Readers, ResultsAnswer(r)
    PROVE  IInv'
<1> DEFINE n == [o \in Options |-> LargerOf(result[r].snapshot[o], Votes(call[r].got, o))]
<1>1. /\ result \in [Readers -> Result] /\ result[r].snapshot \in Totals
      /\ Within(result[r].snapshot)
      /\ call[r].got \subseteq Counted
  BY DEF IInv, TypeOK, Result, ResultsWithinCounted, SetsWithinCounted, Callers
<1>2. n \in Totals /\ Within(n)
  BY <1>1, LargerWithin, Zenon
<1>3. result' = [result EXCEPT ![r] = [@ EXCEPT !.liveOk = TRUE, !.total = n]]
  BY <1>1 DEF ResultsAnswer
<1> HIDE DEF n
<1> QED
  BY <1>2, <1>3, ResultsEnd DEF ResultsAnswer

LEMMA ResultsLiveFailsIInv ==
    ASSUME IInv, NEW r \in Readers, ResultsLiveFails(r)
    PROVE  IInv'
<1> DEFINE n == result[r].snapshot
           pc == IF result[r].durableOk THEN "answered" ELSE "idle"
<1>1. /\ result \in [Readers -> Result] /\ n \in Totals /\ Within(n)
      /\ result[r].liveOk \in BOOLEAN
  BY DEF IInv, TypeOK, Result, ResultsWithinCounted
<1>2. result' = [result EXCEPT ![r] = [@ EXCEPT !.liveOk = result[r].liveOk, !.total = n]]
  BY <1>1 DEF ResultsLiveFails, Result
<1>3. pc \in {"answered", "idle"} /\ call' = [call EXCEPT ![r] = Ended(pc)]
  BY DEF ResultsLiveFails
<1> QED
  BY <1>1, <1>2, <1>3, ResultsEnd DEF ResultsLiveFails

LEMMA ResultsOverIInv ==
    ASSUME IInv, NEW r \in Readers, ResultsOver(r)
    PROVE  IInv'
<1>1. r \in Callers /\ Idle \in Call /\ Idle.got = {}
  BY DEF Callers, Idle, Call
<1>2. /\ result \in [Readers -> Result] /\ Unanswered \in Result
      /\ Unanswered.snapshot = Zero /\ Unanswered.total = Zero
  BY DEF IInv, TypeOK, Result, Unanswered, Totals, Zero
<1>3. Within(Zero) /\ Counted' = Counted
  BY VotesMonotone DEF Within, Zero, Counted, ResultsOver, storeVars
<1>4. result' \in [Readers -> Result] /\ ResultsWithinCounted'
  BY <1>2, <1>3 DEF ResultsOver, IInv, ResultsWithinCounted, Within, Votes
<1> QED
  BY <1>1, <1>4, CallStep DEF ResultsOver

-----------------------------------------------------------------------------
(* The steps of Redis. *)

(* Counting a ballot, time and losses never make a ballot uncounted, and   *)
(* leave all that was derived from counted ballots alone.                  *)
LEMMA StoreStep ==
    ASSUME IInv, StoreTypeOK', Counted \subseteq Counted',
           \A s \in Shards : counts'[s] \subseteq Counted',
           UNCHANGED <<durable, call, result>>
    PROVE  IInv'
<1>1. TypeOK'
  BY DEF IInv, TypeOK
<1>2. SetsWithinCounted'
  BY DEF IInv, SetsWithinCounted
<1>3. durable \in Totals /\ Within(durable)
  BY DEF IInv, TypeOK, DurableNeverOvercounts, Within
<1>4. DurableNeverOvercounts'
  BY <1>3, WithinGrows DEF DurableNeverOvercounts
<1>5. ResultsWithinCounted'
  <2> SUFFICES ASSUME NEW r \in Readers
               PROVE  /\ \A o \in Options : result[r].snapshot[o] <= Votes(Counted', o)
                      /\ \A o \in Options : result[r].total[o] <= Votes(Counted', o)
    BY DEF ResultsWithinCounted, Within, Votes
  <2>1. /\ result[r].snapshot \in Totals /\ Within(result[r].snapshot)
        /\ result[r].total \in Totals /\ Within(result[r].total)
    BY DEF IInv, TypeOK, Result, ResultsWithinCounted
  <2> QED
    BY <2>1, WithinGrows
<1> QED
  BY <1>1, <1>2, <1>4, <1>5 DEF IInv

LEMMA CastIInv ==
    ASSUME IInv, NEW b \in Ballots, Cast(b)
    PROVE  IInv' /\ Counted' = Counted \cup {b}
<1> DEFINE s == ShardOfBallot(b)
<1>1. /\ voted' = [voted EXCEPT ![VoterOf[b]] = now + DedupTTL]
      /\ counts' = [counts EXCEPT ![s] = Live(s) \cup {b}]
      /\ expiry' = [expiry EXCEPT ![s] = IF now < @ THEN @ ELSE now + CounterRetention]
      /\ countedAt' = [countedAt EXCEPT ![b] = now]
      /\ UNCHANGED <<now, losses>>
      /\ UNCHANGED <<durable, call, result>>
  BY DEF Cast, Count
<1>2. StoreTypeOK /\ s \in Shards /\ now \in Nat \ {0} /\ Live(s) \subseteq counts[s]
  BY DEF IInv, TypeOK, StoreTypeOK, ShardOfBallot, Live
<1>3. Counted' = Counted \cup {b}
  BY <1>1, <1>2 DEF Counted, StoreTypeOK
<1>4. counts' \in [Shards -> SUBSET Ballots]
  BY <1>1, <1>2 DEF StoreTypeOK
<1>5. expiry' \in [Shards -> Nat]
  BY <1>1, <1>2 DEF StoreTypeOK
<1>6. StoreTypeOK'
  BY <1>1, <1>2, <1>4, <1>5 DEF StoreTypeOK
<1>7. \A t \in Shards : counts'[t] \subseteq Counted'
  BY <1>1, <1>2, <1>3 DEF IInv, SetsWithinCounted, StoreTypeOK
<1> QED
  BY <1>1, <1>3, <1>6, <1>7, StoreStep

LEMMA EnvironmentIInv ==
    ASSUME IInv, Environment
    PROVE  IInv' /\ Counted' = Counted
<1>1. Counted' = Counted
  BY DEF Environment, Tick, LoseShard, Counted
<1>2. StoreTypeOK'
  BY DEF Environment, Tick, LoseShard, IInv, TypeOK, StoreTypeOK
<1>3. \A s \in Shards : counts'[s] \subseteq Counted'
  BY <1>1 DEF Environment, Tick, LoseShard, IInv, TypeOK, StoreTypeOK, SetsWithinCounted
<1> QED
  BY <1>1, <1>2, <1>3, StoreStep DEF Environment

LEMMA StepIInv == IInv /\ [Next]_vars => IInv'
<1> SUFFICES ASSUME IInv, [Next]_vars PROVE IInv'
  OBVIOUS
<1>1. CASE \E b \in Ballots : Cast(b)
  BY <1>1, CastIInv
<1>2. CASE \E p \in Callers, s \in Shards : ReadShard(p, s)
  BY <1>2, ReadShardIInv
<1>3. CASE \E p \in Syncers : SyncBegin(p) \/ SyncSave(p) \/ SyncFail(p)
  BY <1>3, SyncBeginFailIInv, SyncSaveIInv
<1>4. CASE \E r \in Readers : \/ \E ok \in BOOLEAN : ResultsBegin(r, ok)
                              \/ ResultsAnswer(r) \/ ResultsLiveFails(r) \/ ResultsOver(r)
  BY <1>4, ResultsBeginIInv, ResultsAnswerIInv, ResultsLiveFailsIInv, ResultsOverIInv
<1>5. CASE Environment
  BY <1>5, EnvironmentIInv
<1>6. CASE UNCHANGED vars
  BY <1>6 DEF vars, IInv, TypeOK, StoreTypeOK, SetsWithinCounted, DurableNeverOvercounts,
              ResultsWithinCounted, Within, Votes, Counted
<1> QED
  BY <1>1, <1>2, <1>3, <1>4, <1>5, <1>6 DEF Next

-----------------------------------------------------------------------------
THEOREM Invariance == Spec => []IInv
  BY InitIInv, StepIInv, PTL DEF Spec

(* The synchroniser's and the results' state is well-formed in every       *)
(* reachable state (SyncService, Results).                                 *)
THEOREM TypeCorrect == Spec => []TypeOK
  BY Invariance, PTL DEF IInv

(* PostgreSQL never has more votes for an option than were counted, with   *)
(* any number of synchronisers, shards, losses and expiries (SaveResults). *)
THEOREM NeverOvercounts == Spec => []DurableNeverOvercounts
  BY Invariance, PTL DEF IInv

(* Nor does the admin ever see more (Results).                             *)
THEOREM AnswersWithinCounted == Spec => []AnswerWithinCounted
<1>1. IInv => AnswerWithinCounted
  BY DEF IInv, ResultsWithinCounted, Within, AnswerWithinCounted
<1> QED
  BY <1>1, Invariance, PTL

(* The vote path implements DurableTally: ballots are counted one by one,  *)
(* durable totals only rise and only to what was counted (castBallotScript,*)
(* SaveResults).                                                           *)
THEOREM Refinement == Spec => ImplementsDurableTally
<1>1. Init => Tally!TallyInit
  BY DEF Init, StoreInit, Tally!TallyInit, Counted, Zero
<1>2. IInv /\ [Next]_vars => [Tally!TallyNext]_(Tally!tallyVars)
  <2> SUFFICES ASSUME IInv, [Next]_vars
               PROVE  Tally!TallyNext \/ UNCHANGED <<Counted, durable>>
    BY DEF Tally!tallyVars
  <2>1. ASSUME NEW b \in Ballots, Cast(b) PROVE Tally!CountBallot(b)
    BY <2>1, CastIInv DEF Cast, Tally!CountBallot
  <2>2. ASSUME NEW p \in Syncers, SyncSave(p) PROVE Tally!Persist
    <3>1. IInv' /\ (\A o \in Options : durable[o] <= durable'[o]) /\ Counted' = Counted
      BY <2>2, SyncSaveIInv DEF SyncSave, storeVars, Counted
    <3>2. \A o \in Options : durable'[o] <= Votes(Counted, o)
      BY <3>1 DEF IInv, DurableNeverOvercounts, Votes
    <3>3. durable' \in [Options -> Nat]
      BY <3>1 DEF IInv, TypeOK, Totals
    <3> QED
      BY <3>1, <3>2, <3>3 DEF Tally!Persist
  <2>3. CASE Environment
    BY <2>3, EnvironmentIInv DEF Environment
  <2>4. CASE \E p \in Callers, s \in Shards : ReadShard(p, s)
    BY <2>4 DEF ReadShard, storeVars, Counted
  <2>5. CASE \E p \in Syncers : SyncBegin(p) \/ SyncFail(p)
    BY <2>5 DEF SyncBegin, SyncFail, storeVars, Counted
  <2>6. CASE \E r \in Readers : \/ \E ok \in BOOLEAN : ResultsBegin(r, ok)
                                \/ ResultsAnswer(r) \/ ResultsLiveFails(r) \/ ResultsOver(r)
    BY <2>6 DEF ResultsBegin, ResultsAnswer, ResultsLiveFails, ResultsOver, storeVars, Counted
  <2>7. CASE UNCHANGED vars
    BY <2>7 DEF vars, Counted
  <2> QED
    BY <2>1, <2>2, <2>3, <2>4, <2>5, <2>6, <2>7 DEF Next, Tally!TallyNext
<1> QED
  BY <1>1, <1>2, Invariance, PTL DEF Spec, ImplementsDurableTally, Tally!TallySpec

-----------------------------------------------------------------------------
(* Completeness.  What a caller has still to collect of the ballots that   *)
(* were counted before it began is in the shards it has not read, as far   *)
(* as Redis still holds it: a ballot is counted once and never comes back. *)
NothingMissed(p) ==
    /\ call[p].base \subseteq Counted
    /\ \A s \in Shards \ call[p].unread : Live(s) \cap call[p].base \subseteq call[p].got

(* A results request has live counters only once it has been answered.     *)
Complete ==
    /\ \A p \in Callers : call[p].pc = "reading" => NothingMissed(p)
    /\ \A r \in Readers : call[r].pc = "reading" => ~result[r].liveOk
    /\ \A r \in Readers : call[r].pc = "idle" => ~result[r].liveOk

(* A step of one caller leaves the others' calls as complete as they were. *)
LEMMA CallComplete ==
    ASSUME IInv, Complete, NEW p \in Callers, NEW c \in Call,
           call' = [call EXCEPT ![p] = c], UNCHANGED storeVars,
           c.pc = "reading" =>
              /\ c.base \subseteq Counted
              /\ \A s \in Shards \ c.unread : Live(s) \cap c.base \subseteq c.got,
           \A r \in Readers : call'[r].pc \in {"reading", "idle"} => ~result'[r].liveOk
    PROVE  Complete'
<1>1. /\ call'[p] = c /\ \A x \in Callers \ {p} : call'[x] = call[x]
      /\ Counted' = Counted /\ \A s \in Shards : Live(s)' = Live(s)
  BY DEF IInv, TypeOK, storeVars, Counted, Live
<1>2. ASSUME NEW x \in Callers, call'[x].pc = "reading" PROVE NothingMissed(x)'
  <2>1. CASE x = p
    BY <1>1, <1>2, <2>1 DEF NothingMissed
  <2>2. CASE x # p
    BY <1>1, <1>2, <2>2 DEF NothingMissed, Complete
  <2> QED
    BY <2>1, <2>2
<1> QED
  BY <1>2 DEF Complete

(* A step of Redis adds at most a ballot that no call has begun after.     *)
LEMMA StoreComplete ==
    ASSUME IInv, Complete, NEW B, Counted' = Counted \cup B, B \cap Counted = {},
           \A s \in Shards : Live(s)' \subseteq Live(s) \cup B,
           UNCHANGED <<call, result>>
    PROVE  Complete'
<1>1. ASSUME NEW p \in Callers, call[p].pc = "reading" PROVE NothingMissed(p)'
  BY <1>1 DEF Complete, NothingMissed
<1> QED
  BY <1>1 DEF Complete

LEMMA InitComplete == Init => Complete
  BY DEF Init, Complete, Idle, Unanswered, Callers

LEMMA StepComplete == IInv /\ Complete /\ [Next]_vars => Complete'
<1> SUFFICES ASSUME IInv, Complete, [Next]_vars PROVE Complete'
  OBVIOUS
<1>1. /\ call \in [Callers -> Call] /\ result \in [Readers -> Result]
      /\ Readers \subseteq Callers /\ Syncers \subseteq Callers
  BY DEF IInv, TypeOK, Callers
<1>2. ASSUME NEW b \in Ballots, Cast(b) PROVE Complete'
  <2> DEFINE t == ShardOfBallot(b)
  <2>1. Counted' = Counted \cup {b} /\ {b} \cap Counted = {}
    BY <1>2, CastIInv DEF Cast
  <2>2. ASSUME NEW s \in Shards PROVE Live(s)' \subseteq Live(s) \cup {b}
    <3>1. /\ counts' = [counts EXCEPT ![t] = Live(t) \cup {b}]
          /\ expiry' = [expiry EXCEPT ![t] = IF now < @ THEN @ ELSE now + CounterRetention]
          /\ now' = now /\ counts \in [Shards -> SUBSET Ballots] /\ expiry \in [Shards -> Nat]
      BY <1>2 DEF Cast, Count, IInv, TypeOK, StoreTypeOK
    <3>2. CASE s = t
      BY <3>1, <3>2 DEF Live
    <3>3. CASE s # t
      BY <3>1, <3>3 DEF Live
    <3> QED
      BY <3>2, <3>3
  <2>3. UNCHANGED <<call, result>>
    BY <1>2 DEF Cast
  <2> QED
    BY <2>1, <2>2, <2>3, StoreComplete
<1>3. CASE Environment
  <2>1. Counted' = Counted \cup {} /\ UNCHANGED <<call, result>>
    BY <1>3, EnvironmentIInv DEF Environment
  <2>2. ASSUME NEW s \in Shards PROVE Live(s)' \subseteq Live(s) \cup {}
    BY <1>3 DEF Environment, Tick, LoseShard, Live, IInv, TypeOK, StoreTypeOK
  <2> QED
    BY <2>1, <2>2, StoreComplete
<1>4. ASSUME NEW p \in Callers, NEW s \in Shards, ReadShard(p, s) PROVE Complete'
  <2> DEFINE q == [call[p] EXCEPT !.unread = @ \ {s}, !.got = @ \cup Live(s)]
  <2>1. /\ call' = [call EXCEPT ![p] = q] /\ UNCHANGED <<storeVars, result>>
        /\ call[p].pc = "reading" /\ call[p] \in Call /\ Live(s) \subseteq Ballots
    BY <1>1, <1>4 DEF ReadShard, IInv, TypeOK, StoreTypeOK, Live
  <2>2. /\ q \in Call /\ q.base = call[p].base /\ q.unread = call[p].unread \ {s}
        /\ q.got = call[p].got \cup Live(s)
    BY <2>1 DEF Call
  <2>3. NothingMissed(p)
    BY <2>1 DEF Complete
  <2>4. q.base \subseteq Counted /\ \A x \in Shards \ q.unread : Live(x) \cap q.base \subseteq q.got
    BY <2>2, <2>3 DEF NothingMissed
  <2>5. ASSUME NEW r \in Readers, call'[r].pc \in {"reading", "idle"} PROVE ~result'[r].liveOk
    BY <1>1, <2>1, <2>5 DEF Complete, Call
  <2> HIDE DEF q
  <2> QED
    BY <2>1, <2>2, <2>4, <2>5, CallComplete
<1>5. ASSUME NEW p \in Syncers, SyncBegin(p) \/ SyncSave(p) \/ SyncFail(p) PROVE Complete'
  <2>1. PICK c \in {Begun, Idle} :
          call' = [call EXCEPT ![p] = c] /\ UNCHANGED <<storeVars, result>>
    BY <1>5 DEF SyncBegin, SyncSave, SyncFail
  <2>2. c \in Call /\ (c.pc = "reading" => c.base = Counted /\ c.unread = Shards)
    BY <2>1 DEF Begun, Idle, Call, Counted
  <2>3. \A r \in Readers : r # p
    BY CallersAssumption
  <2>4. ASSUME NEW r \in Readers, call'[r].pc \in {"reading", "idle"} PROVE ~result'[r].liveOk
    BY <1>1, <2>1, <2>3, <2>4 DEF Complete
  <2> QED
    BY <1>1, <2>1, <2>2, <2>4, CallComplete
<1>6. ASSUME NEW r \in Readers, NEW ok \in BOOLEAN, ResultsBegin(r, ok) PROVE Complete'
  <2>1. Begun \in Call /\ Begun.base = Counted /\ Begun.unread = Shards
    BY DEF Begun, Call, Counted
  <2>2. ~result[r].liveOk /\ UNCHANGED storeVars /\ call' = [call EXCEPT ![r] = Begun]
    BY <1>6 DEF ResultsBegin, Complete, storeVars
  <2>3. \A x \in Readers : result'[x].liveOk = result[x].liveOk
    BY <1>1, <1>6 DEF ResultsBegin, Result
  <2>4. ASSUME NEW x \in Readers, call'[x].pc \in {"reading", "idle"} PROVE ~result'[x].liveOk
    BY <1>1, <2>2, <2>3, <2>4 DEF Complete
  <2> QED
    BY <1>1, <2>1, <2>2, <2>4, CallComplete
<1>7. ASSUME NEW r \in Readers, ResultsAnswer(r) \/ ResultsLiveFails(r) \/ ResultsOver(r)
      PROVE  Complete'
  <2>1. PICK pc \in {"answered", "idle"} :
          /\ call' = [call EXCEPT ![r] = Ended(pc)] /\ UNCHANGED storeVars
          /\ pc = "idle" => ~result'[r].liveOk
    <3>1. CASE ResultsAnswer(r)
      BY <3>1 DEF ResultsAnswer, storeVars
    <3>2. CASE ResultsLiveFails(r)
      <4>1. ~result[r].liveOk /\ result'[r].liveOk = result[r].liveOk
        BY <1>1, <3>2 DEF ResultsLiveFails, Complete, Result
      <4> QED
        BY <3>2, <4>1 DEF ResultsLiveFails
    <3>3. CASE ResultsOver(r)
      <4>1. Ended("idle") = Idle /\ ~result'[r].liveOk
        BY <1>1, <3>3 DEF ResultsOver, Ended, Idle, Unanswered
      <4> QED
        BY <3>3, <4>1 DEF ResultsOver
    <3> QED
      BY <1>7, <3>1, <3>2, <3>3
  <2>2. Ended(pc) \in Call /\ Ended(pc).pc = pc
    BY <2>1 DEF Ended, Idle, Call
  <2>3. \A x \in Readers \ {r} : result'[x] = result[x]
    BY <1>1, <1>7 DEF ResultsAnswer, ResultsLiveFails, ResultsOver
  <2>4. ASSUME NEW x \in Readers, call'[x].pc \in {"reading", "idle"} PROVE ~result'[x].liveOk
    BY <1>1, <2>1, <2>2, <2>3, <2>4 DEF Complete
  <2> QED
    BY <1>1, <2>1, <2>2, <2>4, CallComplete
<1>8. CASE UNCHANGED vars
  BY <1>8 DEF vars, Complete, NothingMissed, Counted, Live
<1> QED
  BY <1>2, <1>3, <1>4, <1>5, <1>6, <1>7, <1>8 DEF Next

(* What a caller has read when nothing is unread contains all that was     *)
(* counted before it began and is still in Redis.                          *)
LEMMA ReadIsComplete ==
    ASSUME IInv, Complete, NEW p \in Callers, call[p].pc = "reading", call[p].unread = {},
           NEW o
    PROVE  /\ Votes(call[p].base \cap LiveBallots, o) \in Nat /\ Votes(call[p].got, o) \in Nat
           /\ Votes(call[p].base \cap LiveBallots, o) <= Votes(call[p].got, o)
<1>1. /\ call[p].base \cap LiveBallots \subseteq call[p].got
      /\ call[p].got \subseteq Ballots
  BY DEF Complete, NothingMissed, LiveBallots, IInv, TypeOK, Call
<1> QED
  BY <1>1, VotesMonotone

THEOREM CompletenessInvariance == Spec => []Complete
  BY InitComplete, StepComplete, Invariance, PTL DEF Spec

(* A cycle that saves leaves durable totals no less than the ballots that  *)
(* were counted before it began and that Redis still holds, whatever part  *)
(* of them has expired or been lost, although it read the shards one by    *)
(* one while ballots came in and others saved (Counters, SaveResults).     *)
THEOREM SavesAll == Spec => SavedCycleIsComplete
<1> DEFINE Saves == \A p \in Syncers :
                       SyncSave(p) => \A o \in Options :
                                         Votes(call[p].base \cap LiveBallots, o) <= durable'[o]
<1>1. ASSUME IInv, Complete, NEW p \in Syncers, SyncSave(p), NEW o \in Options
      PROVE  Votes(call[p].base \cap LiveBallots, o) <= durable'[o]
  <2>1. p \in Callers /\ call[p].pc = "reading" /\ call[p].unread = {}
    BY <1>1 DEF SyncSave, Callers
  <2>2. durable'[o] = LargerOf(durable[o], Votes(call[p].got, o)) /\ durable[o] \in Nat
    BY <1>1 DEF SyncSave, IInv, TypeOK, Totals
  <2> QED
    BY <1>1, <2>1, <2>2, ReadIsComplete DEF LargerOf
<1>2. IInv /\ Complete /\ [Next]_vars => [Saves]_vars
  BY <1>1
<1> QED
  BY <1>2, Invariance, CompletenessInvariance, PTL DEF Spec, SavedCycleIsComplete

(* The totals shown to the admin from live counters are no less than the   *)
(* ballots counted before the request began that Redis still holds,        *)
(* whatever part of them has expired or been lost (Results).               *)
THEOREM AnswersAll == Spec => AnswerIsComplete
<1> DEFINE Answers == \A r \in Readers :
                         call[r].pc = "reading" /\ call'[r].pc = "answered" /\ result'[r].liveOk
                         => \A o \in Options :
                               Votes(call[r].base \cap LiveBallots, o) <= result'[r].total[o]
<1>1. ASSUME IInv, Complete, Next, NEW r \in Readers, NEW o \in Options,
             call[r].pc = "reading", call'[r].pc = "answered", result'[r].liveOk
      PROVE  Votes(call[r].base \cap LiveBallots, o) <= result'[r].total[o]
  <2>1. /\ r \in Callers /\ r \notin Syncers /\ call \in [Callers -> Call]
        /\ result \in [Readers -> Result] /\ ~result[r].liveOk
    BY <1>1 DEF IInv, TypeOK, Callers, Complete
  <2>2. ResultsAnswer(r)
    <3>1. call'[r] # call[r] /\ result'[r] # result[r]
      BY <1>1, <2>1
    <3>2. ~ \E b \in Ballots : Cast(b)
      BY <3>1 DEF Cast
    <3>3. ~ \E p \in Callers, s \in Shards : ReadShard(p, s)
      BY <3>1 DEF ReadShard
    <3>4. ~ \E p \in Syncers : SyncBegin(p) \/ SyncSave(p) \/ SyncFail(p)
      BY <3>1 DEF SyncBegin, SyncSave, SyncFail
    <3>5. ~ \E x \in Readers, ok \in BOOLEAN : ResultsBegin(x, ok)
      BY <1>1, <2>1 DEF ResultsBegin, Begun
    <3>6. ~ \E x \in Readers : ResultsLiveFails(x)
      BY <1>1, <2>1 DEF ResultsLiveFails, Result
    <3>7. ~Environment /\ ~ \E x \in Readers : ResultsOver(x)
      BY <1>1, <2>1, <3>1 DEF Environment, ResultsOver, Unanswered
    <3>8. PICK x \in Readers : ResultsAnswer(x)
      BY <1>1, <3>2, <3>3, <3>4, <3>5, <3>6, <3>7 DEF Next
    <3> QED
      BY <2>1, <3>1, <3>8 DEF ResultsAnswer
  <2>3. call[r].unread = {} /\ result[r].snapshot[o] \in Nat
    BY <2>1, <2>2 DEF ResultsAnswer, Result, Totals
  <2>4. result'[r].total[o] = LargerOf(result[r].snapshot[o], Votes(call[r].got, o))
    BY <2>1, <2>2 DEF ResultsAnswer, Result
  <2> QED
    BY <1>1, <2>1, <2>3, <2>4, ReadIsComplete DEF LargerOf
<1>2. IInv /\ Complete /\ [Next]_vars => [Answers]_vars
  BY <1>1
<1> QED
  BY <1>2, Invariance, CompletenessInvariance, PTL DEF Spec, AnswerIsComplete
=============================================================================
