-------------------------- MODULE CastBallotProofs --------------------------
(***************************************************************************)
(* Proofs about CastBallot, for every number of ballots, voters, shards    *)
(* and retries and every length of the windows.                            *)
(***************************************************************************)
EXTENDS CastBallot, TLAPS

(* The dedup slot of a voter is held at least DedupTTL past each of the    *)
(* voter's counted ballots, while nothing has been lost...                 *)
SlotOutlastsBallots ==
    losses = 0 => \A b \in Counted : countedAt[b] + DedupTTL <= voted[VoterOf[b]]

(* ... and a slot that is held was taken by a counted ballot.              *)
SlotHasBallot ==
    \A v \in Voters : voted[v] > 0 =>
        \E c \in Counted : VoterOf[c] = v /\ voted[v] = countedAt[c] + DedupTTL

(* A request was sent, and its ballot counted, no longer before its        *)
(* deadline than the time a request has.                                   *)
RequestsInTime ==
    \A b \in Ballots :
        /\ countedAt[b] <= now
        /\ req[b].deadline <= now + RequestTimeout
        /\ b \in Counted => req[b].pc # "new"
                            /\ req[b].deadline <= countedAt[b] + RequestTimeout
        /\ req[b].pc = "new" => req[b].inFlight = {}
        /\ req[b].reply = "counted" \/ req[b].pc = "accepted" => b \in Counted

IInv ==
    /\ TypeOK
    /\ SlotOutlastsBallots
    /\ SlotHasBallot
    /\ RequestsInTime
    /\ OneBallotPerDedupWindow

USE BallotsAssumption, ShardsAssumption, TimesAssumption, RequestAssumption

(* What remains to be shown of a step that leaves Redis alone. *)
LEMMA QuietStep ==
    ASSUME IInv, UNCHANGED storeVars, req' \in [Ballots -> Request], RequestsInTime'
    PROVE  IInv'
  BY DEF IInv, TypeOK, StoreTypeOK, storeVars, SlotOutlastsBallots, SlotHasBallot,
         OneBallotPerDedupWindow, Counted

LEMMA InitIInv == Init => IInv
  BY DEF Init, StoreInit, IInv, TypeOK, StoreTypeOK, NewRequest, Request, Replies, Answers,
         SlotOutlastsBallots, SlotHasBallot, RequestsInTime, OneBallotPerDedupWindow, Counted

(* An attempt that finds the slot free carries a ballot that was not       *)
(* counted before: here RequestTimeout + NetworkDelay <= DedupTTL is used. *)
LEMMA CountsNewBallot ==
    ASSUME IInv, NEW b \in Ballots, NEW i \in Attempts, RunCounting(b, i), losses = 0
    PROVE  b \notin Counted
<1>1. /\ ~(now < voted[VoterOf[b]])
      /\ now < req[b].deadline + NetworkDelay
  BY DEF RunCounting, Run, Count, Claimed
<1>2. /\ now \in Nat /\ countedAt[b] \in Nat /\ VoterOf[b] \in Voters
      /\ voted[VoterOf[b]] \in Nat /\ req[b].deadline \in Nat
  BY DEF IInv, TypeOK, StoreTypeOK, Request
<1>3. b \in Counted => /\ countedAt[b] + DedupTTL <= voted[VoterOf[b]]
                       /\ req[b].deadline <= countedAt[b] + RequestTimeout
  BY DEF IInv, SlotOutlastsBallots, RequestsInTime
<1> QED
  BY <1>1, <1>2, <1>3

LEMMA RunCountingIInv ==
    ASSUME IInv, NEW b \in Ballots, NEW i \in Attempts, RunCounting(b, i)
    PROVE  IInv'
<1> DEFINE v == VoterOf[b]
           s == ShardOfBallot(b)
<1>1. /\ i \in req[b].inFlight /\ now < req[b].deadline + NetworkDelay
      /\ req' = [req EXCEPT ![b].inFlight = @ \ {i},
                            ![b].reply = IF i = req[b].attempt THEN "counted" ELSE @]
      /\ ~(now < voted[v])
      /\ voted' = [voted EXCEPT ![v] = now + DedupTTL]
      /\ counts' = [counts EXCEPT ![s] = Live(s) \cup {b}]
      /\ expiry' = [expiry EXCEPT ![s] = IF now < @ THEN @ ELSE now + CounterRetention]
      /\ countedAt' = [countedAt EXCEPT ![b] = now]
      /\ now' = now /\ losses' = losses
  BY DEF RunCounting, Run, Count, Claimed
<1>2. TypeOK
  BY DEF IInv
<1>3. /\ v \in Voters /\ s \in Shards
      /\ now \in Nat /\ now >= 1
      /\ voted \in [Voters -> Nat] /\ countedAt \in [Ballots -> Nat]
      /\ req \in [Ballots -> Request]
  BY <1>2 DEF TypeOK, StoreTypeOK, ShardOfBallot
<1>4. TypeOK'
  <2>1. Live(s) \cup {b} \in SUBSET Ballots
    BY <1>2, <1>3 DEF TypeOK, StoreTypeOK, Live
  <2>2. counts' \in [Shards -> SUBSET Ballots]
    BY <1>1, <1>2, <2>1 DEF TypeOK, StoreTypeOK
  <2>3. expiry' \in [Shards -> Nat]
    BY <1>1, <1>2, <1>3 DEF TypeOK, StoreTypeOK
  <2>4. req' \in [Ballots -> Request]
    <3> DEFINE q == [req[b] EXCEPT !.inFlight = @ \ {i},
                                   !.reply = IF i = req[b].attempt THEN "counted" ELSE @]
    <3>1. req' = [req EXCEPT ![b] = q]
      BY <1>1, <1>3
    <3>2. q \in Request
      BY <1>3 DEF Request, Replies
    <3> QED
      BY <3>1, <3>2, <1>3
  <2> QED
    BY <1>1, <1>2, <1>3, <2>2, <2>3, <2>4 DEF TypeOK, StoreTypeOK
<1>5. Counted' = Counted \cup {b}
  BY <1>1, <1>3 DEF Counted
<1>6. SlotOutlastsBallots'
  <2> SUFFICES ASSUME losses = 0, NEW c \in Counted'
               PROVE  countedAt'[c] + DedupTTL <= voted'[VoterOf[c]]
    BY <1>1 DEF SlotOutlastsBallots
  <2>1. CASE c = b
    BY <2>1, <1>1, <1>3
  <2>2. CASE c # b
    <3>1. c \in Counted /\ c \in Ballots /\ VoterOf[c] \in Voters
      BY <2>2, <1>5 DEF Counted
    <3>2. countedAt'[c] = countedAt[c] /\ countedAt[c] <= now
      BY <2>2, <3>1, <1>1, <1>3 DEF IInv, RequestsInTime
    <3>3. countedAt[c] + DedupTTL <= voted[VoterOf[c]]
      BY <3>1 DEF IInv, SlotOutlastsBallots
    <3> QED
      BY <3>1, <3>2, <3>3, <1>1, <1>3
  <2> QED
    BY <2>1, <2>2
<1>7. SlotHasBallot'
  <2> SUFFICES ASSUME NEW w \in Voters, voted'[w] > 0
               PROVE  \E c \in Counted' : VoterOf[c] = w /\ voted'[w] = countedAt'[c] + DedupTTL
    BY DEF SlotHasBallot
  <2>1. CASE w = v
    BY <2>1, <1>1, <1>3, <1>5
  <2>2. CASE w # v
    <3>1. PICK c \in Counted : VoterOf[c] = w /\ voted[w] = countedAt[c] + DedupTTL
      BY <2>2, <1>1, <1>3 DEF IInv, SlotHasBallot
    <3>2. c # b /\ c \in Ballots
      BY <3>1, <2>2 DEF Counted
    <3> QED
      BY <3>1, <3>2, <2>2, <1>1, <1>3, <1>5
  <2> QED
    BY <2>1, <2>2
<1>8. RequestsInTime'
  BY <1>1, <1>3, <1>5 DEF IInv, RequestsInTime, Request, Replies, Answers
<1>9. OneBallotPerDedupWindow'
  <2> SUFFICES ASSUME losses = 0, NEW c \in Counted', NEW d \in Counted',
                      c # d, VoterOf[c] = VoterOf[d], countedAt'[c] <= countedAt'[d]
               PROVE  countedAt'[c] + DedupTTL <= countedAt'[d]
    BY <1>1 DEF OneBallotPerDedupWindow
  <2>1. c \in Ballots /\ d \in Ballots
    BY DEF Counted
  <2>2. \A e \in Counted : e # b /\ VoterOf[e] = v => countedAt[e] + DedupTTL <= now
    BY <1>1, <1>3 DEF IInv, SlotOutlastsBallots, Counted
  <2>3. CASE d = b
    BY <2>1, <2>2, <2>3, <1>1, <1>3, <1>5
  <2>4. CASE c = b
    BY <2>1, <2>2, <2>4, <1>1, <1>3, <1>5
  <2>5. CASE c # b /\ d # b
    BY <2>1, <2>5, <1>1, <1>3, <1>5 DEF IInv, OneBallotPerDedupWindow
  <2> QED
    BY <2>3, <2>4, <2>5
<1> QED
  BY <1>4, <1>6, <1>7, <1>8, <1>9 DEF IInv

LEMMA TickIInv == ASSUME IInv, Tick, UNCHANGED req PROVE IInv'
  BY DEF IInv, Tick, TypeOK, StoreTypeOK, SlotOutlastsBallots, SlotHasBallot,
         RequestsInTime, OneBallotPerDedupWindow, Counted, Request

(* A loss frees slots and forgets counters, but voids the claims about     *)
(* windows with it.                                                        *)
LEMMA LoseShardIInv ==
    ASSUME IInv, NEW s \in Shards, LoseShard(s), UNCHANGED req
    PROVE  IInv'
<1>1. TypeOK'
  BY DEF IInv, LoseShard, TypeOK, StoreTypeOK
<1>2. losses' # 0
  BY DEF IInv, LoseShard, TypeOK, StoreTypeOK
<1>3. UNCHANGED <<now, countedAt, req>> /\ Counted' = Counted
  BY DEF LoseShard, Counted
<1>4. SlotHasBallot'
  BY <1>3 DEF IInv, LoseShard, SlotHasBallot
<1>5. RequestsInTime'
  BY <1>3 DEF IInv, RequestsInTime
<1> QED
  BY <1>1, <1>2, <1>4, <1>5 DEF IInv, SlotOutlastsBallots, OneBallotPerDedupWindow

LEMMA StepIInv == IInv /\ [Next]_vars => IInv'
<1> SUFFICES ASSUME IInv, [Next]_vars PROVE IInv'
  OBVIOUS
<1>1. /\ req \in [Ballots -> Request]
      /\ now \in Nat
  BY DEF IInv, TypeOK, StoreTypeOK
<1>2. ASSUME NEW b \in Ballots, Send(b) PROVE IInv'
  <2>1. req' \in [Ballots -> Request]
    BY <1>1, <1>2 DEF Send, Request, Attempts, Replies
  <2>2. RequestsInTime'
    BY <1>1, <1>2 DEF IInv, Send, storeVars, RequestsInTime, Counted, Request
  <2> QED
    BY <2>1, <2>2, <1>2, QuietStep DEF Send
<1>3. ASSUME NEW b \in Ballots, Resend(b) PROVE IInv'
  <2> DEFINE q == [req[b] EXCEPT !.attempt = @ + 1,
                                 !.inFlight = @ \cup {req[b].attempt + 1},
                                 !.reply = "none"]
  <2>1. req' = [req EXCEPT ![b] = q]
    BY <1>1, <1>3 DEF Resend
  <2>2. q \in Request
    <3>1. req[b].attempt + 1 \in Attempts
      BY <1>1, <1>3 DEF Resend, Request, Attempts
    <3>2. req[b].attempt + 1 \in 0 .. MaxRetries + 1
      BY <3>1 DEF Attempts
    <3>3. req[b].inFlight \cup {req[b].attempt + 1} \in SUBSET Attempts
      BY <1>1, <3>1 DEF Request
    <3> QED
      BY <1>1, <3>2, <3>3 DEF Request, Replies
  <2>3. req' \in [Ballots -> Request]
    BY <1>1, <2>1, <2>2
  <2>4. RequestsInTime'
    BY <1>1, <1>3, <2>1 DEF IInv, Resend, storeVars, RequestsInTime, Counted, Request
  <2> QED
    BY <2>3, <2>4, <1>3, QuietStep DEF Resend
<1>4. ASSUME NEW b \in Ballots, Answer(b) PROVE IInv'
  <2>1. req' \in [Ballots -> Request]
    BY <1>1, <1>4 DEF Answer, Request, Answers
  <2>2. RequestsInTime'
    BY <1>1, <1>4 DEF IInv, Answer, storeVars, RequestsInTime, Counted, Request
  <2> QED
    BY <2>1, <2>2, <1>4, QuietStep DEF Answer
<1>5. ASSUME NEW b \in Ballots, GiveUp(b) PROVE IInv'
  <2>1. req' \in [Ballots -> Request]
    BY <1>1, <1>5 DEF GiveUp, Request, Answers
  <2>2. RequestsInTime'
    BY <1>1, <1>5 DEF IInv, GiveUp, storeVars, RequestsInTime, Counted, Request
  <2> QED
    BY <2>1, <2>2, <1>5, QuietStep DEF GiveUp
<1>6. ASSUME NEW b \in Ballots, NEW i \in Attempts, RunRefusing(b, i) PROVE IInv'
  <2> DEFINE q == [req[b] EXCEPT !.inFlight = @ \ {i},
                                 !.reply = IF i = req[b].attempt THEN "refused" ELSE @]
  <2>1. req' = [req EXCEPT ![b] = q]
    BY <1>1, <1>6 DEF RunRefusing, Run
  <2>2. q \in Request
    BY <1>1 DEF Request, Replies
  <2>3. req' \in [Ballots -> Request]
    BY <1>1, <2>1, <2>2
  <2>4. UNCHANGED storeVars
    BY <1>6 DEF RunRefusing, Refuse
  <2>5. RequestsInTime'
    BY <1>1, <1>6, <2>1, <2>4 DEF IInv, RunRefusing, Run, storeVars, RequestsInTime, Counted, Request
  <2> QED
    BY <2>3, <2>4, <2>5, QuietStep
<1>7. ASSUME NEW b \in Ballots, NEW i \in Attempts, RunCounting(b, i) PROVE IInv'
  BY <1>7, RunCountingIInv
<1>8. CASE Environment
  BY <1>8, TickIInv, LoseShardIInv DEF Environment
<1>9. CASE UNCHANGED vars
  BY <1>9, QuietStep DEF vars, storeVars, IInv, TypeOK, RequestsInTime, Counted
<1> QED
  BY <1>2, <1>3, <1>4, <1>5, <1>6, <1>7, <1>8, <1>9 DEF Next

-----------------------------------------------------------------------------
THEOREM Invariance == Spec => []IInv
<1>1. Init => IInv
  BY InitIInv
<1>2. IInv /\ [Next]_vars => IInv'
  BY StepIInv
<1> QED
  BY <1>1, <1>2, PTL DEF Spec

(* The state of a ballot's request and of its Redis keys is well-formed in *)
(* every reachable state (Store.CastBallot).                               *)
THEOREM TypeCorrect == Spec => []TypeOK
  BY Invariance, PTL DEF IInv

(* A device that reaches Redis with any number of ballots, resent any      *)
(* number of times, votes once per VOTE_DEDUP_TTL (castBallotScript).      *)
THEOREM VotesOncePerWindow == Spec => []OneBallotPerDedupWindow
  BY Invariance, PTL DEF IInv

(* Accepted means counted, whichever of the attempts was answered          *)
(* (Store.CastBallot).                                                     *)
THEOREM AcceptedCounted == Spec => []AcceptedIsCounted
<1>1. IInv => AcceptedIsCounted
  BY DEF IInv, RequestsInTime, AcceptedIsCounted
<1> QED
  BY <1>1, Invariance, PTL

(* No resent or late attempt counts a ballot again (castBallotScript with  *)
(* the retries of clients.go).                                             *)
THEOREM NeverCountedTwice == Spec => CountedOnce
<1> DEFINE Once == \A b \in Ballots :
                      b \in Counted /\ losses = 0 => countedAt'[b] = countedAt[b]
<1>1. IInv /\ [Next]_vars => [Once]_vars
  <2> SUFFICES ASSUME IInv, Next, NEW b \in Ballots, b \in Counted, losses = 0
               PROVE  countedAt'[b] = countedAt[b]
    OBVIOUS
  <2>1. CASE \E c \in Ballots, i \in Attempts : RunCounting(c, i)
    <3>1. PICK c \in Ballots, i \in Attempts : RunCounting(c, i)
      BY <2>1
    <3>2. b # c
      BY <3>1, CountsNewBallot
    <3>3. countedAt \in [Ballots -> Nat] /\ countedAt' = [countedAt EXCEPT ![c] = now]
      BY <3>1 DEF RunCounting, Count, IInv, TypeOK, StoreTypeOK
    <3> QED
      BY <3>2, <3>3
  <2>2. CASE ~ \E c \in Ballots, i \in Attempts : RunCounting(c, i)
    BY <2>2 DEF Next, Send, Resend, Answer, GiveUp, RunRefusing, Refuse, Environment,
                Tick, LoseShard, storeVars
  <2> QED
    BY <2>1, <2>2
<1> QED
  BY <1>1, Invariance, PTL DEF Spec, CountedOnce

(* A voter is turned away only by a counted ballot of theirs that is       *)
(* younger than VOTE_DEDUP_TTL (castBallotScript).                         *)
THEOREM NeverLockedOut == Spec => RefusedOnlyWithinWindow
<1> DEFINE Young(b) == \E c \in Counted : VoterOf[c] = VoterOf[b] /\ now < countedAt[c] + DedupTTL
           Locked == \A b \in Ballots :
                        req[b].reply # "refused" /\ req'[b].reply = "refused" => Young(b)
<1>1. IInv /\ [Next]_vars => [Locked]_vars
  <2> SUFFICES ASSUME IInv, Next, NEW b \in Ballots,
                      req[b].reply # "refused", req'[b].reply = "refused"
               PROVE  Young(b)
    OBVIOUS
  <2>1. req \in [Ballots -> Request]
    BY DEF IInv, TypeOK
  <2>2. PICK i \in Attempts : RunRefusing(b, i)
    <3>1. ASSUME NEW c \in Ballots, Send(c) \/ Resend(c) \/ Answer(c) \/ GiveUp(c)
          PROVE  req'[b].reply # "refused"
      BY <2>1, <3>1 DEF Send, Resend, Answer, GiveUp, Request
    <3>2. ASSUME NEW c \in Ballots, NEW i \in Attempts, RunCounting(c, i)
          PROVE  req'[b].reply # "refused"
      BY <2>1, <3>2 DEF RunCounting, Run, Request
    <3>3. ASSUME NEW c \in Ballots, NEW i \in Attempts, RunRefusing(c, i)
          PROVE  b = c
      BY <2>1, <3>3 DEF RunRefusing, Run, Request
    <3>4. ~ Environment
      BY DEF Environment
    <3> QED
      BY <3>1, <3>2, <3>3, <3>4 DEF Next
  <2>3. VoterOf[b] \in Voters /\ now < voted[VoterOf[b]]
    BY <2>2 DEF RunRefusing, Refuse, Claimed
  <2>4. voted[VoterOf[b]] > 0
    BY <2>3 DEF IInv, TypeOK, StoreTypeOK
  <2> QED
    BY <2>3, <2>4 DEF IInv, SlotHasBallot
<1> QED
  BY <1>1, Invariance, PTL DEF Spec, RefusedOnlyWithinWindow
=============================================================================
