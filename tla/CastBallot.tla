------------------------------ MODULE CastBallot ------------------------------
(***************************************************************************)
(* One ballot's way through Store.CastBallot (internal/votestore): the API *)
(* sends the script, go-redis sends it again when an attempt times out or  *)
(* its connection breaks (clients.go sets MaxRetries), and an attempt that *)
(* was given up on may still reach Redis and run.  What the voter is told  *)
(* depends on the reply to the last attempt alone.                         *)
(*                                                                         *)
(* Two ballots of one voter are two requests: a second tab, a resubmitted  *)
(* form, another device with the same cookie.                              *)
(***************************************************************************)
EXTENDS VoteStore

CONSTANTS
    MaxRetries,     \* REDIS_MAX_RETRIES
    RequestTimeout, \* HTTP_REQUEST_TIMEOUT, the context deadline of a request
    NetworkDelay    \* how long after it Redis may still run an attempt on its way

(* config.go bounds HTTP_REQUEST_TIMEOUT by one minute from above and      *)
(* VOTE_DEDUP_TTL by one minute from below; that the time an attempt may   *)
(* spend on its way fits in between as well is assumed.                    *)
ASSUME RequestAssumption ==
    /\ MaxRetries \in Nat
    /\ RequestTimeout \in Nat /\ NetworkDelay \in Nat
    /\ RequestTimeout + NetworkDelay <= DedupTTL

VARIABLE req    \* req[b]: the request that carries ballot b

vars == <<now, voted, counts, expiry, countedAt, losses, req>>

Attempts == 1 .. MaxRetries + 1
Replies == {"none", "counted", "refused"}
Answers == {"accepted", "already_voted", "unavailable"}

Request == [pc       : {"new", "waiting"} \cup Answers,
            attempt  : 0 .. MaxRetries + 1,  \* the attempt being waited for
            inFlight : SUBSET Attempts,      \* attempts Redis has yet to run
            reply    : Replies,              \* to the attempt waited for
            deadline : Nat]

NewRequest == [pc |-> "new", attempt |-> 0, inFlight |-> {}, reply |-> "none", deadline |-> 0]

TypeOK == StoreTypeOK /\ req \in [Ballots -> Request]

Init == StoreInit /\ req = [b \in Ballots |-> NewRequest]

-----------------------------------------------------------------------------
(* Mutated forms of the definitions below, used by the mutant runs only. *)

ResendOnceMore(b) ==
    /\ req[b].pc = "waiting"
    /\ req[b].attempt <= MaxRetries + 1
    /\ now < req[b].deadline
    /\ req' = [req EXCEPT ![b].attempt = @ + 1,
                          ![b].inFlight = @ \cup {req[b].attempt + 1},
                          ![b].reply = "none"]
    /\ UNCHANGED storeVars

AcceptUnlessRefused(b) ==
    /\ req[b].pc = "waiting"
    /\ req' = [req EXCEPT ![b].pc =
                  IF req[b].reply = "refused" THEN "already_voted" ELSE "accepted"]
    /\ UNCHANGED storeVars

-----------------------------------------------------------------------------
(* The service has let the ballot pass its checks; the script is sent. *)
Send(b) ==
    /\ req[b].pc = "new"
    /\ req' = [req EXCEPT ![b] = [pc |-> "waiting", attempt |-> 1, inFlight |-> {1},
                                  reply |-> "none", deadline |-> now + RequestTimeout]]
    /\ UNCHANGED storeVars

(* Attempt i is run by Redis.  Its reply counts only while it is the one   *)
(* waited for: go-redis has dropped the connection of every earlier one.   *)
(* The deadline stops the resending, not an attempt that is on its way:    *)
(* the client's sockets keep their own timeouts.                           *)
Run(b, i, reply) ==
    /\ i \in req[b].inFlight
    /\ now < req[b].deadline + NetworkDelay
    /\ req' = [req EXCEPT ![b].inFlight = @ \ {i},
                          ![b].reply = IF i = req[b].attempt THEN reply ELSE @]

RunCounting(b, i) == Run(b, i, "counted") /\ Count(b)
RunRefusing(b, i) == Run(b, i, "refused") /\ Refuse(b)

(* The attempt timed out or its connection broke, whether or not Redis has *)
(* run it: go-redis forgets it and sends the script again.                 *)
Resend(b) ==
    /\ req[b].pc = "waiting"
    /\ req[b].attempt <= MaxRetries
    /\ now < req[b].deadline
    /\ req' = [req EXCEPT ![b].attempt = @ + 1,
                          ![b].inFlight = @ \cup {req[b].attempt + 1},
                          ![b].reply = "none"]
    /\ UNCHANGED storeVars

(* CastBallot returns what the script returned: 1 is accepted, anything    *)
(* else is already_voted.                                                  *)
Answer(b) ==
    /\ req[b].pc = "waiting"
    /\ req[b].reply # "none"
    /\ req' = [req EXCEPT ![b].pc =
                  IF req[b].reply = "counted" THEN "accepted" ELSE "already_voted"]
    /\ UNCHANGED storeVars

(* The script could not be run, as far as the API can tell: the retries    *)
(* are spent, the error is not one to retry, or the context has ended.     *)
GiveUp(b) ==
    /\ req[b].pc = "waiting"
    /\ req' = [req EXCEPT ![b].pc = "unavailable"]
    /\ UNCHANGED storeVars

Environment ==
    /\ Tick \/ \E s \in Shards : LoseShard(s)
    /\ UNCHANGED req

Next ==
    \/ \E b \in Ballots :
          \/ Send(b)
          \/ Resend(b)
          \/ Answer(b)
          \/ GiveUp(b)
          \/ \E i \in Attempts : RunCounting(b, i) \/ RunRefusing(b, i)
    \/ Environment

Spec == Init /\ [][Next]_vars

-----------------------------------------------------------------------------
(* One device votes once per dedup window: as long as Redis keeps its      *)
(* data, two counted ballots of one voter lie at least DedupTTL apart,     *)
(* whatever is resent, delayed or submitted concurrently                   *)
(* (castBallotScript, SET NX EX).                                          *)
OneBallotPerDedupWindow ==
    losses = 0 =>
        \A b, c \in Counted :
            b # c /\ VoterOf[b] = VoterOf[c] /\ countedAt[b] <= countedAt[c]
                => countedAt[b] + DedupTTL <= countedAt[c]

(* A ballot the voter was told was accepted has been counted: the answer   *)
(* comes from the script's reply (CastBallot, counted != 1).               *)
AcceptedIsCounted ==
    \A b \in Ballots : req[b].pc = "accepted" => b \in Counted

(* Resending is harmless to the counters: no attempt, however late, counts *)
(* a ballot that has been counted before, unless a shard lost its data.    *)
(* The script itself does not know ballots; it is the order of             *)
(* HTTP_REQUEST_TIMEOUT and VOTE_DEDUP_TTL in config.go that ensures it.   *)
CountedOnce ==
    [][\A b \in Ballots :
          b \in Counted /\ losses = 0 => countedAt'[b] = countedAt[b]]_vars

(* A voter is refused only while a ballot of theirs that was counted is    *)
(* younger than the dedup window: nobody is locked out by a ballot that    *)
(* was never counted, nor for longer than VOTE_DEDUP_TTL.                  *)
RefusedOnlyWithinWindow ==
    [][\A b \in Ballots :
          req[b].reply # "refused" /\ req'[b].reply = "refused" =>
              \E c \in Counted : VoterOf[c] = VoterOf[b] /\ now < countedAt[c] + DedupTTL]_vars
=============================================================================
