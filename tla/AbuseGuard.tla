------------------------------ MODULE AbuseGuard ------------------------------
(***************************************************************************)
(* The abuse checks before a ballot (Store.Guard and guardScript in        *)
(* internal/votestore): a rate limit per client address and a quota per    *)
(* address and poll, both fixed windows that begin with the first hit.     *)
(* The keys of one address share the hash tag {ip:<address>}, so one       *)
(* address is enough.                                                      *)
(*                                                                         *)
(* Like every call, the script is sent again when an attempt times out, up *)
(* to REDIS_MAX_RETRIES times, and Redis may run an attempt nobody waits   *)
(* for any more: one request can hit its keys more than once.              *)
(***************************************************************************)
EXTENDS Naturals, FiniteSets

CONSTANTS
    Requests,       \* ballots sent from the address
    Polls,
    PollOf,         \* [Requests -> Polls]
    RateLimit,      \* VOTE_RATE_LIMIT, 0 for none
    RateWindow,     \* VOTE_RATE_WINDOW
    PollQuota,      \* VOTE_POLL_IP_QUOTA, 0 for none
    QuotaWindow,    \* VOTE_POLL_IP_QUOTA_WINDOW
    MaxRetries,     \* REDIS_MAX_RETRIES
    MaxTime         \* bound: the clock stops here

ASSUME GuardAssumption ==
    /\ PollOf \in [Requests -> Polls]
    /\ RateLimit \in Nat /\ PollQuota \in Nat /\ MaxRetries \in Nat
    /\ RateWindow \in Nat \ {0} /\ QuotaWindow \in Nat \ {0} /\ MaxTime \in Nat \ {0}

VARIABLES
    now,        \* the clock
    rate,       \* the key {ip:..}:rl
    quota,      \* quota[p]: the key {ip:..}:pq:<p>
    req,        \* req[r]: the call of Guard for request r
    runs        \* history: the runs of the script

vars == <<now, rate, quota, req, runs>>

Key == [hits : Nat, expires : Nat]
NoKey == [hits |-> 0, expires |-> 0]
Times == 1 .. MaxTime
Verdicts == {"allow", "rate_limited", "quota_exceeded"}

(* sent: attempts so far; late: those given up that Redis has yet to run.  *)
Call == [pc   : {"new", "waiting", "unavailable"} \cup Verdicts,
         sent : 0 .. MaxRetries + 1,
         late : 0 .. MaxRetries + 1]

(* n numbers the runs that are otherwise alike.                            *)
Run == [n : Nat, at : Times, poll : Polls, verdict : Verdicts]

TypeOK ==
    /\ now \in Times
    /\ rate \in Key
    /\ quota \in [Polls -> Key]
    /\ req \in [Requests -> Call]
    /\ runs \subseteq Run /\ IsFiniteSet(runs)

Init ==
    /\ now = 1
    /\ rate = NoKey
    /\ quota = [p \in Polls |-> NoKey]
    /\ req = [r \in Requests |-> [pc |-> "new", sent |-> 0, late |-> 0]]
    /\ runs = {}

-----------------------------------------------------------------------------
(* Mutated forms of the definitions below, used by the mutant runs only. *)

HitExtending(key, window) ==
    [hits |-> IF now < key.expires THEN key.hits + 1 ELSE 1, expires |-> now + window]

GiveUpOnceMore(r) ==
    /\ req[r].pc = "waiting"
    /\ req' = [req EXCEPT ![r].late = @ + 1,
                          ![r].sent = IF @ <= MaxRetries + 1 THEN @ + 1 ELSE @,
                          ![r].pc = IF req[r].sent <= MaxRetries + 1 THEN @ ELSE "unavailable"]
    /\ UNCHANGED <<now, rate, quota, runs>>

OverAt(limit, hits) == limit > 0 /\ hits > limit + 1

-----------------------------------------------------------------------------
(* INCR, and EXPIRE when it has created the key: a window is never         *)
(* prolonged by the hits within it.                                        *)
Hit(key, window) ==
    IF now < key.expires THEN [key EXCEPT !.hits = @ + 1]
    ELSE [hits |-> 1, expires |-> now + window]

Over(limit, hits) == limit > 0 /\ hits > limit

(* guardScript: a run that the rate limit stops does not touch the quota.  *)
RateHit == IF RateLimit > 0 THEN Hit(rate, RateWindow) ELSE rate
QuotaHit(p) == IF PollQuota > 0 THEN Hit(quota[p], QuotaWindow) ELSE quota[p]

Verdict(p) ==
    IF Over(RateLimit, RateHit.hits) THEN "rate_limited"
    ELSE IF Over(PollQuota, QuotaHit(p).hits) THEN "quota_exceeded"
    ELSE "allow"

Alike(t, p, verdict) == {x \in runs : x.at = t /\ x.poll = p /\ x.verdict = verdict}

RunScript(p) ==
    LET verdict == Verdict(p) IN
    /\ rate' = RateHit
    /\ quota' = IF verdict = "rate_limited" THEN quota ELSE [quota EXCEPT ![p] = QuotaHit(p)]
    /\ runs' = runs \cup {[n |-> Cardinality(Alike(now, p, verdict)) + 1,
                           at |-> now, poll |-> p, verdict |-> verdict]}

-----------------------------------------------------------------------------
Send(r) ==
    /\ req[r].pc = "new"
    /\ req' = [req EXCEPT ![r].pc = "waiting", ![r].sent = 1]
    /\ UNCHANGED <<now, rate, quota, runs>>

(* The attempt waited for is run and its verdict returned. *)
Answer(r) ==
    /\ req[r].pc = "waiting"
    /\ RunScript(PollOf[r])
    /\ req' = [req EXCEPT ![r].pc = Verdict(PollOf[r])]
    /\ UNCHANGED now

(* The attempt times out, run or not: it is sent again, or the ballot is   *)
(* refused as unavailable when the retries are spent.                      *)
GiveUp(r) ==
    /\ req[r].pc = "waiting"
    /\ req' = [req EXCEPT ![r].late = @ + 1,
                          ![r].sent = IF @ <= MaxRetries THEN @ + 1 ELSE @,
                          ![r].pc = IF req[r].sent <= MaxRetries THEN @ ELSE "unavailable"]
    /\ UNCHANGED <<now, rate, quota, runs>>

(* Redis runs an attempt that was given up. *)
RunLate(r) ==
    /\ req[r].late > 0
    /\ RunScript(PollOf[r])
    /\ req' = [req EXCEPT ![r].late = @ - 1]
    /\ UNCHANGED now

Tick ==
    /\ now < MaxTime
    /\ now' = now + 1
    /\ UNCHANGED <<rate, quota, req, runs>>

Next ==
    \/ \E r \in Requests : Send(r) \/ Answer(r) \/ GiveUp(r) \/ RunLate(r)
    \/ Tick

Spec == Init /\ [][Next]_vars

-----------------------------------------------------------------------------
(* How many runs of R are in the window that ends with time t. *)
Within(R, window, t) == Cardinality({x \in R : x.at <= t /\ t < x.at + window})

Passed(p) == {x \in runs : x.poll = p /\ x.verdict # "rate_limited"}
Allowed == {x \in runs : x.verdict = "allow"}
AllowedFor(p) == {x \in Allowed : x.poll = p}

(* A refusal is earned by recent hits alone, never by ones an earlier      *)
(* window left behind: rate_limited means more than VOTE_RATE_LIMIT runs   *)
(* in the last VOTE_RATE_WINDOW, quota_exceeded more than the quota of     *)
(* runs for this poll that the rate limit let through (guardScript).       *)
RefusalIsEarned ==
    [][\A r \in Requests :
          /\ req[r].pc = "waiting" /\ req'[r].pc = "rate_limited" =>
                Within(runs', RateWindow, now) > RateLimit
          /\ req[r].pc = "waiting" /\ req'[r].pc = "quota_exceeded" =>
                Within(Passed(PollOf[r])', QuotaWindow, now) > PollQuota]_vars

(* Two fixed windows side by side let through less than twice the limit in *)
(* any stretch of one window's length, the ballots of all polls together   *)
(* for the rate and those of one poll for the quota.                       *)
BurstIsBounded ==
    \A t \in Times :
        /\ RateLimit > 0 => Within(Allowed, RateWindow, t) < 2 * RateLimit
        /\ PollQuota > 0 =>
              \A p \in Polls : Within(AllowedFor(p), QuotaWindow, t) < 2 * PollQuota
=============================================================================
