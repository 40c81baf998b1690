----------------------------- MODULE HealthProbe -----------------------------
(***************************************************************************)
(* The readiness probe of one API replica (internal/health): concurrent    *)
(* probes share one mutex and one report that is kept for PROBE_CACHE_FOR. *)
(* The probe that finds the report too old asks the dependencies one after *)
(* the other, under its own request's context.  PostgreSQL's client stops  *)
(* when that context ends.  Redis's looks at it before it sends a command  *)
(* only: ContextTimeoutEnabled is not set (internal/clients), so a command *)
(* that has been sent is waited for until the socket's timeouts.           *)
(*                                                                         *)
(* Time is kept as ages that stop growing where they no longer matter, so  *)
(* that it can go on for ever.                                             *)
(***************************************************************************)
EXTENDS Naturals

CONSTANTS
    Probes,         \* concurrent requests for /health/ready
    ProbeTimeout,   \* PROBE_TIMEOUT
    RedisTimeout,   \* the longest an attempt of a command takes, and the pause after
                    \* it: REDIS_DIAL_TIMEOUT, REDIS_WRITE_TIMEOUT, REDIS_READ_TIMEOUT;
                    \* the configuration does not relate them to PROBE_TIMEOUT
    CacheFor        \* PROBE_CACHE_FOR

ASSUME ProbeAssumption ==
    ProbeTimeout \in Nat \ {0} /\ RedisTimeout \in Nat \ {0} /\ CacheFor \in Nat

(* cmd/api/main.go registers Redis as critical and PostgreSQL as not. *)
Dependencies == {"redis", "postgres"}
Critical == {"redis"}

VARIABLES
    up,         \* up[d]: d answers at once; one that is slow is down meanwhile
    probe,      \* probe[p]: the request p
    elapsed,    \* since the probe under way began to ask, up to ProbeTimeout
    attempt,    \* the attempt of a Ping that has been sent to Redis
    cached,     \* the dependencies found unhealthy in the cached report
    cacheAge,   \* the report's age, CacheFor when it is too old
    since       \* history: how long ago Redis was last up, it was last down, and
                \* the client of the probe that asked was found gone

ages == <<cacheAge, since>>
vars == <<up, probe, elapsed, attempt, cached, ages>>

(* asking: the dependency being asked; failed: those that did not answer.  *)
Probe == [pc        : {"idle", "waiting", "redis", "postgres", "publish", "ready", "unready"},
          connected : BOOLEAN,  \* its context has not ended
          failed    : SUBSET Dependencies]
NewProbe == [pc |-> "idle", connected |-> TRUE, failed |-> {}]

(* age: since it was sent; lost: Redis was down meanwhile, so that it need *)
(* not be answered any more.                                               *)
Attempt == [age : 0 .. RedisTimeout, lost : BOOLEAN]
NoAttempt == [age |-> 0, lost |-> FALSE]
NewAttempt == [age |-> 0, lost |-> ~up["redis"]]

(* How old what a report says of a failure can be when it is made, and     *)
(* when a probe is answered with it.                                       *)
Slowest == IF ProbeTimeout < RedisTimeout THEN RedisTimeout ELSE ProbeTimeout
Horizon == Slowest + CacheFor

Events == {"up", "down", "gone"}

TypeOK ==
    /\ up \in [Dependencies -> BOOLEAN]
    /\ probe \in [Probes -> Probe]
    /\ elapsed \in 0 .. ProbeTimeout
    /\ attempt \in Attempt
    /\ cached \subseteq Dependencies
    /\ cacheAge \in 0 .. CacheFor
    /\ since \in [Events -> 0 .. Horizon + 1]

Init ==
    /\ up = [d \in Dependencies |-> TRUE]
    /\ probe = [p \in Probes |-> NewProbe]
    /\ elapsed = 0 /\ attempt = NoAttempt
    /\ cached = {} /\ cacheAge = CacheFor
    /\ since = [e \in Events |-> IF e = "up" THEN 0 ELSE Horizon + 1]

Evaluating(p) == probe[p].pc \in {"redis", "postgres", "publish"}
Locked == \E p \in Probes : Evaluating(p)

(* What follows when p has asked d. *)
Asked(p, d, ok) ==
    /\ probe' = [probe EXCEPT ![p].pc = IF d = "redis" THEN "postgres" ELSE "publish",
                              ![p].failed = IF ok THEN @ ELSE @ \cup {d}]
    /\ attempt' = NoAttempt

(* The context of p: its client's, and PROBE_TIMEOUT. *)
ContextOver(p) == ~probe[p].connected \/ elapsed = ProbeTimeout

-----------------------------------------------------------------------------
(* Mutated forms of the definitions below, used by the mutant runs only. *)

TryAgainWithoutContext(p) ==
    /\ probe[p].pc = "redis"
    /\ attempt.lost
    /\ attempt' = NewAttempt
    /\ UNCHANGED <<up, probe, elapsed, cached, ages>>

AnswerFromAnyAge(p) ==
    /\ probe[p].pc = "waiting" /\ ~Locked
    /\ probe' = [probe EXCEPT ![p].pc = IF cached \cap Critical = {} THEN "ready" ELSE "unready",
                              ![p].failed = cached]
    /\ UNCHANGED <<up, elapsed, attempt, cached, ages>>

StatusWithoutCritical(failed) == IF failed = {} THEN "ready" ELSE "unready"

-----------------------------------------------------------------------------
(* Only a critical dependency makes the replica unready. *)
Status(failed) == IF failed \cap Critical = {} THEN "ready" ELSE "unready"

Arrive(p) ==
    /\ probe[p].pc = "idle"
    /\ probe' = [probe EXCEPT ![p].pc = "waiting"]
    /\ UNCHANGED <<up, elapsed, attempt, cached, ages>>

(* The lock is taken and the report is young enough. *)
AnswerFromCache(p) ==
    /\ probe[p].pc = "waiting" /\ ~Locked
    /\ cacheAge < CacheFor
    /\ probe' = [probe EXCEPT ![p].pc = Status(cached), ![p].failed = cached]
    /\ UNCHANGED <<up, elapsed, attempt, cached, ages>>

(* It is too old: the lock is kept while the dependencies are asked. *)
Start(p) ==
    /\ probe[p].pc = "waiting" /\ ~Locked
    /\ cacheAge = CacheFor /\ probe[p].connected
    /\ elapsed' = 0 /\ attempt' = NewAttempt
    /\ probe' = [probe EXCEPT ![p].pc = "redis", ![p].failed = {}]
    /\ UNCHANGED <<up, cached, ages>>

(* The client has gone while its probe was waiting: neither is asked. *)
StartInVain(p) ==
    /\ probe[p].pc = "waiting" /\ ~Locked
    /\ cacheAge = CacheFor /\ ~probe[p].connected
    /\ elapsed' = 0
    /\ probe' = [probe EXCEPT ![p].pc = "publish", ![p].failed = Dependencies]
    /\ since' = [since EXCEPT !.gone = 0]
    /\ UNCHANGED <<up, attempt, cached, cacheAge>>

(* Redis answers an attempt that has been sent, whatever has become of the *)
(* context.                                                                *)
CheckSucceeds(p, d) ==
    /\ probe[p].pc = d
    /\ up[d]
    /\ d = "postgres" => ~ContextOver(p)
    /\ Asked(p, d, TRUE)
    /\ UNCHANGED <<up, elapsed, cached, ages>>

(* d is down and the call is refused, which need not happen, or an attempt *)
(* met a Redis that was down and is the last one.                          *)
CheckFails(p, d) ==
    /\ probe[p].pc = d
    /\ IF d = "redis" THEN attempt.lost ELSE ~up[d]
    /\ Asked(p, d, FALSE)
    /\ UNCHANGED <<up, elapsed, cached, ages>>

(* REDIS_MAX_RETRIES allow another one, which looks at the context first. *)
TryAgain(p) ==
    /\ probe[p].pc = "redis"
    /\ attempt.lost /\ ~ContextOver(p)
    /\ attempt' = NewAttempt
    /\ UNCHANGED <<up, probe, elapsed, cached, ages>>

(* The context ends, by PROBE_TIMEOUT, HTTP_REQUEST_TIMEOUT or the client: *)
(* PostgreSQL is not waited for any longer, and neither is a connection to *)
(* Redis to become free.                                                   *)
CheckEnds(p, d) ==
    /\ probe[p].pc = d
    /\ IF d = "redis" THEN ~probe[p].connected ELSE ContextOver(p)
    /\ Asked(p, d, FALSE)
    /\ since' = IF probe[p].connected THEN since ELSE [since EXCEPT !.gone = 0]
    /\ UNCHANGED <<up, elapsed, cached, cacheAge>>

Publish(p) ==
    /\ probe[p].pc = "publish"
    /\ cached' = probe[p].failed /\ cacheAge' = 0
    /\ probe' = [probe EXCEPT ![p].pc = Status(probe[p].failed)]
    /\ UNCHANGED <<up, elapsed, attempt, since>>

(* The client disconnects, or the request's time is over. *)
Disconnect(p) ==
    /\ probe[p].pc \in {"waiting", "redis", "postgres"}
    /\ probe[p].connected
    /\ probe' = [probe EXCEPT ![p].connected = FALSE]
    /\ UNCHANGED <<up, elapsed, attempt, cached, ages>>

(* The next request of this prober. *)
Again(p) ==
    /\ probe[p].pc \in {"ready", "unready"}
    /\ probe' = [probe EXCEPT ![p] = NewProbe]
    /\ UNCHANGED <<up, elapsed, attempt, cached, ages>>

-----------------------------------------------------------------------------
Asking(d) == \E p \in Probes : probe[p].pc = d

Toggle(d) ==
    /\ up' = [up EXCEPT ![d] = ~@]
    /\ attempt' = IF d = "redis" /\ Asking(d) THEN [attempt EXCEPT !.lost = TRUE] ELSE attempt
    /\ since' = IF d = "redis" THEN [since EXCEPT !.up = 0, !.down = 0] ELSE since
    /\ UNCHANGED <<probe, elapsed, cached, cacheAge>>

Older(age, limit) == IF age < limit THEN age + 1 ELSE limit

(* A probe holds the lock over a tick only while it waits for Redis, until *)
(* the socket's timeout at most, or for PostgreSQL, until its context is   *)
(* over; and only for one that does not answer.                            *)
Tick ==
    /\ \A p \in Probes : Evaluating(p) =>
          \/ probe[p].pc = "redis" /\ attempt.lost /\ attempt.age < RedisTimeout
          \/ probe[p].pc = "postgres" /\ ~up["postgres"] /\ ~ContextOver(p)
    /\ elapsed' = IF Locked THEN Older(elapsed, ProbeTimeout) ELSE 0
    /\ attempt' = IF Asking("redis") THEN [attempt EXCEPT !.age = @ + 1] ELSE attempt
    /\ cacheAge' = Older(cacheAge, CacheFor)
    /\ since' = [e \in Events |->
                    IF e = (IF up["redis"] THEN "up" ELSE "down") THEN 0
                    ELSE Older(since[e], Horizon + 1)]
    /\ UNCHANGED <<up, probe, cached>>

Evaluate(p) ==
    \/ Start(p) \/ StartInVain(p) \/ TryAgain(p) \/ Publish(p)
    \/ \E d \in Dependencies : CheckSucceeds(p, d) \/ CheckFails(p, d) \/ CheckEnds(p, d)

Next ==
    \/ \E p \in Probes :
          Arrive(p) \/ AnswerFromCache(p) \/ Evaluate(p) \/ Disconnect(p) \/ Again(p)
    \/ \E d \in Dependencies : Toggle(d)
    \/ Tick

Spec == Init /\ [][Next]_vars

(* The socket's timeout ends an attempt that nobody answers. *)
SocketTimesOut(p) ==
    attempt.age = RedisTimeout /\ (CheckFails(p, "redis") \/ TryAgain(p))

(* Time passes, whatever the dependencies do; the socket's timeout and,    *)
(* for PostgreSQL, the end of a context are noticed; a mutex of Go is      *)
(* handed to whoever has waited for it for a millisecond, so nobody is     *)
(* overtaken for ever.  A dependency need not answer, nor need Redis's     *)
(* client notice that the context has ended.                               *)
FairSpec ==
    /\ Spec
    /\ SF_vars(Tick)
    /\ \A p \in Probes :
          /\ SF_vars(AnswerFromCache(p) \/ Start(p) \/ StartInVain(p))
          /\ WF_vars(Publish(p))
          /\ WF_vars(CheckSucceeds(p, "redis") \/ SocketTimesOut(p))
          /\ WF_vars(CheckSucceeds(p, "postgres") \/ CheckEnds(p, "postgres"))

-----------------------------------------------------------------------------
Answered(p, answer) == probe[p].pc # answer /\ probe'[p].pc = answer

(* A replica is called ready only when Redis has answered some probe not   *)
(* longer ago than PostgreSQL can be waited for afterwards and a report be *)
(* kept, however probes queue on the mutex (evaluate).                     *)
ReadyMeansRedisAnswered ==
    [][\A p \in Probes :
          Answered(p, "ready") => since.up <= ProbeTimeout + CacheFor]_vars

(* It is called unready only when Redis was down within the time that a    *)
(* report is kept and PROBE_TIMEOUT or, when it is longer, an attempt of   *)
(* Redis's client takes: Redis may have been back for longer than          *)
(* PROBE_TIMEOUT and PROBE_CACHE_FOR together.  The other cause is a       *)
(* client that left while its probe was making the report, which is kept   *)
(* for PROBE_CACHE_FOR like any other, and no longer; PostgreSQL alone     *)
(* never is the reason (evaluate, NewRedisClient).                         *)
UnreadyHasACause ==
    [][\A p \in Probes : Answered(p, "unready") =>
          since.down <= Horizon \/ since.gone <= CacheFor]_vars

(* Every probe is answered, though dependencies may never do: whoever      *)
(* holds the mutex sends no command to Redis after PROBE_TIMEOUT, waits    *)
(* for the last one no longer than the socket's timeouts, and for          *)
(* PostgreSQL no longer than its context lasts (evaluate, NewRedisClient). *)
EveryProbeIsAnswered ==
    \A p \in Probes : probe[p].pc = "waiting" ~> probe[p].pc \in {"ready", "unready"}
=============================================================================
