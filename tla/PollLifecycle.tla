---------------------------- MODULE PollLifecycle ----------------------------
(***************************************************************************)
(* One poll from draft to settled: the admin's Activate and Finish         *)
(* (service/poll.go), call by call over PostgreSQL and Redis, the tracked  *)
(* set votes:polls that tells the synchroniser which polls to persist      *)
(* (service/sync.go), and ballots that arrive late because the vote path   *)
(* reads the poll from caches.                                             *)
(*                                                                         *)
(* The caches are represented by the bound on their staleness, which       *)
(* module PollCache derives; counters are lossless here, VoteTally is      *)
(* about how they are read.  votes:polls is lossless too: a Redis node     *)
(* that comes back empty would untrack its polls, and nothing in the code  *)
(* tracks them again.  A poll has one name here, whichever spelling of its *)
(* UUID a request uses.                                                    *)
(***************************************************************************)
EXTENDS Naturals, FiniteSets

CONSTANTS
    Admins,         \* Activate and Finish requests
    Voters,         \* ballots of distinct voters
    Syncers,        \* voting-sync processes
    RequestTimeout, \* HTTP_REQUEST_TIMEOUT, and what a call may spend on its way
    CacheStaleness, \* how long after a change a cache may still show the poll before it
    SyncTimeout,    \* SYNC_TIMEOUT, likewise
    SettleAfter,    \* SYNC_SETTLE_AFTER
    MaxTime         \* bound: the clock stops here

ASSUME LifecycleAssumption ==
    /\ IsFiniteSet(Voters)
    /\ RequestTimeout \in Nat /\ CacheStaleness \in Nat
    /\ SyncTimeout \in Nat /\ SettleAfter \in Nat
    /\ MaxTime \in Nat \ {0}

VARIABLES
    now,        \* the clock of every process
    status,     \* polls.status
    finishedAt, \* polls.finished_at, 0 for NULL
    closedAt,   \* history: when an active poll was finished, 0 if it was not
    tracked,    \* the poll is a member of votes:polls
    counted,    \* the voters whose ballots Redis has counted
    durable,    \* the number of ballots PostgreSQL has
    admin,      \* admin[a]: the request a
    voter,      \* voter[v]: the request that casts v's ballot
    sync        \* sync[s]: the cycle s is in

vars == <<now, status, finishedAt, closedAt, tracked, counted, durable, admin, voter, sync>>

Statuses == {"draft", "active", "finished"}

(* at: s.now() when the request began, 0 when it is over. *)
AdminRequest == [op : {"none", "activate", "finish"},
                 pc : {"new", "begun", "updated", "loaded", "tracked", "refused",
                       "ok", "conflict", "failed"},
                 at : Nat]
VoteRequest == [pc : {"new", "checked", "done"}, at : Nat]
Cycle == [pc : {"idle", "aborted", "listed", "loaded", "read", "saved"},
          at : Nat, status : Statuses, finishedAt : Nat, seen : 0 .. Cardinality(Voters)]
NoCycle == [pc |-> "idle", at |-> 0, status |-> "draft", finishedAt |-> 0, seen |-> 0]

TypeOK ==
    /\ now \in 1 .. MaxTime
    /\ status \in Statuses
    /\ finishedAt \in Nat /\ closedAt \in Nat
    /\ tracked \in BOOLEAN
    /\ counted \subseteq Voters
    /\ durable \in 0 .. Cardinality(Voters)
    /\ admin \in [Admins -> AdminRequest]
    /\ voter \in [Voters -> VoteRequest]
    /\ sync \in [Syncers -> Cycle]

Init ==
    /\ now = 1
    /\ status = "draft" /\ finishedAt = 0 /\ closedAt = 0
    /\ tracked = FALSE
    /\ counted = {} /\ durable = 0
    /\ admin = [a \in Admins |-> [op |-> "none", pc |-> "new", at |-> 0]]
    /\ voter = [v \in Voters |-> [pc |-> "new", at |-> 0]]
    /\ sync = [s \in Syncers |-> NoCycle]

(* The context of a request or of a cycle that began at t has not ended. *)
InTime(t, timeout) == now < t + timeout

-----------------------------------------------------------------------------
(* Mutated forms of the definitions below, used by the mutant runs only. *)

FromUnfinished(op) == IF op = "activate" THEN {"draft", "finished"} ELSE {"draft", "active"}

ToVerb(op) == op

AnswerBeforeTracking(a) ==
    /\ admin[a].pc = "loaded"
    /\ admin' = [admin EXCEPT ![a].pc = "ok"]
    /\ UNCHANGED <<now, status, finishedAt, closedAt, tracked, counted, durable, voter, sync>>

SettleIfFinished(s) ==
    /\ sync[s].pc = "saved"
    /\ tracked' = (tracked /\ sync[s].status # "finished")
    /\ sync' = [sync EXCEPT ![s] = NoCycle]
    /\ UNCHANGED <<now, status, finishedAt, closedAt, counted, durable, admin, voter>>

-----------------------------------------------------------------------------
(* The admin's requests. *)

(* The transitions the service asks the UPDATE for. *)
From(op) == IF op = "activate" THEN {"draft"} ELSE {"draft", "active"}
To(op) == IF op = "activate" THEN "active" ELSE "finished"

Begin(a, op) ==
    /\ admin[a].pc = "new"
    /\ admin' = [admin EXCEPT ![a] = [op |-> op, pc |-> "begun", at |-> now]]
    /\ UNCHANGED <<now, status, finishedAt, closedAt, tracked, counted, durable, voter, sync>>

(* UpdatePollStatus: one UPDATE, conditional on the current status.  It    *)
(* may commit while its reply is lost.                                     *)
UpdateStatus(a) ==
    LET op == admin[a].op IN
    /\ admin[a].pc = "begun" /\ InTime(admin[a].at, RequestTimeout)
    /\ status \in From(op)
    /\ status' = To(op)
    /\ finishedAt' = IF op = "finish" THEN admin[a].at ELSE 0
    /\ closedAt' = IF status = "active" THEN now ELSE 0
    /\ \E pc \in {"updated", "failed"} : admin' = [admin EXCEPT ![a].pc = pc]
    /\ UNCHANGED <<now, tracked, counted, durable, voter, sync>>

(* No row matched: the status is read again to word the conflict. *)
UpdateRefused(a) ==
    /\ admin[a].pc = "begun" /\ InTime(admin[a].at, RequestTimeout)
    /\ status \notin From(admin[a].op)
    /\ admin' = [admin EXCEPT ![a].pc = "refused"]
    /\ UNCHANGED <<now, status, finishedAt, closedAt, tracked, counted, durable, voter, sync>>

ReadStatus(a) ==
    /\ admin[a].pc = "refused" /\ InTime(admin[a].at, RequestTimeout)
    /\ admin' = [admin EXCEPT ![a].pc = "conflict", ![a].at = 0]
    /\ UNCHANGED <<now, status, finishedAt, closedAt, tracked, counted, durable, voter, sync>>

(* GetPoll, for the response. *)
LoadPoll(a) ==
    /\ admin[a].pc = "updated" /\ InTime(admin[a].at, RequestTimeout)
    /\ admin' = [admin EXCEPT ![a].pc = "loaded"]
    /\ UNCHANGED <<now, status, finishedAt, closedAt, tracked, counted, durable, voter, sync>>

(* TrackPoll; its reply, too, may be lost. *)
Track(a) ==
    /\ admin[a].op = "activate"
    /\ admin[a].pc = "loaded" /\ InTime(admin[a].at, RequestTimeout)
    /\ tracked' = TRUE
    /\ \E pc \in {"tracked", "failed"} : admin' = [admin EXCEPT ![a].pc = pc]
    /\ UNCHANGED <<now, status, finishedAt, closedAt, counted, durable, voter, sync>>

(* invalidate never fails a request. *)
Succeed(a) ==
    /\ admin[a].pc = IF admin[a].op = "activate" THEN "tracked" ELSE "loaded"
    /\ admin' = [admin EXCEPT ![a].pc = "ok", ![a].at = 0]
    /\ UNCHANGED <<now, status, finishedAt, closedAt, tracked, counted, durable, voter, sync>>

(* A call fails, HTTP_REQUEST_TIMEOUT passes or the API dies. *)
Fail(a) ==
    /\ admin[a].pc \in {"begun", "updated", "loaded", "refused"}
    /\ admin' = [admin EXCEPT ![a].pc = "failed", ![a].at = 0]
    /\ UNCHANGED <<now, status, finishedAt, closedAt, tracked, counted, durable, voter, sync>>

-----------------------------------------------------------------------------
(* Ballots. *)

(* A cache may still show the poll as active for a while after it was      *)
(* finished.                                                               *)
MaySeeActive ==
    \/ status = "active"
    \/ closedAt > 0 /\ now <= closedAt + CacheStaleness

(* Cast loads the poll and finds it open. *)
CheckOpen(v) ==
    /\ voter[v].pc = "new"
    /\ MaySeeActive
    /\ voter' = [voter EXCEPT ![v] = [pc |-> "checked", at |-> now]]
    /\ UNCHANGED <<now, status, finishedAt, closedAt, tracked, counted, durable, admin, sync>>

(* Redis counts it, at the latest when the request's time is over. *)
CountBallot(v) ==
    /\ voter[v].pc = "checked" /\ InTime(voter[v].at, RequestTimeout)
    /\ counted' = counted \cup {v}
    /\ voter' = [voter EXCEPT ![v] = [pc |-> "done", at |-> 0]]
    /\ UNCHANGED <<now, status, finishedAt, closedAt, tracked, durable, admin, sync>>

-----------------------------------------------------------------------------
(* The synchroniser. *)

Running(s) == sync[s].pc \notin {"idle", "aborted"}

(* TrackedPolls lists the poll. *)
List(s) ==
    /\ ~Running(s)
    /\ tracked
    /\ sync' = [sync EXCEPT ![s].pc = "listed", ![s].at = now]
    /\ UNCHANGED <<now, status, finishedAt, closedAt, tracked, counted, durable, admin, voter>>

Load(s) ==
    /\ sync[s].pc = "listed" /\ InTime(sync[s].at, SyncTimeout)
    /\ sync' = [sync EXCEPT ![s].pc = "loaded", ![s].status = status,
                            ![s].finishedAt = finishedAt]
    /\ UNCHANGED <<now, status, finishedAt, closedAt, tracked, counted, durable, admin, voter>>

ReadCounters(s) ==
    /\ sync[s].pc = "loaded" /\ InTime(sync[s].at, SyncTimeout)
    /\ sync' = [sync EXCEPT ![s].pc = "read", ![s].seen = Cardinality(counted)]
    /\ UNCHANGED <<now, status, finishedAt, closedAt, tracked, counted, durable, admin, voter>>

Save(s) ==
    /\ sync[s].pc = "read" /\ InTime(sync[s].at, SyncTimeout)
    /\ durable' = IF durable < sync[s].seen THEN sync[s].seen ELSE durable
    /\ sync' = [sync EXCEPT ![s].pc = "saved"]
    /\ UNCHANGED <<now, status, finishedAt, closedAt, tracked, counted, admin, voter>>

(* settled judges the poll as it was loaded, by the time it is now. *)
Settled(s) == sync[s].status = "finished" /\ now >= sync[s].finishedAt + SettleAfter

Settle(s) ==
    /\ sync[s].pc = "saved" /\ InTime(sync[s].at, SyncTimeout)
    /\ tracked' = (tracked /\ ~Settled(s))
    /\ sync' = [sync EXCEPT ![s] = NoCycle]
    /\ UNCHANGED <<now, status, finishedAt, closedAt, counted, durable, admin, voter>>

(* A call fails or the process dies. *)
Abort(s) ==
    /\ Running(s)
    /\ sync' = [sync EXCEPT ![s] = [NoCycle EXCEPT !.pc = "aborted"]]
    /\ UNCHANGED <<now, status, finishedAt, closedAt, tracked, counted, durable, admin, voter>>

(* SYNC_TIMEOUT passes: the next call fails. *)
TimeOut(s) ==
    /\ Running(s) /\ ~InTime(sync[s].at, SyncTimeout)
    /\ sync' = [sync EXCEPT ![s] = NoCycle]
    /\ UNCHANGED <<now, status, finishedAt, closedAt, tracked, counted, durable, admin, voter>>

-----------------------------------------------------------------------------
Tick ==
    /\ now < MaxTime
    /\ now' = now + 1
    /\ UNCHANGED <<status, finishedAt, closedAt, tracked, counted, durable, admin, voter, sync>>

AdminStep(a) ==
    \/ \E op \in {"activate", "finish"} : Begin(a, op)
    \/ UpdateStatus(a) \/ UpdateRefused(a) \/ ReadStatus(a)
    \/ LoadPoll(a) \/ Track(a) \/ Succeed(a) \/ Fail(a)

CycleStep(s) == List(s) \/ Load(s) \/ ReadCounters(s) \/ Save(s) \/ Settle(s) \/ TimeOut(s)

Next ==
    \/ \E a \in Admins : AdminStep(a)
    \/ \E v \in Voters : CheckOpen(v) \/ CountBallot(v)
    \/ \E s \in Syncers : CycleStep(s) \/ Abort(s)
    \/ Tick

Spec == Init /\ [][Next]_vars

(* The compose loop starts voting-sync again and again, and outages end:   *)
(* from some time on no call of a cycle fails.                             *)
OutagesEnd == <>[][~ \E s \in Syncers : Abort(s)]_vars

FairSpec == Spec /\ OutagesEnd /\ \A s \in Syncers : WF_vars(CycleStep(s))

-----------------------------------------------------------------------------
(* An activation answered with success has registered the poll, and only a *)
(* settled one is dropped again: the set cannot lose a poll that may still *)
(* receive ballots (Activate, syncPoll).                                   *)
ActivatedStaysTracked ==
    \A a \in Admins :
        admin[a].op = "activate" /\ admin[a].pc = "ok" =>
            tracked \/ (status = "finished" /\ now >= finishedAt + SettleAfter)

(* The lifecycle only goes forward, however transitions race, and a        *)
(* finished poll keeps the finished_at that the settle window is measured  *)
(* from (UpdatePollStatus is conditional on the status).                   *)
FinishedForGood ==
    [][/\ status # "draft" => status' # "draft"
       /\ status = "finished" => status' = "finished" /\ finishedAt' = finishedAt]_vars

(* A poll that was activated and is not tracked any more has all its       *)
(* ballots in PostgreSQL, those that stale caches let in late included.    *)
(* It needs a settle window that outlasts the caches, the requests on both *)
(* sides of the status change, and the cycle that settles, for settled     *)
(* reads the clock after the counters were read.                           *)
SettledIsPersisted ==
    (\E a \in Admins : admin[a].op = "activate" /\ admin[a].pc = "ok") /\ ~tracked
        => durable = Cardinality(counted)

(* A ballot counted while its poll is tracked is persisted in the end.     *)
BallotsReachPostgres ==
    \A n \in 1 .. Cardinality(Voters) :
        tracked /\ Cardinality(counted) >= n ~> durable >= n

(* poll_test.go:132 says "an activated poll must be registered for durable *)
(* synchronisation": an active poll is tracked unless its activation is    *)
(* still under way.  It does not hold when the activation fails between    *)
(* the UPDATE and TrackPoll: see the run that refutes it.                  *)
ActivePollIsTracked ==
    status = "active" =>
        tracked \/ \E a \in Admins : admin[a].op = "activate"
                                       /\ admin[a].pc \in {"updated", "loaded"}
=============================================================================
