------------------------------ MODULE SyncCycle ------------------------------
(***************************************************************************)
(* One run of cmd/worker and the next: a cycle lists the tracked polls     *)
(* once and copies them one after the other, in the order Redis names      *)
(* them, under one SYNC_TIMEOUT (syncjob/job.go, service/sync.go).  The    *)
(* upsert of a poll is a statement of PostgreSQL of its own: it locks the  *)
(* poll's rows one by one in the order of a Go map, waits for rows another *)
(* upsert holds, may be rolled back to break a deadlock, and goes on when  *)
(* the client that sent it has given up.                                   *)
(*                                                                         *)
(* VoteTally has the shards, expiry and loss of one poll's counters; here  *)
(* the counters of a poll are read at once and only rise.                  *)
(***************************************************************************)
EXTENDS Naturals, FiniteSets, Sequences, SequencesExt

CONSTANTS
    Polls,
    Options,    \* the option ids of all polls
    PollOf,     \* [Options -> Polls]
    Ballots,    \* the sets of options, each of one poll, that ballots choose
    Workers,    \* where voting-sync runs, one process after the other in each
    Sessions,   \* bound: PostgreSQL connections with a statement at work
    None,       \* no client: it has given up the statement, or has died
    MaxVotes,   \* bound: the votes counted for an option
    MaxFaults   \* bound: how often a call, a process or a statement fails

ASSUME CycleAssumption ==
    /\ IsFiniteSet(Polls) /\ Polls # {} /\ IsFiniteSet(Options) /\ IsFiniteSet(Sessions)
    /\ PollOf \in [Options -> Polls]
    /\ Ballots \subseteq SUBSET Options
    /\ None \notin Workers
    /\ MaxVotes \in Nat /\ MaxFaults \in Nat

VARIABLES
    counter,    \* counter[o]: votes of o in Redis
    status,     \* status[p]: what GetPoll finds in PostgreSQL
    tracked,    \* the polls in the tracked set of Redis
    row,        \* row[o]: poll_results.votes, 0 without a row
    cycle,      \* cycle[w]: how far the cycle of w has come
    statement,  \* statement[s]: the upsert at work on connection s
    faults      \* how often something has failed

vars == <<counter, status, tracked, row, cycle, statement, faults>>

(* settled: finished for SYNC_SETTLE_AFTER, and no ballot is counted any   *)
(* more; PollLifecycle has the time in between.                            *)
Status == {"missing", "live", "settled"}

(* next: between two polls; saving: SaveResults of `poll', which had       *)
(* `seen' for its status when it was loaded, waits for PostgreSQL;         *)
(* untracking: it has returned, and the settled poll is untracked.  due is *)
(* history: the counters at Begin of the listed polls, without those polls *)
(* that Sync has counted as failed.                                        *)
Cycle == [pc   : {"idle", "next", "saving", "untracking"},
          todo : SUBSET Polls,
          poll : Polls,
          seen : Status,
          due  : [Options -> Nat]]

OptionsOf(p) == {o \in Options : PollOf[o] = p}

(* votes: what is upserted; rows: the rows it has not locked yet, in order.*)
Upsert(p) == [client : Workers \cup {None}, votes : [OptionsOf(p) -> Nat],
              rows : Seq(OptionsOf(p))]

AtRest == [client |-> None, votes |-> <<>>, rows |-> <<>>]

TypeOK ==
    /\ counter \in [Options -> 0 .. MaxVotes]
    /\ status \in [Polls -> Status]
    /\ tracked \subseteq Polls
    /\ row \in [Options -> 0 .. MaxVotes]
    /\ cycle \in [Workers -> Cycle]
    /\ statement = [s \in Sessions |-> statement[s]]
    /\ \A s \in Sessions :
          statement[s] = AtRest \/ \E p \in Polls : statement[s] \in Upsert(p)
    /\ faults \in 0 .. MaxFaults

Only(votes, P) == [o \in Options |-> IF PollOf[o] \in P THEN votes[o] ELSE 0]

Idle == [pc |-> "idle", todo |-> {}, poll |-> CHOOSE p \in Polls : TRUE,
         seen |-> "live", due |-> [o \in Options |-> 0]]

(* A tracked poll may be unknown to a PostgreSQL that was restored. *)
Init ==
    /\ counter = [o \in Options |-> 0]
    /\ status \in [Polls -> {"missing", "live"}]
    /\ tracked = Polls
    /\ row = [o \in Options |-> 0]
    /\ cycle = [w \in Workers |-> Idle]
    /\ statement = [s \in Sessions |-> AtRest]
    /\ faults = 0

Fault == faults < MaxFaults /\ faults' = faults + 1

-----------------------------------------------------------------------------
(* Mutated forms of two definitions below, used by the mutant runs only. *)

DoneWithTheFirst(c, P) == [c EXCEPT !.pc = "next", !.todo = {}, !.poll = Idle.poll,
                                    !.seen = "live"]

FailedUncounted(c, P) == [c EXCEPT !.pc = "next", !.todo = @ \ P, !.poll = Idle.poll,
                                   !.seen = "live"]

-----------------------------------------------------------------------------
(* The cycle c when it is through with the polls P, or they have failed. *)
Done(c, P) == [c EXCEPT !.pc = "next", !.todo = @ \ P, !.poll = Idle.poll, !.seen = "live"]

Failed(c, P) == [Done(c, P) EXCEPT !.due = Only(@, Polls \ P)]

(* The statements once w has stopped waiting for its own: PostgreSQL does  *)
(* not notice and goes on with it.                                         *)
Abandoned(w) == [s \in Sessions |-> IF statement[s].client = w
                                    THEN [statement[s] EXCEPT !.client = None]
                                    ELSE statement[s]]

AtWork(s) == statement[s] # AtRest
Holds(s, o) == o \in DOMAIN statement[s].votes \ Range(statement[s].rows)
WaitsFor(s, t) == statement[s].rows # <<>> /\ s # t /\ Holds(t, Head(statement[s].rows))
Waits(s) == \E t \in Sessions : WaitsFor(s, t)

(* The statement of s ends and releases its rows: each goes to one of the  *)
(* statements that wait for it, before a later one can take it.            *)
Released(s, heirs) ==
    [t \in Sessions |-> IF t = s THEN AtRest
                        ELSE IF t \in heirs THEN [statement[t] EXCEPT !.rows = Tail(@)]
                        ELSE statement[t]]

Heirs(s) ==
    LET waiting == {t \in Sessions : WaitsFor(t, s)}
        Same(t, u) == Head(statement[t].rows) = Head(statement[u].rows)
    IN {H \in SUBSET waiting :
           \A t \in waiting : Cardinality({h \in H : Same(h, t)}) = 1}

(* s is one of the statements that wait for each other in a circle. *)
Closed(S) == \A s \in S : \E t \in S : WaitsFor(s, t)
Deadlocked(s) ==
    \E S \in SUBSET Sessions :
        /\ s \in S /\ Closed(S)
        /\ \A T \in SUBSET S \ {{}, S} : ~Closed(T)

-----------------------------------------------------------------------------
Count(B) ==
    /\ \A o \in B : status[PollOf[o]] = "live" /\ counter[o] < MaxVotes
    /\ counter' = [o \in Options |-> counter[o] + IF o \in B THEN 1 ELSE 0]
    /\ UNCHANGED <<status, tracked, row, cycle, statement, faults>>

Settle(p) ==
    /\ status[p] = "live"
    /\ status' = [status EXCEPT ![p] = "settled"]
    /\ UNCHANGED <<counter, tracked, row, cycle, statement, faults>>

-----------------------------------------------------------------------------
(* Sync lists the tracked polls. *)
Begin(w) ==
    /\ cycle[w].pc = "idle"
    /\ cycle' = [cycle EXCEPT ![w] = [@ EXCEPT !.pc = "next", !.todo = tracked,
                                               !.due = Only(counter, tracked)]]
    /\ UNCHANGED <<counter, status, tracked, row, statement, faults>>

(* syncPoll untracks a poll that GetPoll does not find, ... *)
Forget(w, p) ==
    /\ cycle[w].pc = "next" /\ p \in cycle[w].todo
    /\ status[p] = "missing"
    /\ cycle' = [cycle EXCEPT ![w] = Done(@, {p})]
    /\ tracked' = tracked \ {p}
    /\ UNCHANGED <<counter, status, row, statement, faults>>

(* ... and sends what it has read of the counters of one it does, on any   *)
(* free connection.  What other processes do between its reads can as well *)
(* be done before them.                                                    *)
Save(w, p, s) ==
    /\ cycle[w].pc = "next" /\ p \in cycle[w].todo
    /\ status[p] # "missing"
    /\ ~AtWork(s) /\ s = CHOOSE t \in Sessions : ~AtWork(t)
    /\ cycle' = [cycle EXCEPT ![w] =
                     [@ EXCEPT !.pc = "saving", !.todo = cycle[w].todo \ {p},
                               !.poll = p, !.seen = status[p]]]
    /\ \E order \in SetToSeqs(OptionsOf(p)) :
          statement' = [statement EXCEPT ![s] =
              [client |-> w, votes |-> [o \in OptionsOf(p) |-> counter[o]], rows |-> order]]
    /\ UNCHANGED <<counter, status, tracked, row, faults>>

(* GetPoll or Counters fails, or UntrackPoll of a missing poll. *)
ReadFails(w, p) ==
    /\ cycle[w].pc = "next" /\ p \in cycle[w].todo
    /\ Fault
    /\ cycle' = [cycle EXCEPT ![w] = Failed(@, {p})]
    /\ UNCHANGED <<counter, status, tracked, row, statement>>

Untrack(w) ==
    /\ cycle[w].pc = "untracking"
    /\ cycle' = [cycle EXCEPT ![w] = Done(@, {})]
    /\ tracked' = tracked \ {cycle[w].poll}
    /\ UNCHANGED <<counter, status, row, statement, faults>>

(* SaveResults or UntrackPoll fails, or its answer is lost. *)
WriteFails(w) ==
    /\ cycle[w].pc \in {"saving", "untracking"}
    /\ Fault
    /\ \/ UNCHANGED tracked
       \/ cycle[w].pc = "untracking" /\ tracked' = tracked \ {cycle[w].poll}
    /\ cycle' = [cycle EXCEPT ![w] = Failed(@, {cycle[w].poll})]
    /\ statement' = Abandoned(w)
    /\ UNCHANGED <<counter, status, row>>

(* SYNC_TIMEOUT passes: the call at work and those for all polls that are  *)
(* left fail at once.                                                      *)
TimeOut(w) ==
    LET c == cycle[w]
        atWork == IF c.pc = "next" THEN {} ELSE {c.poll}
    IN
    /\ c.pc # "idle"
    /\ Fault
    /\ cycle' = [cycle EXCEPT ![w] = Failed(c, c.todo \cup atWork)]
    /\ statement' = Abandoned(w)
    /\ UNCHANGED <<counter, status, tracked, row>>

(* RunOnce returns: nil when nothing failed, and an error otherwise. *)
End(w) ==
    /\ cycle[w].pc = "next" /\ cycle[w].todo = {}
    /\ cycle' = [cycle EXCEPT ![w] = Idle]
    /\ UNCHANGED <<counter, status, tracked, row, statement, faults>>

Crash(w) ==
    /\ cycle[w].pc # "idle"
    /\ Fault
    /\ cycle' = [cycle EXCEPT ![w] = Idle]
    /\ statement' = Abandoned(w)
    /\ UNCHANGED <<counter, status, tracked, row>>

-----------------------------------------------------------------------------
(* INSERT ... ON CONFLICT locks one more row, if nobody holds it. *)
LockRow(s) ==
    /\ Len(statement[s].rows) > 1
    /\ ~Waits(s)
    /\ statement' = [statement EXCEPT ![s].rows = Tail(@)]
    /\ UNCHANGED <<counter, status, tracked, row, cycle, faults>>

(* The client of s goes on to untrack the poll if it has settled, or to    *)
(* the next one.                                                           *)
Committed(s) ==
    [w \in Workers |->
        IF w # statement[s].client THEN cycle[w]
        ELSE IF cycle[w].seen = "settled" THEN [cycle[w] EXCEPT !.pc = "untracking"]
        ELSE Done(cycle[w], {})]

(* Mutated forms of Commit, used by the mutant runs only. *)
CommitOverwriting(s) ==
    LET u == statement[s] IN
    /\ AtWork(s) /\ Len(u.rows) <= 1 /\ ~Waits(s)
    /\ row' = [o \in Options |-> IF o \in DOMAIN u.votes THEN u.votes[o] ELSE row[o]]
    /\ \E heirs \in Heirs(s) : statement' = Released(s, heirs)
    /\ cycle' = Committed(s)
    /\ UNCHANGED <<counter, status, tracked, faults>>

CommitAdding(s) ==
    LET u == statement[s] IN
    /\ AtWork(s) /\ Len(u.rows) <= 1 /\ ~Waits(s)
    /\ row' = [o \in Options |-> IF o \in DOMAIN u.votes THEN row[o] + u.votes[o] ELSE row[o]]
    /\ \E heirs \in Heirs(s) : statement' = Released(s, heirs)
    /\ cycle' = Committed(s)
    /\ UNCHANGED <<counter, status, tracked, faults>>

(* With the last row the statement commits: its locks are released and no  *)
(* total goes down (GREATEST).                                             *)
Commit(s) ==
    LET u == statement[s] IN
    /\ AtWork(s) /\ Len(u.rows) <= 1
    /\ ~Waits(s)
    /\ row' = [o \in Options |->
                  IF o \in DOMAIN u.votes /\ row[o] < u.votes[o] THEN u.votes[o] ELSE row[o]]
    /\ \E heirs \in Heirs(s) : statement' = Released(s, heirs)
    /\ cycle' = Committed(s)
    /\ UNCHANGED <<counter, status, tracked, faults>>

(* A statement is rolled back and its locks are released, ... *)
RollBack(s) ==
    /\ \E heirs \in Heirs(s) : statement' = Released(s, heirs)
    /\ cycle' = [w \in Workers |-> IF w # statement[s].client THEN cycle[w]
                                   ELSE Failed(cycle[w], {cycle[w].poll})]
    /\ UNCHANGED <<counter, status, tracked, row>>

(* ... since PostgreSQL fails it, or to break a deadlock. *)
StatementFails(s) == AtWork(s) /\ Fault /\ RollBack(s)
BreakDeadlock(s) == Deadlocked(s) /\ RollBack(s) /\ UNCHANGED faults

-----------------------------------------------------------------------------
Next ==
    \/ \E B \in Ballots : Count(B)
    \/ \E p \in Polls : Settle(p)
    \/ \E w \in Workers :
          \/ Begin(w) \/ Untrack(w) \/ WriteFails(w) \/ TimeOut(w) \/ End(w) \/ Crash(w)
          \/ \E p \in Polls : \/ Forget(w, p) \/ ReadFails(w, p)
                              \/ \E s \in Sessions : Save(w, p, s)
    \/ \E s \in Sessions : LockRow(s) \/ Commit(s) \/ StatementFails(s) \/ BreakDeadlock(s)

Spec == Init /\ [][Next]_vars

(* voting-sync is started again and again, Redis and PostgreSQL answer,    *)
(* and PostgreSQL looks for deadlocks.                                     *)
WorkerFairness(w) ==
    WF_vars(\/ Begin(w) \/ Untrack(w) \/ End(w)
            \/ \E p \in Polls : Forget(w, p) \/ \E s \in Sessions : Save(w, p, s))

FairSpec ==
    /\ Spec
    /\ \A w \in Workers : WorkerFairness(w)
    /\ \A s \in Sessions :
          WF_vars(LockRow(s) \/ Commit(s)) /\ WF_vars(BreakDeadlock(s))

-----------------------------------------------------------------------------
(* A cycle counts every poll it listed as failed whose ballots of before   *)
(* the cycle are not in PostgreSQL when it ends: those whose calls failed, *)
(* those it did not come to within SYNC_TIMEOUT, and those rolled back to  *)
(* break a deadlock.  One that reports no failure has left nothing behind, *)
(* whatever late upserts of others did meanwhile (Sync, RunOnce).          *)
ReportIsHonest ==
    [][\A w \in Workers, o \in Options :
          End(w) /\ status[PollOf[o]] # "missing" => cycle[w].due[o] <= row[o]]_vars

(* A poll is only taken off the list once PostgreSQL has all its ballots,  *)
(* whatever other cycles did to it meanwhile (syncPoll, settled).          *)
UntrackedIsDurable ==
    \A o \in Options :
        PollOf[o] \notin tracked /\ status[PollOf[o]] # "missing" => row[o] = counter[o]

(* Overlapping cycles that keep running into each other's row locks do not *)
(* keep a poll from PostgreSQL for good: every counted ballot gets there   *)
(* (SaveResults, the voting-sync loop).                                    *)
EveryPollIsCopied ==
    <>[](\A o \in Options : status[PollOf[o]] # "missing" => row[o] = counter[o])
=============================================================================
