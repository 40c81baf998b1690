----------------------------- MODULE PollCatalog -----------------------------
(***************************************************************************)
(* The polls in PostgreSQL as the admin makes and lists them               *)
(* (service/poll.go, repository/poll.go): Create writes a poll, its        *)
(* options and its zero results in one transaction; List reads one page    *)
(* with three statements that are no transaction, and the admin's client   *)
(* goes on with the next page while polls are being created.               *)
(*                                                                         *)
(* A poll is named by the request that creates it; requests are numbers,   *)
(* which stand for the random ids the list is ordered by among equals.     *)
(***************************************************************************)
EXTENDS Naturals, FiniteSets

CONSTANTS
    Creators,           \* Create requests
    Limits,             \* page sizes a client asks for, 0 for none
    DefaultPageSize,    \* POLL_PAGE_SIZE_DEFAULT
    MaxPageSize,        \* POLL_PAGE_SIZE_MAX
    MaxTime             \* bound: the clock stops here

(* config.go rejects a default above the maximum. *)
ASSUME CatalogAssumption ==
    /\ Creators \subseteq Nat /\ Limits \subseteq Nat
    /\ DefaultPageSize \in 1 .. MaxPageSize
    /\ MaxPageSize \in Nat /\ MaxTime \in Nat \ {0}

VARIABLES
    now,        \* the clock, coarse enough for two polls to share a time
    createdAt,  \* createdAt[c]: created_at of poll c, 0 before it is built
    tx,         \* tx[c]: how far the request c has come
    polls, options, results,    \* the polls with committed rows in each table
    list,       \* the walk through the pages
    base        \* history: the polls that were there when the walk began

vars == <<now, createdAt, tx, polls, options, results, list, base>>
tables == <<polls, options, results>>

TxStates == {"new", "begun", "poll", "options", "results", "committed", "failed"}

(* offset, limit: of the page under way; ids: its polls; seen: all polls   *)
(* of the pages so far; bare: those that came without options.             *)
List == [pc : {"idle", "counted", "paged", "page", "end"}, offset : Nat, limit : Nat,
         total : Nat, ids : SUBSET Creators, seen : SUBSET Creators, bare : SUBSET Creators]

TypeOK ==
    /\ now \in 1 .. MaxTime
    /\ createdAt \in [Creators -> 0 .. MaxTime]
    /\ tx \in [Creators -> TxStates]
    /\ polls \subseteq Creators /\ IsFiniteSet(polls)
    /\ options \subseteq Creators /\ results \subseteq Creators
    /\ list \in List /\ Cardinality(list.ids) <= MaxPageSize
    /\ base \subseteq Creators

Init ==
    /\ now = 1
    /\ createdAt = [c \in Creators |-> 0]
    /\ tx = [c \in Creators |-> "new"]
    /\ polls = {} /\ options = {} /\ results = {}
    /\ list = [pc |-> "idle", offset |-> 0, limit |-> 0, total |-> 0, ids |-> {},
               seen |-> {}, bare |-> {}]
    /\ base = {}

(* The statements of the transaction, one after the other. *)
Following == [begun |-> "poll", poll |-> "options", options |-> "results"]

(* ORDER BY created_at DESC, id DESC. *)
Precedes(c, d) ==
    createdAt[c] > createdAt[d] \/ (createdAt[c] = createdAt[d] /\ c > d)

(* How many rows come before that of c. *)
Rank(c) == Cardinality({d \in polls : Precedes(d, c)})

-----------------------------------------------------------------------------
(* Mutated forms of the definitions below, used by the mutant runs only. *)

InsertAutocommitted(c) ==
    /\ tx[c] \in DOMAIN Following
    /\ tx' = [tx EXCEPT ![c] = Following[@]]
    /\ polls' = IF tx[c] = "begun" THEN polls \cup {c} ELSE polls
    /\ options' = IF tx[c] = "poll" THEN options \cup {c} ELSE options
    /\ results' = IF tx[c] = "options" THEN results \cup {c} ELSE results
    /\ UNCHANGED <<now, createdAt, list, base>>

PageByNumber(offset, limit) ==
    {c \in polls : offset * limit <= Rank(c) /\ Rank(c) < offset * limit + limit}

-----------------------------------------------------------------------------
(* Create has validated the command: the poll gets its created_at and the  *)
(* transaction begins.                                                     *)
Begin(c) ==
    /\ tx[c] = "new"
    /\ tx' = [tx EXCEPT ![c] = "begun"]
    /\ createdAt' = [createdAt EXCEPT ![c] = now]
    /\ UNCHANGED <<now, tables, list, base>>

(* InsertPoll, InsertPollOptions, InsertZeroResults: nobody else sees the  *)
(* rows yet.                                                               *)
Insert(c) ==
    /\ tx[c] \in DOMAIN Following
    /\ tx' = [tx EXCEPT ![c] = Following[@]]
    /\ UNCHANGED <<now, createdAt, tables, list, base>>

(* Commit makes the rows of all three tables visible at once, whether the  *)
(* reply to it arrives or not.                                             *)
Commit(c) ==
    /\ tx[c] = "results"
    /\ tx' = [tx EXCEPT ![c] = "committed"]
    /\ polls' = polls \cup {c} /\ options' = options \cup {c} /\ results' = results \cup {c}
    /\ UNCHANGED <<now, createdAt, list, base>>

(* A statement fails, the time is over or the API dies: what has not been  *)
(* committed is rolled back.                                               *)
Fail(c) ==
    /\ tx[c] \in {"begun", "poll", "options", "results"}
    /\ tx' = [tx EXCEPT ![c] = "failed"]
    /\ UNCHANGED <<now, createdAt, tables, list, base>>

-----------------------------------------------------------------------------
LimitFor(limit) ==
    IF limit = 0 THEN DefaultPageSize ELSE IF limit > MaxPageSize THEN MaxPageSize ELSE limit

(* The client asks for the first page, and CountPolls is read for it. *)
FirstPage(limit) ==
    /\ list.pc = "idle"
    /\ list' = [list EXCEPT !.pc = "counted", !.limit = LimitFor(limit),
                            !.total = Cardinality(polls)]
    /\ base' = polls
    /\ UNCHANGED <<now, createdAt, tx, tables>>

(* LIMIT and OFFSET. *)
PageAt(offset, limit) == {c \in polls : offset <= Rank(c) /\ Rank(c) < offset + limit}

(* ListPollPage reads the polls of the page. *)
ReadPage ==
    /\ list.pc = "counted"
    /\ list' = [list EXCEPT !.pc = "paged", !.ids = PageAt(list.offset, list.limit)]
    /\ UNCHANGED <<now, createdAt, tx, tables, base>>

(* ListOptionsByPollIDs reads their options, and the page is answered. *)
ReadOptions ==
    /\ list.pc = "paged"
    /\ list' = [list EXCEPT !.pc = "page",
                            !.seen = @ \cup list.ids,
                            !.bare = @ \cup (list.ids \ options)]
    /\ UNCHANGED <<now, createdAt, tx, tables, base>>

(* The client goes on behind the page it was given until one is not full. *)
NextPage ==
    /\ list.pc = "page"
    /\ list' = IF Cardinality(list.ids) < list.limit THEN [list EXCEPT !.pc = "end"]
               ELSE [list EXCEPT !.pc = "counted", !.total = Cardinality(polls), !.ids = {},
                                 !.offset = list.offset + list.limit]
    /\ UNCHANGED <<now, createdAt, tx, tables, base>>

Tick ==
    /\ now < MaxTime
    /\ now' = now + 1
    /\ UNCHANGED <<createdAt, tx, tables, list, base>>

Next ==
    \/ \E c \in Creators : Begin(c) \/ Insert(c) \/ Commit(c) \/ Fail(c)
    \/ \E limit \in Limits : FirstPage(limit)
    \/ ReadPage \/ ReadOptions \/ NextPage
    \/ Tick

Spec == Init /\ [][Next]_vars

-----------------------------------------------------------------------------
(* No page shows a poll without its options, although both are read by     *)
(* statements of their own while polls are being created, and none whose   *)
(* results are still to be inserted (List, Create).                        *)
PagesAreWhole == list.bare = {} /\ list.seen \subseteq results

(* A walk through the pages misses no poll that was there when it began:   *)
(* polls that are committed meanwhile, with whatever created_at, push the  *)
(* rest back but never forward (ListPollPage).                             *)
NothingIsSkipped == list.pc = "end" => base \subseteq list.seen
=============================================================================
