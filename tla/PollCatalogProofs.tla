-------------------------- MODULE PollCatalogProofs --------------------------
(***************************************************************************)
(* Proofs about PollCatalog: for any number of concurrent creations and    *)
(* any page sizes, the pages show whole polls, and a walk through them     *)
(* misses none that was there when it began.  Then, about BallotRules,     *)
(* what makes a poll and a ballot.                                         *)
(***************************************************************************)
EXTENDS PollCatalog, BallotRules, FiniteSetTheorems, SequenceTheorems, TLAPS

(* The three tables hold the rows of the transactions that were committed. *)
Committed ==
    /\ polls = {c \in Creators : tx[c] = "committed"}
    /\ options = polls /\ results = polls

Shown ==
    /\ list.ids \subseteq polls /\ list.seen \subseteq polls /\ list.bare = {}
    /\ list.pc # "idle" => list.limit \in 1 .. MaxPageSize
    /\ list.pc = "idle" => base = {} /\ list.offset = 0

(* The polls of base that come before the row the walk has reached have    *)
(* been seen; a page that is not full is the last one.                     *)
Behind(row, found) == \A c \in base : Rank(c) < row => c \in found

Walk ==
    /\ base \subseteq polls
    /\ list.pc = "counted" => Behind(list.offset, list.seen)
    /\ list.pc = "paged" =>
          /\ Behind(list.offset + list.limit, list.seen \cup list.ids)
          /\ Cardinality(list.ids) < list.limit => base \subseteq list.seen \cup list.ids
    /\ list.pc = "page" =>
          /\ Behind(list.offset + list.limit, list.seen)
          /\ Cardinality(list.ids) < list.limit => base \subseteq list.seen
    /\ list.pc = "end" => base \subseteq list.seen

IInv == TypeOK /\ Committed /\ Shown /\ Walk

USE CatalogAssumption

-----------------------------------------------------------------------------
(* ORDER BY created_at DESC, id DESC: the ranks of n polls are 0 .. n - 1. *)
LEMMA RankType ==
    ASSUME TypeOK, NEW c \in Creators
    PROVE  /\ Rank(c) \in Nat /\ IsFiniteSet({d \in polls : Precedes(d, c)})
           /\ Rank(c) <= Cardinality(polls) /\ Cardinality(polls) \in Nat
           /\ c \in polls => Rank(c) < Cardinality(polls)
<1> DEFINE S == {d \in polls : Precedes(d, c)}
<1>1. IsFiniteSet(polls) /\ S \in SUBSET polls /\ c \notin S
  BY DEF TypeOK, Precedes
<1>2. /\ IsFiniteSet(S) /\ Cardinality(S) \in Nat /\ Cardinality(polls) \in Nat
      /\ Cardinality(S) <= Cardinality(polls)
      /\ Cardinality(S) = Cardinality(polls) => S = polls
  BY <1>1, FS_Subset, FS_CardinalityType
<1> QED
  BY <1>1, <1>2 DEF Rank

LEMMA PollsTyped ==
    ASSUME TypeOK
    PROVE  \A x \in polls : x \in Creators /\ x \in Nat /\ createdAt[x] \in Nat
<1>1. createdAt \in [Creators -> 0 .. MaxTime] /\ polls \subseteq Creators /\ Creators \subseteq Nat
  BY DEF TypeOK
<1> QED
  BY <1>1

LEMMA RankInjective ==
    ASSUME TypeOK, NEW c \in polls, NEW d \in polls, Precedes(c, d)
    PROVE  Rank(c) < Rank(d)
<1> DEFINE S == {x \in polls : Precedes(x, c)}
           T == {x \in polls : Precedes(x, d)}
<1>1. \A x \in polls : x \in Creators /\ x \in Nat /\ createdAt[x] \in Nat
  BY PollsTyped
<1>2. S \in SUBSET T /\ c \in T /\ c \notin S
  <2>1. ASSUME NEW x \in polls, Precedes(x, c) PROVE Precedes(x, d)
    BY <1>1, <2>1 DEF Precedes
  <2>2. ~Precedes(c, c)
    BY <1>1 DEF Precedes
  <2> QED
    BY <2>1, <2>2
<1>3. IsFiniteSet(T) /\ Rank(c) \in Nat /\ Rank(d) \in Nat
  <2>1. c \in Creators /\ d \in Creators
    BY <1>1
  <2> QED
    BY <2>1, RankType
<1>4. Cardinality(S) <= Cardinality(T) /\ (Cardinality(S) = Cardinality(T) => S = T)
  BY <1>2, <1>3, FS_Subset
<1> HIDE DEF S, T
<1>5. Cardinality(S) # Cardinality(T)
  BY <1>2, <1>4
<1> QED
  BY <1>3, <1>4, <1>5 DEF Rank, S, T

LEMMA RanksDiffer ==
    ASSUME TypeOK, NEW c \in polls, NEW d \in polls, Rank(c) = Rank(d)
    PROVE  c = d
<1>1. /\ c \in Nat /\ d \in Nat /\ createdAt[c] \in Nat /\ createdAt[d] \in Nat
      /\ Rank(c) \in Nat /\ Rank(d) \in Nat
  <2>1. c \in Creators /\ d \in Creators
    BY PollsTyped
  <2> QED
    BY <2>1, PollsTyped, RankType
<1>2. Precedes(c, d) \/ Precedes(d, c) \/ c = d
  BY <1>1 DEF Precedes
<1> QED
  BY <1>1, <1>2, RankInjective

(* No rank is left out: an injection of the polls into as many ranks is    *)
(* onto them.                                                              *)
LEMMA RanksAreContiguous ==
    ASSUME TypeOK, NEW i \in Nat, i < Cardinality(polls)
    PROVE  \E c \in polls : Rank(c) = i
<1> DEFINE n == Cardinality(polls)
           R == 0 .. n - 1
           f == [c \in polls |-> Rank(c)]
<1>1. n \in Nat /\ IsFiniteSet(polls) /\ polls \subseteq Creators
  BY FS_CardinalityType DEF TypeOK
<1>2. f \in [polls -> R]
  <2>1. \A c \in polls : Rank(c) \in Nat /\ Rank(c) < n
    BY <1>1, RankType
  <2> HIDE DEF n
  <2> QED
    BY <1>1, <2>1
<1>3. IsFiniteSet(R) /\ Cardinality(R) = n
  <2> HIDE DEF n
  <2>1. /\ IsFiniteSet(0 .. n - 1)
        /\ Cardinality(0 .. n - 1) = IF 0 > n - 1 THEN 0 ELSE n - 1 - 0 + 1
    BY <1>1, FS_Interval
  <2> QED
    BY <1>1, <2>1
<1>4. \A c, d \in polls : f[c] = f[d] => c = d
  BY RanksDiffer
<1> HIDE DEF f, R
<1>5. f \in Injection(polls, R)
  BY <1>2, <1>4 DEF Injection, IsInjective
<1>6. f \in Surjection(polls, R)
  BY <1>3, <1>5, FS_Injection
<1>7. i \in R
  BY <1>1 DEF R
<1>8. \E c \in polls : f[c] = i
  BY <1>6, <1>7 DEF Surjection
<1> QED
  BY <1>8 DEF f

(* LIMIT bounds a page, and one that is not full has reached the end.      *)
LEMMA PageProperties ==
    ASSUME TypeOK, NEW offset \in Nat, NEW limit \in Nat
    PROVE  /\ PageAt(offset, limit) \subseteq polls
           /\ Cardinality(PageAt(offset, limit)) \in Nat
           /\ Cardinality(PageAt(offset, limit)) <= limit
           /\ Cardinality(PageAt(offset, limit)) < limit =>
                 \A c \in polls : Rank(c) < offset + limit
<1> DEFINE P == PageAt(offset, limit)
           R == offset .. offset + limit - 1
           f == [c \in P |-> Rank(c)]
<1>1. polls \subseteq Creators /\ P \subseteq polls /\ IsFiniteSet(P) /\ Cardinality(P) \in Nat
  BY FS_Subset, FS_CardinalityType DEF TypeOK, PageAt
<1>2. IsFiniteSet(R) /\ Cardinality(R) = limit
  BY FS_Interval
<1>3. \A c \in polls : Rank(c) \in Nat /\ Rank(c) < Cardinality(polls) /\ Cardinality(polls) \in Nat
  BY <1>1, RankType
<1>4. f \in [P -> R] /\ \A c, d \in P : f[c] = f[d] => c = d
  <2>1. \A c \in P : c \in polls /\ Rank(c) \in Nat /\ offset <= Rank(c) /\ Rank(c) < offset + limit
    BY <1>3 DEF PageAt
  <2>2. \A c \in P : Rank(c) \in R
    BY <2>1
  <2>3. \A c, d \in P : Rank(c) = Rank(d) => c = d
    BY <2>1, RanksDiffer
  <2> HIDE DEF P, R
  <2> QED
    BY <2>2, <2>3
<1> HIDE DEF f, R
<1>5. f \in Injection(P, R)
  BY <1>4 DEF Injection, IsInjective
<1>6. Cardinality(P) <= limit /\ (f \in Surjection(P, R) => Cardinality(P) = limit)
  BY <1>2, <1>5, FS_Injection
<1>7. ASSUME NEW c \in polls, ~(Rank(c) < offset + limit) PROVE f \in Surjection(P, R)
  <2>1. ASSUME NEW i \in R PROVE \E d \in P : f[d] = i
    <3>1. i \in Nat /\ offset <= i /\ i < offset + limit /\ i < Cardinality(polls)
      BY <1>3, <1>7 DEF R
    <3>2. PICK d \in polls : Rank(d) = i
      BY <3>1, RanksAreContiguous
    <3>3. d \in P
      BY <3>1, <3>2 DEF PageAt
    <3> QED
      BY <3>2, <3>3 DEF f
  <2> QED
    BY <1>4, <2>1 DEF Surjection
<1> QED
  BY <1>1, <1>6, <1>7

(* Polls that are committed push the others back, never forward.           *)
LEMMA RankGrows ==
    ASSUME TypeOK, TypeOK', polls \subseteq polls', NEW c \in polls,
           \A d \in polls : createdAt'[d] = createdAt[d]
    PROVE  Rank(c) \in Nat /\ Rank(c)' \in Nat /\ Rank(c) <= Rank(c)'
<1> DEFINE S == {d \in polls : Precedes(d, c)}
           T == {d \in polls' : Precedes(d, c)'}
<1>1. S \in SUBSET T
  BY DEF Precedes
<1>2. c \in Creators /\ Rank(c) \in Nat
  BY RankType DEF TypeOK
<1>3. IsFiniteSet(T)
  BY FS_Subset DEF TypeOK
<1>4. Cardinality(S) <= Cardinality(T) /\ Cardinality(T) \in Nat
  BY <1>1, <1>3, FS_Subset, FS_CardinalityType
<1> QED
  BY <1>2, <1>4 DEF Rank

-----------------------------------------------------------------------------
LEMMA InitIInv == Init => IInv
<1> SUFFICES ASSUME Init PROVE IInv
  OBVIOUS
<1>1. TypeOK
  BY FS_EmptySet DEF Init, TypeOK, List, TxStates
<1> QED
  BY <1>1 DEF Init, IInv, Committed, Shown, Walk

(* Steps that leave the walk alone keep it, if the polls only grow.        *)
LEMMA WalkKept ==
    ASSUME IInv, TypeOK', polls \subseteq polls', UNCHANGED <<list, base>>,
           \A d \in polls : createdAt'[d] = createdAt[d]
    PROVE  Walk'
<1>1. base \subseteq polls
  BY DEF IInv, Walk
<1>2. \A c \in base : Rank(c) \in Nat /\ Rank(c)' \in Nat /\ Rank(c) <= Rank(c)'
  BY <1>1, RankGrows DEF IInv
<1>3. list \in List
  BY DEF IInv, TypeOK
<1>4. ASSUME NEW row \in Nat, NEW found, Behind(row, found)
      PROVE  \A c \in base : Rank(c)' < row => c \in found
  BY <1>2, <1>4 DEF Behind
<1>5. list.offset \in Nat /\ list.offset + list.limit \in Nat
  BY <1>3 DEF List
<1> QED
  BY <1>1, <1>4, <1>5 DEF IInv, Walk, Behind

LEMMA CreateIInv ==
    ASSUME IInv, NEW c \in Creators, Begin(c) \/ Insert(c) \/ Commit(c) \/ Fail(c)
    PROVE  IInv'
<1>1. /\ polls \subseteq Creators /\ IsFiniteSet(polls) /\ createdAt \in [Creators -> 0 .. MaxTime]
      /\ tx \in [Creators -> TxStates] /\ now \in 1 .. MaxTime
      /\ polls = {d \in Creators : tx[d] = "committed"}
  BY DEF IInv, TypeOK, Committed
<1>2. /\ UNCHANGED <<now, list, base>>
      /\ createdAt' \in [Creators -> 0 .. MaxTime]
      /\ \A d \in polls : createdAt'[d] = createdAt[d]
  BY <1>1 DEF Begin, Insert, Commit, Fail, tables
<1>3. tx' \in [Creators -> TxStates]
  BY <1>1 DEF Begin, Insert, Commit, Fail, TxStates, Following
<1>4. /\ polls' \subseteq Creators /\ IsFiniteSet(polls') /\ polls \subseteq polls'
      /\ Committed'
  <2>1. CASE Commit(c)
    <3>1. polls' = polls \cup {c} /\ options' = options \cup {c} /\ results' = results \cup {c}
          /\ tx' = [tx EXCEPT ![c] = "committed"]
      BY <2>1 DEF Commit
    <3>2. IsFiniteSet(polls')
      BY <1>1, <3>1, FS_AddElement
    <3>3. Committed'
      BY <1>1, <3>1 DEF IInv, Committed
    <3> QED
      BY <1>1, <3>1, <3>2, <3>3
  <2>2. CASE Begin(c) \/ Insert(c) \/ Fail(c)
    <3>1. UNCHANGED tables /\ tx[c] # "committed" /\ tx'[c] # "committed"
          /\ \A d \in Creators \ {c} : tx'[d] = tx[d]
      BY <1>1, <2>2 DEF Begin, Insert, Fail, Following
    <3> QED
      BY <1>1, <3>1 DEF tables, IInv, Committed
  <2> QED
    BY <2>1, <2>2
<1>5. TypeOK'
  BY <1>1, <1>2, <1>3, <1>4 DEF IInv, TypeOK, Committed
<1>6. Shown'
  BY <1>2, <1>4 DEF IInv, Shown
<1>7. Walk'
  BY <1>2, <1>4, <1>5, WalkKept
<1> QED
  BY <1>4, <1>5, <1>6, <1>7 DEF IInv

(* The walk goes on while the tables stay. *)
LEMMA WalkStep ==
    ASSUME IInv, NEW l \in List, list' = l, Cardinality(l.ids) <= MaxPageSize,
           base' \subseteq polls, UNCHANGED <<now, createdAt, tx, tables>>, Shown'
    PROVE  TypeOK' /\ Committed' /\ \A c \in polls : Rank(c)' = Rank(c)
  BY DEF IInv, TypeOK, Committed, tables, Rank, Precedes

LEMMA LimitRange == \A limit \in Limits : LimitFor(limit) \in 1 .. MaxPageSize
  BY DEF LimitFor

LEMMA FirstPageIInv == ASSUME IInv, NEW limit \in Limits, FirstPage(limit) PROVE IInv'
<1> DEFINE l == [list EXCEPT !.pc = "counted", !.limit = LimitFor(limit),
                             !.total = Cardinality(polls)]
<1>1. /\ list \in List /\ list.pc = "idle" /\ list.offset = 0
      /\ LimitFor(limit) \in 1 .. MaxPageSize /\ LimitFor(limit) \in Nat
      /\ Cardinality(polls) \in Nat /\ Cardinality(list.ids) <= MaxPageSize
      /\ list' = l /\ base' = polls /\ UNCHANGED <<now, createdAt, tx, tables>>
  BY LimitRange, FS_CardinalityType DEF FirstPage, IInv, TypeOK, Shown
<1>2. /\ l \in List /\ l.pc = "counted" /\ l.offset = 0 /\ l.limit = LimitFor(limit)
      /\ l.ids = list.ids /\ l.seen = list.seen /\ l.bare = list.bare
  BY <1>1 DEF List
<1> HIDE DEF l
<1>3. Shown'
  BY <1>1, <1>2 DEF IInv, Shown, tables
<1>4. TypeOK' /\ Committed' /\ \A c \in polls : Rank(c)' = Rank(c)
  BY <1>1, <1>2, <1>3, WalkStep
<1>5. \A c \in polls : Rank(c) \in Nat
  BY PollsTyped, RankType DEF IInv
<1>6. Walk'
  BY <1>1, <1>2, <1>4, <1>5 DEF Walk, Behind, tables
<1> QED
  BY <1>3, <1>4, <1>6 DEF IInv

LEMMA ReadPageIInv == ASSUME IInv, ReadPage PROVE IInv'
<1> DEFINE page == PageAt(list.offset, list.limit)
           l == [list EXCEPT !.pc = "paged", !.ids = page]
<1>1. /\ list \in List /\ list.pc = "counted" /\ list' = l
      /\ list.offset \in Nat /\ list.limit \in 1 .. MaxPageSize /\ list.limit \in Nat
      /\ polls \subseteq Creators /\ UNCHANGED <<now, createdAt, tx, tables, base>>
      /\ base \subseteq polls /\ Behind(list.offset, list.seen)
  BY DEF ReadPage, IInv, TypeOK, Shown, Walk, List
<1>2. /\ page \subseteq polls /\ Cardinality(page) \in Nat /\ Cardinality(page) <= list.limit
      /\ Cardinality(page) < list.limit => \A c \in polls : Rank(c) < list.offset + list.limit
  BY <1>1, PageProperties DEF IInv
<1>3. \A c \in polls : Rank(c) \in Nat
  BY PollsTyped, RankType DEF IInv
<1>4. \A c \in base : Rank(c) < list.offset + list.limit => c \in list.seen \cup page
  BY <1>1, <1>3 DEF Behind, PageAt
<1> HIDE DEF page
<1>5. /\ l \in List /\ l.pc = "paged" /\ l.ids = page /\ l.offset = list.offset
      /\ l.limit = list.limit /\ l.seen = list.seen /\ l.bare = list.bare
  BY <1>1, <1>2 DEF List
<1> HIDE DEF l
<1>6. Cardinality(l.ids) <= MaxPageSize
  BY <1>1, <1>2, <1>5
<1>7. Shown'
  BY <1>1, <1>2, <1>5 DEF IInv, Shown, tables
<1>8. TypeOK' /\ Committed' /\ \A c \in polls : Rank(c)' = Rank(c)
  BY <1>1, <1>5, <1>6, <1>7, WalkStep
<1>9. Walk'
  <2>1. Cardinality(page) < list.limit => base \subseteq list.seen \cup page
    BY <1>1, <1>2, <1>4
  <2> QED
    BY <1>1, <1>4, <1>5, <1>8, <2>1 DEF Walk, Behind, tables
<1> QED
  BY <1>7, <1>8, <1>9 DEF IInv

LEMMA ReadOptionsIInv == ASSUME IInv, ReadOptions PROVE IInv'
<1> DEFINE l == [list EXCEPT !.pc = "page", !.seen = @ \cup list.ids,
                             !.bare = @ \cup (list.ids \ options)]
<1>1. /\ list \in List /\ list.pc = "paged" /\ list' = l
      /\ UNCHANGED <<now, createdAt, tx, tables, base>>
      /\ base \subseteq polls /\ polls \subseteq Creators /\ options = polls
      /\ list.ids \subseteq polls /\ list.seen \subseteq polls /\ list.bare = {}
      /\ Behind(list.offset + list.limit, list.seen \cup list.ids)
      /\ Cardinality(list.ids) < list.limit => base \subseteq list.seen \cup list.ids
      /\ Cardinality(list.ids) <= MaxPageSize
  BY DEF ReadOptions, IInv, TypeOK, Committed, Shown, Walk
<1>2. /\ l \in List /\ l.pc = "page" /\ l.ids = list.ids /\ l.offset = list.offset
      /\ l.limit = list.limit /\ l.seen = list.seen \cup list.ids /\ l.bare = {}
  BY <1>1 DEF List
<1> HIDE DEF l
<1>3. Shown'
  BY <1>1, <1>2 DEF IInv, Shown, tables
<1>4. TypeOK' /\ Committed' /\ \A c \in polls : Rank(c)' = Rank(c)
  BY <1>1, <1>2, <1>3, WalkStep
<1>5. Walk'
  BY <1>1, <1>2, <1>4 DEF Walk, Behind, tables
<1> QED
  BY <1>3, <1>4, <1>5 DEF IInv

LEMMA NextPageIInv == ASSUME IInv, NextPage PROVE IInv'
<1>1. /\ list \in List /\ list.pc = "page" /\ list.offset \in Nat /\ list.limit \in Nat
      /\ UNCHANGED <<now, createdAt, tx, tables, base>>
      /\ base \subseteq polls /\ IsFiniteSet(polls)
      /\ Behind(list.offset + list.limit, list.seen)
      /\ Cardinality(list.ids) < list.limit => base \subseteq list.seen
      /\ Cardinality(list.ids) <= MaxPageSize
  BY DEF NextPage, IInv, TypeOK, List, Walk
<1>2. CASE Cardinality(list.ids) < list.limit
  <2> DEFINE l == [list EXCEPT !.pc = "end"]
  <2>1. /\ list' = l /\ l \in List /\ l.pc = "end" /\ l.ids = list.ids
        /\ l.limit = list.limit /\ l.seen = list.seen /\ l.bare = list.bare
    BY <1>1, <1>2 DEF NextPage, List
  <2> HIDE DEF l
  <2>2. Shown'
    BY <1>1, <2>1 DEF IInv, Shown, tables
  <2>3. TypeOK' /\ Committed'
    BY <1>1, <2>1, <2>2, WalkStep
  <2>4. Walk'
    BY <1>1, <1>2, <2>1 DEF Walk, tables
  <2> QED
    BY <2>2, <2>3, <2>4 DEF IInv
<1>3. CASE ~(Cardinality(list.ids) < list.limit)
  <2> DEFINE l == [list EXCEPT !.pc = "counted", !.total = Cardinality(polls), !.ids = {},
                               !.offset = list.offset + list.limit]
  <2>1. Cardinality(polls) \in Nat /\ Cardinality({}) = 0
    BY <1>1, FS_CardinalityType, FS_EmptySet
  <2>2. /\ list' = l /\ l \in List /\ l.pc = "counted" /\ l.ids = {}
        /\ l.offset = list.offset + list.limit
        /\ l.limit = list.limit /\ l.seen = list.seen /\ l.bare = list.bare
    <3>1. list' = l
      BY <1>3 DEF NextPage
    <3>2. list.offset + list.limit \in Nat
      BY <1>1
    <3> QED
      BY <1>1, <2>1, <3>1, <3>2 DEF List
  <2> HIDE DEF l
  <2>3. Shown'
    BY <1>1, <2>2 DEF IInv, Shown, tables
  <2>4. Cardinality(l.ids) <= MaxPageSize
    BY <2>1, <2>2
  <2>5. TypeOK' /\ Committed' /\ \A c \in polls : Rank(c)' = Rank(c)
    BY <1>1, <2>2, <2>3, <2>4, WalkStep
  <2>6. Walk'
    BY <1>1, <2>2, <2>5 DEF Walk, Behind, tables
  <2> QED
    BY <2>3, <2>5, <2>6 DEF IInv
<1> QED
  BY <1>2, <1>3

LEMMA StepIInv == IInv /\ [Next]_vars => IInv'
<1> SUFFICES ASSUME IInv, [Next]_vars PROVE IInv'
  OBVIOUS
<1>1. CASE \E c \in Creators : Begin(c) \/ Insert(c) \/ Commit(c) \/ Fail(c)
  BY <1>1, CreateIInv
<1>2. CASE \E limit \in Limits : FirstPage(limit)
  BY <1>2, FirstPageIInv
<1>3. CASE ReadPage \/ ReadOptions \/ NextPage
  BY <1>3, ReadPageIInv, ReadOptionsIInv, NextPageIInv
<1>4. CASE Tick \/ UNCHANGED vars
  <2>1. UNCHANGED <<createdAt, tx, polls, options, results, list, base>>
    BY <1>4 DEF Tick, vars, tables
  <2>2. TypeOK'
    BY <1>4, <2>1 DEF Tick, vars, IInv, TypeOK
  <2>3. Walk'
    BY <2>1, <2>2, WalkKept
  <2> QED
    BY <2>1, <2>2, <2>3 DEF IInv, Committed, Shown
<1> QED
  BY <1>1, <1>2, <1>3, <1>4 DEF Next

-----------------------------------------------------------------------------
(* The walk has seen the polls behind it, whatever Create commits          *)
(* meanwhile (Create, ListPollPage, ListOptionsByPollIDs).                 *)
THEOREM Invariance == Spec => []IInv
  BY InitIInv, StepIInv, PTL DEF Spec

(* Creations and the walk keep their types, and a page is no larger than   *)
(* POLL_PAGE_SIZE_MAX (Create, List).                                      *)
THEOREM TypeCorrect == Spec => []TypeOK
<1>1. IInv => TypeOK
  BY DEF IInv
<1> QED
  BY <1>1, Invariance, PTL

(* No page shows a poll without its options or before its result rows are  *)
(* there: a transaction's rows appear together and none are removed        *)
(* (Create, ListOptionsByPollIDs).                                         *)
THEOREM ShownPollsAreWhole == Spec => []PagesAreWhole
<1>1. IInv => PagesAreWhole
  BY DEF IInv, Committed, Shown, PagesAreWhole
<1> QED
  BY <1>1, Invariance, PTL

(* A walk over pages of any size misses no poll that was there when it     *)
(* began, whatever is created meanwhile: ranks are contiguous and only     *)
(* grow (ListPollPage).                                                    *)
THEOREM WalksAreComplete == Spec => []NothingIsSkipped
<1>1. IInv => NothingIsSkipped
  BY DEF IInv, Walk, NothingIsSkipped
<1> QED
  BY <1>1, Invariance, PTL

-----------------------------------------------------------------------------
(* What a poll and a ballot are (BallotRules): for any texts, limits and   *)
(* instants a ballot passes exactly when it is a set of options within the *)
(* limit, and every poll that can be activated can be voted on.            *)
HIDE CatalogAssumption
USE RulesAssumption

(* A poll that buildPoll has made. *)
BuiltPoll ==
    {p \in [type : {"single", "multiple"}, maxChoices : Nat, options : SUBSET GoodTexts,
            startsAt : Nat, endsAt : Nat] :
        /\ IsFiniteSet(p.options) /\ Cardinality(p.options) \in 2 .. MaxOptions
        /\ p.maxChoices \in 1 .. Cardinality(p.options)
        /\ p.type = "single" => p.maxChoices = 1}

Built == pc \in {"built", "draft", "active"} => poll \in BuiltPoll

(* Its window when it was stored: not empty. *)
Open == pc \in {"draft", "active"} => WindowOrdered(poll.startsAt, poll.endsAt)

(* A verdict that is not about the time is the verdict of ValidateBallot   *)
(* for the poll as it is now.                                              *)
Judged ==
    ballot.verdict \in {"pass", "invalid_request"} =>
        /\ pc = "active" /\ ballot.ids \in Seq(GoodTexts)
        /\ (ballot.verdict = "pass" <=> ValidBallot(ballot.ids))

RulesIInv == RulesTypeOK /\ Built /\ Open /\ Judged

-----------------------------------------------------------------------------
LEMMA BoundedSeqIsSeq ==
    ASSUME NEW S, NEW n \in Nat, NEW l \in BoundedSeq(S, n)
    PROVE  l \in Seq(S)
<1>1. PICK m \in 0 .. n : l \in [1 .. m -> S]
  BY DEF BoundedSeq, SeqOf
<1> QED
  BY <1>1

(* buildPoll makes a poll with a choice for everyone. *)
LEMMA BuildsPolls ==
    ASSUME NEW cmd \in Command, Acceptable(cmd)
    PROVE  [type |-> PollType(cmd), maxChoices |-> ChoicesFor(cmd),
            options |-> Texts(cmd), startsAt |-> cmd.startsAt, endsAt |-> cmd.endsAt] \in BuiltPoll
<1> DEFINE l == cmd.options
           n == Cardinality(Texts(cmd))
<1>1. /\ cmd.maxChoices \in Int /\ l \in BoundedSeq(RawTexts, MaxOptions + 1)
      /\ cmd.startsAt \in Nat /\ cmd.endsAt \in Nat /\ MaxOptions \in Nat
  BY DEF Command, MaxChoices, RulesAssumption
<1>2. l \in Seq(RawTexts)
  BY <1>1, BoundedSeqIsSeq
<1>3. ToSet(l) \subseteq RawTexts /\ IsFiniteSet(ToSet(l))
  <2>1. DOMAIN l = 1 .. Len(l) /\ Len(l) \in Nat /\ \A i \in 1 .. Len(l) : l[i] \in RawTexts
    BY <1>2, LenProperties, ElementOfSeq
  <2>2. IsFiniteSet(1 .. Len(l))
    BY <2>1, FS_Interval
  <2> DEFINE f == [i \in 1 .. Len(l) |-> l[i]]
  <2>3. f \in Surjection(1 .. Len(l), ToSet(l))
    BY <2>1 DEF ToSet, Surjection
  <2> QED
    BY <2>1, <2>2, <2>3, FS_Surjection DEF ToSet
<1>4. Texts(cmd) \subseteq GoodTexts
  BY <1>3 DEF Texts, GoodTexts, Acceptable
<1>5. IsFiniteSet(Texts(cmd))
  <2> DEFINE T == {Trim[raw] : raw \in ToSet(l)}
             f == [raw \in ToSet(l) |-> Trim[raw]]
  <2>1. f \in Surjection(ToSet(l), T)
    BY DEF Surjection
  <2>2. IsFiniteSet(T)
    BY <1>3, <2>1, FS_Surjection
  <2> QED
    BY <2>2, FS_Subset DEF Texts
<1>6. /\ PollType(cmd) \in {"single", "multiple"} /\ n \in 2 .. MaxOptions
      /\ ChoicesFor(cmd) <= n
  BY DEF Acceptable
<1>7. /\ ChoicesFor(cmd) \in 1 .. n
      /\ PollType(cmd) = "single" => ChoicesFor(cmd) = 1
  <2> HIDE DEF n
  <2> QED
    BY <1>1, <1>6 DEF ChoicesFor, n
<1> QED
  BY <1>1, <1>4, <1>5, <1>6, <1>7 DEF BuiltPoll

LEMMA KeptType == \A t \in Nat : Kept(t) \in Nat
<1> SUFFICES ASSUME NEW t \in Nat PROVE Kept(t) \in Nat
  OBVIOUS
<1>1. Resolution \in Nat \ {0}
  BY DEF RulesAssumption
<1>2. t % Resolution \in Nat /\ t % Resolution <= t
  BY <1>1
<1> QED
  BY <1>2 DEF Kept

(* For a poll that was built the limit that ValidateBallot works out is    *)
(* the one that buildPoll has stored.                                      *)
LEMMA LimitIsStored ==
    ASSUME NEW p \in BuiltPoll
    PROVE  EffectiveMaxChoices(p) = p.maxChoices
  BY DEF BuiltPoll, EffectiveMaxChoices

LEMMA RulesInitIInv == RulesInit => RulesIInv
<1> SUFFICES ASSUME RulesInit PROVE RulesIInv
  OBVIOUS
<1>1. pc = "new" /\ poll = NoPoll /\ ballot.verdict = "none"
  BY DEF RulesInit, NoBallot
<1>2. RulesTypeOK
  BY <1>1 DEF RulesTypeOK
<1> QED
  BY <1>1, <1>2 DEF RulesIInv, Built, Open, Judged

LEMMA RulesStepIInv == RulesIInv /\ [RulesNext]_rulesVars => RulesIInv'
<1> SUFFICES ASSUME RulesIInv, [RulesNext]_rulesVars PROVE RulesIInv'
  OBVIOUS
<1>1. CASE UNCHANGED rulesVars
  BY <1>1 DEF rulesVars, RulesIInv, RulesTypeOK, Built, Open, Judged,
              ValidBallot, WithinChoices
<1>2. ASSUME NEW cmd \in Command, pc = "new", Build(cmd) PROVE RulesIInv'
  <2>1. poll' \in BuiltPoll /\ pc' = "built" /\ ballot' = ballot
    BY <1>2, BuildsPolls DEF Build
  <2>2. ballot.verdict \notin {"pass", "invalid_request"}
    BY <1>2 DEF RulesIInv, Judged
  <2> QED
    BY <2>1, <2>2 DEF RulesIInv, RulesTypeOK, Built, Open, Judged
<1>3. ASSUME NEW cmd \in Command, pc = "new", Reject(cmd) PROVE RulesIInv'
  BY <1>3 DEF Reject, RulesIInv, RulesTypeOK, Built, Open, Judged
<1>4. CASE Store
  <2>1. /\ poll \in BuiltPoll /\ Storable(poll) /\ pc = "built" /\ pc' = "draft"
        /\ poll' = [poll EXCEPT !.startsAt = Kept(@), !.endsAt = Kept(@)]
        /\ ballot' = ballot
    BY <1>4 DEF Store, RulesIInv, Built
  <2>2. Kept(poll.startsAt) \in Nat /\ Kept(poll.endsAt) \in Nat
    BY <2>1, KeptType DEF BuiltPoll
  <2>3. /\ poll' \in BuiltPoll
        /\ poll'.startsAt = Kept(poll.startsAt) /\ poll'.endsAt = Kept(poll.endsAt)
    BY <2>1, <2>2 DEF BuiltPoll
  <2>4. WindowOrdered(poll'.startsAt, poll'.endsAt)
    BY <2>1, <2>3 DEF Storable
  <2>5. ballot.verdict \notin {"pass", "invalid_request"}
    BY <2>1 DEF RulesIInv, Judged
  <2>6. RulesTypeOK'
    BY <2>1, <2>3 DEF RulesIInv, RulesTypeOK, BuiltPoll
  <2> QED
    BY <2>1, <2>3, <2>4, <2>5, <2>6 DEF RulesIInv, Built, Open, Judged, WindowOrdered
<1>5. CASE StoreFails
  BY <1>5 DEF StoreFails, RulesIInv, RulesTypeOK, Built, Open, Judged
<1>6. CASE Activate
  <2>1. /\ poll' = poll /\ ballot' = ballot /\ pc = "draft" /\ pc' = "active"
        /\ ballot.verdict = "none"
    BY <1>6 DEF Activate, NoBallot
  <2> QED
    BY <2>1 DEF RulesIInv, RulesTypeOK, Built, Open, Judged, WindowOrdered
<1>7. ASSUME NEW ids \in BoundedSeq(GoodTexts, MaxOptions + 1),
             NEW at \in Instants, Cast(ids, at)
      PROVE  RulesIInv'
  <2>1. /\ poll' = poll /\ pc' = pc
        /\ ballot' = [ids |-> ids, at |-> at,
                      verdict |-> IF ~OpenAt(at) THEN "conflict"
                                  ELSE IF ~ValidBallot(ids) THEN "invalid_request"
                                  ELSE "pass"]
    BY <1>7 DEF Cast
  <2>2. ids \in Seq(GoodTexts)
    BY BoundedSeqIsSeq DEF RulesAssumption
  <2>3. ValidBallot(ids)' = ValidBallot(ids)
    BY <2>1 DEF ValidBallot, WithinChoices
  <2>4. Judged'
    <3>1. ballot'.ids = ids
      BY <2>1
    <3>2. ValidBallot(ballot.ids)' = ValidBallot(ids)
      BY <2>1, <3>1 DEF ValidBallot, WithinChoices
    <3>3. ballot'.verdict \in {"pass", "invalid_request"} =>
             OpenAt(at) /\ (ballot'.verdict = "pass" <=> ValidBallot(ids))
      BY <2>1
    <3> QED
      BY <2>1, <2>2, <3>1, <3>2, <3>3 DEF Judged, OpenAt
  <2>5. ballot'.verdict \in {"conflict", "invalid_request", "pass"}
    BY <2>1
  <2> QED
    BY <2>1, <2>4, <2>5 DEF RulesIInv, RulesTypeOK, Built, Open, WindowOrdered
<1> QED
  BY <1>1, <1>2, <1>3, <1>4, <1>5, <1>6, <1>7 DEF RulesNext, Create

-----------------------------------------------------------------------------
(* A poll keeps what buildPoll made of it but for its truncated window,    *)
(* and a verdict is that of the poll as it is (Create, Activate, Cast).    *)
THEOREM RulesInvariance == RulesSpec => []RulesIInv
<1>1. RulesInit => RulesIInv
  BY RulesInitIInv
<1>2. RulesIInv /\ [RulesNext]_rulesVars => RulesIInv'
  BY RulesStepIInv
<1> QED
  BY <1>1, <1>2, PTL DEF RulesSpec

(* A list without repetitions is a way to write down the set of its        *)
(* members, and one of a set of that size.                                 *)
LEMMA ListsOfSets ==
    ASSUME NEW S, NEW l \in Seq(S)
    PROVE  /\ IsInjective(l) => /\ l \in SetToSeqs(ToSet(l))
                                /\ Cardinality(ToSet(l)) = Len(l)
           /\ \A T : IsFiniteSet(T) /\ l \in SetToSeqs(T) =>
                 IsInjective(l) /\ ToSet(l) \subseteq T /\ Len(l) = Cardinality(T)
<1> DEFINE n == Len(l)
<1>1. l \in [1 .. n -> S] /\ n \in Nat /\ DOMAIN l = 1 .. n
  BY LenProperties
<1> HIDE DEF n
<1>2. ASSUME IsInjective(l)
      PROVE  l \in SetToSeqs(ToSet(l)) /\ Cardinality(ToSet(l)) = n
  <2>1. /\ l \in [1 .. n -> ToSet(l)]
        /\ \A i, j \in 1 .. n : l[i] = l[j] => i = j
        /\ \A x \in ToSet(l) : \E i \in 1 .. n : l[i] = x
    BY <1>1, <1>2 DEF IsInjective, ToSet
  <2>2. l \in Surjection(1 .. n, ToSet(l)) /\ l \in Injection(1 .. n, ToSet(l))
    BY <2>1 DEF Surjection, Injection, IsInjective
  <2>3. IsFiniteSet(1 .. n) /\ Cardinality(1 .. n) = n
    BY <1>1, FS_Interval
  <2>4. Cardinality(ToSet(l)) = n
    BY <2>2, <2>3, FS_Surjection
  <2> QED
    BY <2>1, <2>4 DEF SetToSeqs
<1>3. ASSUME NEW T, IsFiniteSet(T), l \in SetToSeqs(T)
      PROVE  IsInjective(l) /\ ToSet(l) \subseteq T /\ n = Cardinality(T)
  <2>1. Cardinality(T) \in Nat
    BY <1>3, FS_CardinalityType
  <2>2. l \in [1 .. Cardinality(T) -> T] /\ \A i, j \in 1 .. Cardinality(T) : i # j => l[i] # l[j]
    BY <1>3 DEF SetToSeqs
  <2>3. 1 .. n = 1 .. Cardinality(T)
    BY <1>1, <2>2
  <2>4. n = Cardinality(T)
    BY <1>1, <2>1, <2>3
  <2> QED
    BY <1>1, <2>2, <2>3, <2>4 DEF IsInjective, ToSet
<1> QED
  BY <1>2, <1>3 DEF n

(* What is stored has a type that ballots are judged by, as many options   *)
(* as a poll may have and a choice for everyone (buildPoll, InsertPoll).   *)
THEOREM RulesTypeCorrect == RulesSpec => []RulesTypeOK
<1>1. RulesIInv => RulesTypeOK
  BY DEF RulesIInv
<1>2. RulesSpec => []RulesIInv
  BY RulesInvariance
<1> QED
  BY <1>1, <1>2, PTL

(* For every poll that can be created and every list of texts: a ballot    *)
(* passes exactly when it lists a set of options within max_choices        *)
(* (buildPoll, ValidateBallot).                                            *)
THEOREM PassesSetsOfOptions == RulesSpec => []BallotsAreSetsOfOptions
<1>1. RulesIInv => BallotsAreSetsOfOptions
  <2> SUFFICES ASSUME RulesIInv, ballot.verdict # "none", ballot.verdict # "conflict"
               PROVE  ballot.verdict = "pass" <=>
                         \E choice \in SUBSET poll.options :
                             /\ Cardinality(choice) \in 1 .. poll.maxChoices
                             /\ ballot.ids \in SetToSeqs(choice)
    BY DEF BallotsAreSetsOfOptions
  <2> DEFINE l == ballot.ids
  <2>1. /\ l \in Seq(GoodTexts) /\ poll \in BuiltPoll
        /\ ballot.verdict = "pass" <=> ValidBallot(l)
    BY DEF RulesIInv, RulesTypeOK, Judged, Built
  <2>2. WithinChoices(poll, l) <=> Len(l) \in 1 .. poll.maxChoices
    BY <2>1, LimitIsStored DEF WithinChoices
  <2>3. IsFiniteSet(poll.options)
    BY <2>1 DEF BuiltPoll
  <2> HIDE DEF l
  <2>4. ASSUME ValidBallot(l)
        PROVE  \E choice \in SUBSET poll.options :
                  /\ Cardinality(choice) \in 1 .. poll.maxChoices
                  /\ l \in SetToSeqs(choice)
    <3>1. /\ ToSet(l) \in SUBSET poll.options /\ IsInjective(l)
          /\ Len(l) \in 1 .. poll.maxChoices
      BY <2>2, <2>4 DEF ValidBallot
    <3> QED
      BY <2>1, <3>1, ListsOfSets
  <2>5. ASSUME NEW choice \in SUBSET poll.options,
               Cardinality(choice) \in 1 .. poll.maxChoices, l \in SetToSeqs(choice)
        PROVE  ValidBallot(l)
    <3>1. IsFiniteSet(choice)
      BY <2>3, FS_Subset
    <3>2. IsInjective(l) /\ ToSet(l) \subseteq choice /\ Len(l) = Cardinality(choice)
      BY <2>1, <2>5, <3>1, ListsOfSets
    <3> QED
      BY <2>2, <2>5, <3>2 DEF ValidBallot
  <2> QED
    BY <2>1, <2>4, <2>5 DEF l
<1>2. RulesSpec => []RulesIInv
  BY RulesInvariance
<1> QED
  BY <1>1, <1>2, PTL

(* Every poll that can be activated can be voted on: it has a moment at    *)
(* which it is open and a ballot for each option (buildPoll and the        *)
(* constraint polls_window_ordered).                                       *)
THEOREM CanBeVoted == RulesSpec => []EveryPollCanBeVoted
<1>1. RulesIInv => EveryPollCanBeVoted
  <2> SUFFICES ASSUME RulesIInv, pc = "active" PROVE EveryPollCanBeVoted
    BY DEF EveryPollCanBeVoted
  <2>1. poll \in BuiltPoll /\ WindowOrdered(poll.startsAt, poll.endsAt)
    BY DEF RulesIInv, Built, Open
  <2>2. poll.startsAt # 0 /\ poll.endsAt # 0 => poll.startsAt < poll.endsAt
    BY <2>1 DEF WindowOrdered, BuiltPoll
  <2>3. ASSUME NEW option \in poll.options PROVE ValidBallot(<<option>>)
    <3>1. Len(<<option>>) = 1 /\ DOMAIN <<option>> = {1} /\ <<option>>[1] = option
      OBVIOUS
    <3>2. WithinChoices(poll, <<option>>)
      BY <2>1, <3>1, LimitIsStored DEF WithinChoices, BuiltPoll
    <3> QED
      BY <3>1, <3>2 DEF ValidBallot, ToSet, IsInjective
  <2> QED
    BY <2>2, <2>3 DEF EveryPollCanBeVoted
<1>2. RulesSpec => []RulesIInv
  BY RulesInvariance
<1> QED
  BY <1>1, <1>2, PTL
=============================================================================
