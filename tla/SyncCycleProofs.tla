--------------------------- MODULE SyncCycleProofs ---------------------------
(***************************************************************************)
(* Proofs about SyncCycle: with any number of workers, polls, connections, *)
(* deadlocks, crashes and statements left behind, a poll is taken off the  *)
(* list only when PostgreSQL has all its ballots, and a cycle that reports *)
(* no failure has copied what was there when it began.                     *)
(***************************************************************************)
EXTENDS SyncCycle, FiniteSetTheorems, SequenceTheorems, TLAPS

(* PostgreSQL has all the ballots of p, when k are the counters and r the  *)
(* rows.                                                                   *)
Durable(p, k, r) == \A o \in OptionsOf(p) : r[o] = k[o]

(* What the cycle c knows of the polls it has looked at, and what it owes: *)
(* the ballots it counted at the beginning, until they are in PostgreSQL,  *)
(* and only those of polls it still has to do or waits for.                *)
Sound(c, k, r, st) ==
    /\ c.seen = "settled" => st[c.poll] = "settled"
    /\ c.pc = "untracking" => c.seen = "settled" /\ Durable(c.poll, k, r)
    /\ \A o \in Options :
          /\ c.due[o] <= k[o]
          /\ st[PollOf[o]] # "missing" /\ r[o] < c.due[o] =>
                PollOf[o] \in c.todo \/ (c.pc = "saving" /\ PollOf[o] = c.poll)

(* The upsert u has all that c, which waits for it, owes the poll, and all *)
(* there ever will be when the poll had settled.                           *)
Carries(u, c, k) ==
    /\ c.pc = "saving"
    /\ DOMAIN u.votes = OptionsOf(c.poll)
    /\ \A o \in OptionsOf(c.poll) : c.due[o] <= u.votes[o]
    /\ c.seen = "settled" => \A o \in OptionsOf(c.poll) : u.votes[o] = k[o]

(* No total has votes that were not counted, ...                           *)
RowsWithin == \A o \in Options : row[o] <= counter[o]

(* ... nor has an upsert, and nobody waits for more than one. *)
Statements ==
    \A s \in Sessions :
        LET u == statement[s] IN
        /\ \A o \in DOMAIN u.votes : u.votes[o] <= counter[o]
        /\ u.client # None =>
              /\ Carries(u, cycle[u.client], counter)
              /\ \A t \in Sessions : statement[t].client = u.client => t = s

Cycles == \A w \in Workers : Sound(cycle[w], counter, row, status)

Untracked ==
    \A p \in Polls \ tracked :
        status[p] = "missing" \/ (status[p] = "settled" /\ Durable(p, counter, row))

IInv == TypeOK /\ RowsWithin /\ Statements /\ Cycles /\ Untracked

USE CycleAssumption

-----------------------------------------------------------------------------
LEMMA StatementFields ==
    ASSUME TypeOK, NEW s \in Sessions
    PROVE  LET u == statement[s] IN
           /\ u.client \in Workers \cup {None}
           /\ DOMAIN u.votes \subseteq Options
           /\ \A o \in DOMAIN u.votes : u.votes[o] \in Nat
           /\ u.rows \in Seq(Options)
<1>1. CASE statement[s] = AtRest
  BY <1>1 DEF AtRest
<1>2. ASSUME NEW p \in Polls, statement[s] \in Upsert(p)
      PROVE  LET u == statement[s] IN
             /\ u.client \in Workers \cup {None}
             /\ DOMAIN u.votes \subseteq Options
             /\ \A o \in DOMAIN u.votes : u.votes[o] \in Nat
             /\ u.rows \in Seq(Options)
  <2>1. OptionsOf(p) \subseteq Options
    BY DEF OptionsOf
  <2>2. Seq(OptionsOf(p)) \subseteq Seq(Options)
    BY <2>1, SeqMonotonic
  <2> QED
    BY <1>2, <2>1, <2>2 DEF Upsert
<1> QED
  BY <1>1, <1>2 DEF TypeOK

LEMMA OnlyValues ==
    ASSUME NEW votes \in [Options -> Nat], NEW P
    PROVE  /\ Only(votes, P) \in [Options -> Nat]
           /\ \A o \in Options : /\ Only(votes, P)[o] <= votes[o]
                                 /\ PollOf[o] \notin P => Only(votes, P)[o] = 0
                                 /\ PollOf[o] \in P => Only(votes, P)[o] = votes[o]
  BY DEF Only

LEMMA IdleFields ==
    /\ Idle \in Cycle
    /\ Idle.pc = "idle" /\ Idle.seen = "live" /\ Idle.due = [o \in Options |-> 0]
<1>1. (CHOOSE p \in Polls : TRUE) \in Polls
  OBVIOUS
<1> QED
  BY <1>1 DEF Idle, Cycle, Status

LEMMA DoneFields ==
    ASSUME NEW c \in Cycle, NEW P
    PROVE  LET d == Done(c, P) IN
           /\ d \in Cycle
           /\ d.pc = "next" /\ d.todo = c.todo \ P /\ d.seen = "live" /\ d.due = c.due
<1>1. Idle.poll \in Polls
  BY IdleFields DEF Cycle
<1> QED
  BY <1>1 DEF Done, Cycle, Status

LEMMA FailedFields ==
    ASSUME NEW c \in Cycle, NEW P
    PROVE  LET d == Failed(c, P) IN
           /\ d \in Cycle
           /\ d.pc = "next" /\ d.todo = c.todo \ P /\ d.seen = "live"
           /\ \A o \in Options : /\ d.due[o] <= c.due[o]
                                 /\ PollOf[o] \in P => d.due[o] = 0
                                 /\ PollOf[o] \notin P => d.due[o] = c.due[o]
<1> DEFINE e == Done(c, P)
<1>1. /\ e \in Cycle /\ e.pc = "next" /\ e.todo = c.todo \ P /\ e.seen = "live"
      /\ e.due = c.due /\ c.due \in [Options -> Nat]
  BY DoneFields DEF Cycle
<1>2. Failed(c, P) = [e EXCEPT !.due = Only(c.due, Polls \ P)]
  BY <1>1 DEF Failed
<1>3. Only(c.due, Polls \ P) \in [Options -> Nat]
  BY <1>1, OnlyValues
<1> HIDE DEF e
<1> QED
  BY <1>1, <1>2, <1>3, OnlyValues DEF Cycle

LEMMA InitIInv == Init => IInv
<1> SUFFICES ASSUME Init PROVE IInv
  OBVIOUS
<1>1. TypeOK
  BY IdleFields DEF Init, TypeOK, Status
<1>2. Statements
  BY DEF Init, Statements, AtRest
<1>3. Cycles
  BY IdleFields DEF Init, Cycles, Sound
<1> QED
  BY <1>1, <1>2, <1>3 DEF Init, IInv, RowsWithin, Untracked

-----------------------------------------------------------------------------
(* What a step may do to what is known, without harm. *)

(* The counters rise, those of settled polls do not; so do the totals,     *)
(* within what is counted; polls settle.                                   *)
Grows ==
    /\ \A o \in Options : /\ counter[o] <= counter'[o]
                          /\ row[o] <= row'[o] /\ row'[o] <= counter'[o]
                          /\ status[PollOf[o]] = "settled" => counter'[o] = counter[o]
    /\ \A p \in Polls : \/ status'[p] = status[p]
                        \/ status[p] = "live" /\ status'[p] = "settled"

LEMMA SoundKept ==
    ASSUME TypeOK, TypeOK', Grows, NEW c \in Cycle, Sound(c, counter, row, status)
    PROVE  Sound(c, counter', row', status')
<1> USE DEF Cycle
<1>1. c.seen = "settled" => status'[c.poll] = "settled"
  BY DEF Sound, Grows
<1>2. c.pc = "untracking" => c.seen = "settled" /\ Durable(c.poll, counter', row')
  <2> SUFFICES ASSUME c.pc = "untracking", NEW o \in OptionsOf(c.poll)
               PROVE  row'[o] = counter'[o]
    BY DEF Sound, Durable
  <2>1. status[c.poll] = "settled" /\ row[o] = counter[o] /\ o \in Options /\ PollOf[o] = c.poll
    BY DEF Sound, Durable, OptionsOf
  <2>2. row[o] \in Nat /\ counter[o] \in Nat /\ row'[o] \in Nat /\ counter'[o] \in Nat
    BY <2>1 DEF TypeOK
  <2> QED
    BY <2>1, <2>2 DEF Grows
<1>3. ASSUME NEW o \in Options
      PROVE  /\ c.due[o] <= counter'[o]
             /\ status'[PollOf[o]] # "missing" /\ row'[o] < c.due[o] =>
                   PollOf[o] \in c.todo \/ (c.pc = "saving" /\ PollOf[o] = c.poll)
  <2>1. /\ c.due[o] \in Nat /\ PollOf[o] \in Polls
        /\ row[o] \in Nat /\ counter[o] \in Nat /\ row'[o] \in Nat /\ counter'[o] \in Nat
    BY DEF TypeOK
  <2>2. counter[o] <= counter'[o] /\ row[o] <= row'[o]
    BY DEF Grows
  <2>3. status'[PollOf[o]] # "missing" => status[PollOf[o]] # "missing"
    BY <2>1 DEF Grows
  <2> QED
    BY <2>1, <2>2, <2>3 DEF Sound
<1> QED
  BY <1>1, <1>2, <1>3 DEF Sound

LEMMA CarriesKept ==
    ASSUME TypeOK, Grows, NEW c \in Cycle, Sound(c, counter, row, status),
           NEW u, NEW v, u.votes = v.votes, Carries(u, c, counter)
    PROVE  Carries(v, c, counter')
<1>1. c.seen = "settled" => status[c.poll] = "settled"
  BY DEF Sound
<1>2. c.seen = "settled" => \A o \in OptionsOf(c.poll) : v.votes[o] = counter'[o]
  BY <1>1 DEF Carries, Grows, OptionsOf
<1> QED
  BY <1>2 DEF Carries

LEMMA UntrackedKept ==
    ASSUME TypeOK, TypeOK', Grows, Untracked, NEW p \in Polls \ tracked
    PROVE  status'[p] = "missing" \/ (status'[p] = "settled" /\ Durable(p, counter', row'))
<1>1. CASE status[p] = "missing"
  BY <1>1 DEF Grows
<1>2. CASE status[p] = "settled" /\ Durable(p, counter, row)
  <2>1. status'[p] = "settled"
    BY <1>2 DEF Grows
  <2>2. ASSUME NEW o \in OptionsOf(p) PROVE row'[o] = counter'[o]
    <3>1. o \in Options /\ PollOf[o] = p /\ row[o] = counter[o]
      BY <1>2 DEF Durable, OptionsOf
    <3>2. row[o] \in Nat /\ row'[o] \in Nat /\ counter'[o] \in Nat
      BY <3>1 DEF TypeOK
    <3> QED
      BY <1>2, <3>1, <3>2 DEF Grows
  <2> QED
    BY <2>1, <2>2 DEF Durable
<1> QED
  BY <1>1, <1>2 DEF Untracked

(* Statements end, lock rows or lose their client, and a client that waits *)
(* for one is left as it was.                                              *)
LEMMA StatementsKept ==
    ASSUME IInv, TypeOK', Grows,
           \A s \in Sessions :
              \/ statement'[s] = AtRest
              \/ /\ statement'[s].votes = statement[s].votes
                 /\ \/ statement'[s].client = None
                    \/ /\ statement'[s].client = statement[s].client
                       /\ cycle'[statement[s].client] = cycle[statement[s].client]
    PROVE  Statements'
<1> SUFFICES ASSUME NEW s \in Sessions
             PROVE  LET u == statement'[s] IN
                    /\ \A o \in DOMAIN u.votes : u.votes[o] <= counter'[o]
                    /\ u.client # None =>
                          /\ Carries(u, cycle'[u.client], counter')
                          /\ \A t \in Sessions : statement'[t].client = u.client => t = s
  BY DEF Statements
<1>1. CASE statement'[s] = AtRest
  BY <1>1 DEF AtRest
<1> DEFINE Kept == /\ statement'[s].client = statement[s].client
                   /\ cycle'[statement[s].client] = cycle[statement[s].client]
<1>2. ASSUME statement'[s].votes = statement[s].votes
      PROVE  LET u == statement'[s] IN \A o \in DOMAIN u.votes : u.votes[o] <= counter'[o]
  <2> SUFFICES ASSUME NEW o \in DOMAIN statement[s].votes
               PROVE  statement[s].votes[o] <= counter'[o]
    BY <1>2
  <2>1. o \in Options /\ statement[s].votes[o] \in Nat
    BY StatementFields DEF IInv
  <2>2. statement[s].votes[o] <= counter[o] /\ counter[o] <= counter'[o]
    BY <2>1 DEF IInv, Statements, Grows
  <2>3. counter[o] \in Nat /\ counter'[o] \in Nat
    BY <2>1 DEF IInv, TypeOK
  <2> QED
    BY <2>1, <2>2, <2>3
<1>3. ASSUME statement'[s].votes = statement[s].votes, Kept, statement[s].client # None
      PROVE  LET u == statement'[s] IN
             /\ Carries(u, cycle'[u.client], counter')
             /\ \A t \in Sessions : statement'[t].client = u.client => t = s
  <2> DEFINE w == statement[s].client
  <2>1. w \in Workers /\ cycle[w] \in Cycle /\ Sound(cycle[w], counter, row, status)
    BY <1>3, StatementFields DEF IInv, Cycles, TypeOK
  <2>2. Carries(statement[s], cycle[w], counter)
    BY <1>3 DEF IInv, Statements
  <2>3. Carries(statement'[s], cycle[w], counter')
    BY <1>3, <2>1, <2>2, CarriesKept DEF IInv
  <2>4. \A t \in Sessions : statement'[t].client \in {None, statement[t].client}
    BY DEF AtRest
  <2>5. \A t \in Sessions : statement[t].client = w => t = s
    BY <1>3 DEF IInv, Statements
  <2> QED
    BY <1>3, <2>3, <2>4, <2>5
<1> QED
  BY <1>1, <1>2, <1>3

-----------------------------------------------------------------------------
(* The environment: ballots are counted and polls settle. *)
LEMMA EnvironmentStep ==
    ASSUME IInv, TypeOK', Grows, UNCHANGED <<tracked, cycle, statement>>
    PROVE  IInv'
<1>1. RowsWithin'
  BY DEF Grows, RowsWithin
<1>2. Statements'
  <2>1. \A s \in Sessions : statement'[s].votes = statement[s].votes
    OBVIOUS
  <2> QED
    BY <2>1, StatementsKept
<1>3. Cycles'
  <2> SUFFICES ASSUME NEW w \in Workers PROVE Sound(cycle[w], counter', row', status')
    BY DEF Cycles
  <2>1. cycle[w] \in Cycle /\ Sound(cycle[w], counter, row, status)
    BY DEF IInv, TypeOK, Cycles
  <2> QED
    BY <2>1, SoundKept DEF IInv
<1>4. Untracked'
  BY UntrackedKept DEF IInv, Untracked
<1> QED
  BY <1>1, <1>2, <1>3, <1>4 DEF IInv

LEMMA CountIInv == ASSUME IInv, NEW B \in Ballots, Count(B) PROVE IInv'
<1>1. ASSUME NEW o \in Options
      PROVE  /\ counter'[o] \in 0 .. MaxVotes /\ counter[o] <= counter'[o]
             /\ status[PollOf[o]] = "settled" => counter'[o] = counter[o]
  <2>1. counter[o] \in 0 .. MaxVotes /\ (o \in B => counter[o] < MaxVotes)
    BY DEF Count, IInv, TypeOK
  <2>2. o \in B => status[PollOf[o]] = "live"
    BY DEF Count
  <2> QED
    BY <2>1, <2>2 DEF Count
<1>2. counter' \in [Options -> 0 .. MaxVotes]
  BY <1>1 DEF Count
<1>3. TypeOK'
  BY <1>2 DEF Count, IInv, TypeOK
<1>4. Grows
  <2>1. \A o \in Options : row[o] \in Nat /\ counter[o] \in Nat /\ counter'[o] \in Nat
    BY <1>2 DEF IInv, TypeOK
  <2> QED
    BY <1>1, <2>1 DEF Count, IInv, RowsWithin, Grows
<1> QED
  BY <1>3, <1>4, EnvironmentStep DEF Count

LEMMA SettleIInv == ASSUME IInv, NEW p \in Polls, Settle(p) PROVE IInv'
<1>1. TypeOK'
  <2>1. status' \in [Polls -> Status]
    BY DEF Settle, IInv, TypeOK, Status
  <2> QED
    BY <2>1 DEF Settle, IInv, TypeOK
<1>2. Grows
  <2>1. \A o \in Options : row[o] \in Nat /\ counter[o] \in Nat
    BY DEF IInv, TypeOK
  <2>2. \A q \in Polls : status'[q] = status[q] \/ (status[q] = "live" /\ status'[q] = "settled")
    BY DEF Settle, IInv, TypeOK
  <2> QED
    BY <2>1, <2>2 DEF Settle, IInv, RowsWithin, Grows
<1> QED
  BY <1>1, <1>2, EnvironmentStep DEF Settle

-----------------------------------------------------------------------------
(* A worker goes on: it waits for no statement any more, or never did, and *)
(* the polls it takes off the list may be taken off.                       *)
LEMMA WorkerStep ==
    ASSUME IInv, NEW w \in Workers,
           UNCHANGED <<counter, status, row>>, faults' \in 0 .. MaxFaults,
           cycle' \in [Workers -> Cycle],
           \A v \in Workers \ {w} : cycle'[v] = cycle[v],
           Sound(cycle'[w], counter, row, status),
           statement' = [s \in Sessions |-> statement'[s]],
           \A s \in Sessions :
              \/ statement'[s] = statement[s] /\ statement[s].client # w
              \/ statement'[s] = [statement[s] EXCEPT !.client = None],
           tracked' \subseteq tracked,
           \A p \in tracked \ tracked' :
              status[p] = "missing" \/ (status[p] = "settled" /\ Durable(p, counter, row))
    PROVE  IInv'
<1>1. TypeOK'
  <2>1. ASSUME NEW s \in Sessions
        PROVE  statement'[s] = AtRest \/ \E p \in Polls : statement'[s] \in Upsert(p)
    <3>1. CASE statement[s] = AtRest
      BY <3>1 DEF AtRest
    <3>2. ASSUME NEW p \in Polls, statement[s] \in Upsert(p)
          PROVE  statement'[s] \in Upsert(p)
      BY <3>2 DEF Upsert
    <3> QED
      BY <3>1, <3>2 DEF IInv, TypeOK
  <2> QED
    BY <2>1 DEF IInv, TypeOK
<1>2. Grows
  BY DEF Grows, IInv, TypeOK, RowsWithin
<1>3. Statements'
  <2>1. ASSUME NEW s \in Sessions
        PROVE  \/ statement'[s] = AtRest
               \/ /\ statement'[s].votes = statement[s].votes
                  /\ \/ statement'[s].client = None
                     \/ /\ statement'[s].client = statement[s].client
                        /\ cycle'[statement[s].client] = cycle[statement[s].client]
    <3>1. CASE statement[s] = AtRest
      BY <3>1 DEF AtRest
    <3>2. CASE statement[s] # AtRest /\ statement'[s] = statement[s] /\ statement[s].client # w
      <4>1. statement[s].client \in Workers \cup {None}
        BY StatementFields DEF IInv
      <4> QED
        BY <3>2, <4>1
    <3>3. ASSUME NEW p \in Polls, statement[s] \in Upsert(p),
                 statement'[s] = [statement[s] EXCEPT !.client = None]
          PROVE  statement'[s].votes = statement[s].votes /\ statement'[s].client = None
      BY <3>3 DEF Upsert
    <3> QED
      BY <3>1, <3>2, <3>3 DEF IInv, TypeOK
  <2> QED
    BY <1>1, <1>2, <2>1, StatementsKept
<1>4. Cycles'
  BY DEF IInv, Cycles
<1>5. Untracked'
  BY DEF IInv, Untracked, TypeOK
<1>6. RowsWithin'
  BY DEF IInv, RowsWithin
<1> QED
  BY <1>1, <1>3, <1>4, <1>5, <1>6 DEF IInv

(* What w sent before is its statement in `saving' only. *)
LEMMA NoStatement ==
    ASSUME IInv, NEW w \in Workers, cycle[w].pc # "saving", NEW s \in Sessions
    PROVE  statement[s].client # w
  BY DEF IInv, Statements, Carries

LEMMA AbandonedFields ==
    ASSUME NEW w \in Workers, statement' = Abandoned(w)
    PROVE  /\ statement' = [s \in Sessions |-> statement'[s]]
           /\ \A s \in Sessions :
                 \/ statement'[s] = statement[s] /\ statement[s].client # w
                 \/ statement'[s] = [statement[s] EXCEPT !.client = None]
  BY DEF Abandoned

LEMMA SoundIdle == ASSUME TypeOK PROVE Sound(Idle, counter, row, status)
  BY IdleFields DEF Sound, TypeOK

(* A cycle is done with polls that are missing or have what it owes them. *)
LEMMA SoundDone ==
    ASSUME NEW c \in Cycle, NEW P, NEW k, NEW r, NEW st, Sound(c, k, r, st),
           \A o \in Options :
              PollOf[o] \in P \/ (c.pc = "saving" /\ PollOf[o] = c.poll) =>
                 st[PollOf[o]] = "missing" \/ ~(r[o] < c.due[o])
    PROVE  Sound(Done(c, P), k, r, st)
  BY DoneFields DEF Sound

(* It owes nothing to those it counts as failed. *)
LEMMA SoundFailed ==
    ASSUME TypeOK, NEW c \in Cycle, NEW P, Sound(c, counter, row, status),
           c.pc = "saving" => c.poll \in P
    PROVE  Sound(Failed(c, P), counter, row, status)
<1> DEFINE d == Failed(c, P)
<1>1. d \in Cycle /\ d.pc = "next" /\ d.todo = c.todo \ P /\ d.seen = "live"
  BY FailedFields
<1>2. ASSUME NEW o \in Options
      PROVE  /\ d.due[o] <= counter[o]
             /\ status[PollOf[o]] # "missing" /\ row[o] < d.due[o] => PollOf[o] \in d.todo
  <2>1. counter[o] \in Nat /\ row[o] \in Nat /\ c.due[o] \in Nat /\ d.due[o] \in Nat
    BY <1>1 DEF TypeOK, Cycle
  <2>2. /\ d.due[o] <= c.due[o]
        /\ PollOf[o] \in P => d.due[o] = 0
    BY FailedFields
  <2>3. c.due[o] <= counter[o]
    BY DEF Sound
  <2>4. CASE PollOf[o] \in P
    BY <2>1, <2>2, <2>3, <2>4
  <2>5. CASE PollOf[o] \notin P
    <3>1. d.due[o] = c.due[o]
      BY <2>5, FailedFields
    <3> QED
      BY <1>1, <2>1, <2>5, <3>1 DEF Sound
  <2> QED
    BY <2>4, <2>5
<1> QED
  BY <1>1, <1>2 DEF Sound

LEMMA BeginIInv == ASSUME IInv, NEW w \in Workers, Begin(w) PROVE IInv'
<1> DEFINE c == cycle[w]
           d == [c EXCEPT !.pc = "next", !.todo = tracked, !.due = Only(counter, tracked)]
<1>1. c \in Cycle /\ c.pc = "idle" /\ tracked \subseteq Polls /\ counter \in [Options -> Nat]
  BY DEF Begin, IInv, TypeOK
<1>2. Only(counter, tracked) \in [Options -> Nat]
  BY <1>1, OnlyValues
<1>3. /\ d \in Cycle /\ d.pc = "next" /\ d.todo = tracked /\ d.due = Only(counter, tracked)
      /\ d.seen = c.seen /\ d.poll = c.poll
  BY <1>1, <1>2 DEF Cycle
<1>4. cycle' = [cycle EXCEPT ![w] = d]
  BY DEF Begin
<1>5. /\ cycle' \in [Workers -> Cycle] /\ cycle'[w] = d
      /\ \A v \in Workers \ {w} : cycle'[v] = cycle[v]
  BY <1>3, <1>4 DEF IInv, TypeOK
<1>6. Sound(d, counter, row, status)
  <2>1. ASSUME NEW o \in Options
        PROVE  /\ d.due[o] <= counter[o]
               /\ row[o] < d.due[o] => PollOf[o] \in d.todo
    <3>1. counter[o] \in Nat /\ row[o] \in Nat
      BY DEF IInv, TypeOK
    <3> QED
      BY <1>1, <1>3, <3>1, OnlyValues
  <2>2. Sound(c, counter, row, status)
    BY DEF IInv, Cycles
  <2> HIDE DEF c, d
  <2> QED
    BY <1>3, <2>1, <2>2 DEF Sound
<1>7. /\ statement' = [s \in Sessions |-> statement'[s]]
      /\ \A s \in Sessions : statement'[s] = statement[s] /\ statement[s].client # w
  BY <1>1, NoStatement DEF Begin, IInv, TypeOK
<1> QED
  BY <1>5, <1>6, <1>7, WorkerStep DEF Begin, IInv, TypeOK

LEMMA ForgetIInv ==
    ASSUME IInv, NEW w \in Workers, NEW p \in Polls, Forget(w, p) PROVE IInv'
<1> DEFINE d == Done(cycle[w], {p})
<1>1. cycle[w] \in Cycle /\ cycle[w].pc = "next" /\ Sound(cycle[w], counter, row, status)
  BY DEF Forget, IInv, TypeOK, Cycles
<1>2. d \in Cycle
  BY <1>1, DoneFields
<1>3. Sound(d, counter, row, status)
  BY <1>1, SoundDone DEF Forget
<1>4. /\ cycle' \in [Workers -> Cycle] /\ cycle'[w] = d
      /\ \A v \in Workers \ {w} : cycle'[v] = cycle[v]
  BY <1>2 DEF Forget, IInv, TypeOK
<1>5. /\ statement' = [s \in Sessions |-> statement'[s]]
      /\ \A s \in Sessions : statement'[s] = statement[s] /\ statement[s].client # w
  BY <1>1, NoStatement DEF Forget, IInv, TypeOK
<1> QED
  BY <1>3, <1>4, <1>5, WorkerStep DEF Forget, IInv, TypeOK

LEMMA ReadFailsIInv ==
    ASSUME IInv, NEW w \in Workers, NEW p \in Polls, ReadFails(w, p) PROVE IInv'
<1> DEFINE d == Failed(cycle[w], {p})
<1>1. cycle[w] \in Cycle /\ cycle[w].pc = "next" /\ Sound(cycle[w], counter, row, status)
  BY DEF ReadFails, IInv, TypeOK, Cycles
<1>2. d \in Cycle
  BY <1>1, FailedFields
<1>3. Sound(d, counter, row, status)
  BY <1>1, SoundFailed DEF IInv
<1>4. /\ cycle' \in [Workers -> Cycle] /\ cycle'[w] = d
      /\ \A v \in Workers \ {w} : cycle'[v] = cycle[v]
  BY <1>2 DEF ReadFails, IInv, TypeOK
<1>5. /\ statement' = [s \in Sessions |-> statement'[s]]
      /\ \A s \in Sessions : statement'[s] = statement[s] /\ statement[s].client # w
  BY <1>1, NoStatement DEF ReadFails, IInv, TypeOK
<1>6. faults' \in 0 .. MaxFaults
  BY DEF ReadFails, Fault, IInv, TypeOK
<1> QED
  BY <1>3, <1>4, <1>5, <1>6, WorkerStep DEF ReadFails, IInv, TypeOK

LEMMA UntrackIInv == ASSUME IInv, NEW w \in Workers, Untrack(w) PROVE IInv'
<1> DEFINE d == Done(cycle[w], {})
<1>1. cycle[w] \in Cycle /\ cycle[w].pc = "untracking" /\ Sound(cycle[w], counter, row, status)
  BY DEF Untrack, IInv, TypeOK, Cycles
<1>2. d \in Cycle
  BY <1>1, DoneFields
<1>3. Sound(d, counter, row, status)
  BY <1>1, SoundDone
<1>4. /\ cycle' \in [Workers -> Cycle] /\ cycle'[w] = d
      /\ \A v \in Workers \ {w} : cycle'[v] = cycle[v]
  BY <1>2 DEF Untrack, IInv, TypeOK
<1>5. /\ statement' = [s \in Sessions |-> statement'[s]]
      /\ \A s \in Sessions : statement'[s] = statement[s] /\ statement[s].client # w
  BY <1>1, NoStatement DEF Untrack, IInv, TypeOK
<1>6. \A p \in tracked \ tracked' : status[p] = "settled" /\ Durable(p, counter, row)
  BY <1>1 DEF Untrack, Sound
<1> QED
  BY <1>3, <1>4, <1>5, <1>6, WorkerStep DEF Untrack, IInv, TypeOK

LEMMA WriteFailsIInv == ASSUME IInv, NEW w \in Workers, WriteFails(w) PROVE IInv'
<1> DEFINE d == Failed(cycle[w], {cycle[w].poll})
<1>1. cycle[w] \in Cycle /\ Sound(cycle[w], counter, row, status)
  BY DEF IInv, TypeOK, Cycles
<1>2. d \in Cycle
  BY <1>1, FailedFields
<1>3. Sound(d, counter, row, status)
  BY <1>1, SoundFailed DEF IInv
<1>4. /\ cycle' \in [Workers -> Cycle] /\ cycle'[w] = d
      /\ \A v \in Workers \ {w} : cycle'[v] = cycle[v]
  BY <1>2 DEF WriteFails, IInv, TypeOK
<1>5. \A p \in tracked \ tracked' : status[p] = "settled" /\ Durable(p, counter, row)
  BY <1>1 DEF WriteFails, Sound
<1>6. faults' \in 0 .. MaxFaults /\ tracked' \subseteq tracked
  BY DEF WriteFails, Fault, IInv, TypeOK
<1>7. statement' = Abandoned(w) /\ UNCHANGED <<counter, status, row>>
  BY DEF WriteFails
<1> QED
  BY <1>3, <1>4, <1>5, <1>6, <1>7, AbandonedFields, WorkerStep

LEMMA TimeOutIInv == ASSUME IInv, NEW w \in Workers, TimeOut(w) PROVE IInv'
<1> DEFINE c == cycle[w]
           P == c.todo \cup (IF c.pc = "next" THEN {} ELSE {c.poll})
           d == Failed(c, P)
<1>1. cycle[w] \in Cycle /\ Sound(cycle[w], counter, row, status)
  BY DEF IInv, TypeOK, Cycles
<1>2. d \in Cycle
  BY <1>1, FailedFields
<1>3. Sound(d, counter, row, status)
  BY <1>1, SoundFailed DEF IInv
<1>4. /\ cycle' \in [Workers -> Cycle] /\ cycle'[w] = d
      /\ \A v \in Workers \ {w} : cycle'[v] = cycle[v]
  BY <1>2 DEF TimeOut, IInv, TypeOK
<1>5. faults' \in 0 .. MaxFaults
  BY DEF TimeOut, Fault, IInv, TypeOK
<1>6. statement' = Abandoned(w) /\ UNCHANGED <<counter, status, row, tracked>>
  BY DEF TimeOut
<1> QED
  BY <1>3, <1>4, <1>5, <1>6, AbandonedFields, WorkerStep

LEMMA EndIInv == ASSUME IInv, NEW w \in Workers, End(w) PROVE IInv'
<1>1. /\ cycle' \in [Workers -> Cycle] /\ cycle'[w] = Idle
      /\ \A v \in Workers \ {w} : cycle'[v] = cycle[v]
  BY IdleFields DEF End, IInv, TypeOK
<1>2. /\ statement' = [s \in Sessions |-> statement'[s]]
      /\ \A s \in Sessions : statement'[s] = statement[s] /\ statement[s].client # w
  BY NoStatement DEF End, IInv, TypeOK
<1> QED
  BY <1>1, <1>2, SoundIdle, WorkerStep DEF End, IInv, TypeOK

LEMMA CrashIInv == ASSUME IInv, NEW w \in Workers, Crash(w) PROVE IInv'
<1>1. /\ cycle' \in [Workers -> Cycle] /\ cycle'[w] = Idle
      /\ \A v \in Workers \ {w} : cycle'[v] = cycle[v]
  BY IdleFields DEF Crash, IInv, TypeOK
<1>2. faults' \in 0 .. MaxFaults
  BY DEF Crash, Fault, IInv, TypeOK
<1>3. statement' = Abandoned(w) /\ UNCHANGED <<counter, status, row, tracked>>
  BY DEF Crash
<1> QED
  BY <1>1, <1>2, <1>3, SoundIdle, AbandonedFields, WorkerStep DEF IInv

-----------------------------------------------------------------------------
LEMMA SaveIInv ==
    ASSUME IInv, NEW w \in Workers, NEW p \in Polls, NEW s \in Sessions, Save(w, p, s)
    PROVE  IInv'
<1> DEFINE c == cycle[w]
           d == [c EXCEPT !.pc = "saving", !.todo = c.todo \ {p}, !.poll = p, !.seen = status[p]]
<1>1. /\ c \in Cycle /\ c.pc = "next" /\ p \in c.todo
      /\ status[p] \in Status /\ Sound(c, counter, row, status)
  BY DEF Save, IInv, TypeOK, Cycles
<1>2. /\ d \in Cycle /\ d.pc = "saving" /\ d.todo = c.todo \ {p} /\ d.poll = p
      /\ d.seen = status[p] /\ d.due = c.due
  BY <1>1 DEF Cycle
<1>3. cycle' = [cycle EXCEPT ![w] = d]
  BY DEF Save
<1> HIDE DEF d
<1>4. /\ cycle' \in [Workers -> Cycle] /\ cycle'[w] = d
      /\ \A v \in Workers \ {w} : cycle'[v] = cycle[v]
  BY <1>2, <1>3 DEF IInv, TypeOK
<1>5. PICK order \in SetToSeqs(OptionsOf(p)) :
          statement' = [statement EXCEPT ![s] =
              [client |-> w, votes |-> [o \in OptionsOf(p) |-> counter[o]], rows |-> order]]
  BY DEF Save
<1> DEFINE u == [client |-> w, votes |-> [o \in OptionsOf(p) |-> counter[o]], rows |-> order]
<1>6. u \in Upsert(p)
  <2>1. OptionsOf(p) \subseteq Options
    BY DEF OptionsOf
  <2>2. Cardinality(OptionsOf(p)) \in Nat
    BY <2>1, FS_Subset, FS_CardinalityType
  <2>3. order \in Seq(OptionsOf(p))
    <3>1. order \in [1 .. Cardinality(OptionsOf(p)) -> OptionsOf(p)]
      BY DEF SetToSeqs
    <3> QED
      BY <2>2, <3>1, SeqDef
  <2>4. u.votes \in [OptionsOf(p) -> Nat]
    BY <2>1 DEF IInv, TypeOK
  <2> QED
    BY <2>3, <2>4 DEF Upsert
<1>7. /\ statement' = [t \in Sessions |-> statement'[t]]
      /\ \A t \in Sessions : statement'[t] = IF t = s THEN u ELSE statement[t]
  BY <1>5 DEF IInv, TypeOK
<1> HIDE DEF u
<1>8. TypeOK'
  <2>1. \A t \in Sessions : statement'[t] = AtRest \/ \E q \in Polls : statement'[t] \in Upsert(q)
    BY <1>6, <1>7 DEF IInv, TypeOK
  <2>2. UNCHANGED <<counter, status, tracked, row, faults>>
    BY DEF Save
  <2> QED
    BY <1>4, <1>7, <2>1, <2>2 DEF IInv, TypeOK
<1>9. /\ u.client = w /\ DOMAIN u.votes = OptionsOf(p)
      /\ \A o \in OptionsOf(p) : u.votes[o] = counter[o]
  BY DEF u
<1>10. Statements'
  <2>1. \A t \in Sessions : statement[t].client # w
    BY <1>1, NoStatement
  <2>2. ASSUME NEW t \in Sessions, t # s
        PROVE  LET v == statement'[t] IN
               /\ \A o \in DOMAIN v.votes : v.votes[o] <= counter[o]
               /\ v.client # None =>
                     /\ Carries(v, cycle'[v.client], counter)
                     /\ \A x \in Sessions : statement'[x].client = v.client => x = t
    <3>1. statement'[t] = statement[t] /\ statement[t].client # w
      BY <1>7, <2>1, <2>2
    <3>2. statement[t].client # None => cycle'[statement[t].client] = cycle[statement[t].client]
      BY <1>4, <3>1, StatementFields DEF IInv
    <3> QED
      BY <1>7, <1>9, <3>1, <3>2 DEF IInv, Statements
  <2>3. /\ \A o \in DOMAIN u.votes : u.votes[o] <= counter[o]
        /\ Carries(u, d, counter)
    <3>1. \A o \in OptionsOf(p) : o \in Options /\ counter[o] \in Nat
      BY DEF OptionsOf, IInv, TypeOK
    <3> QED
      BY <1>1, <1>2, <1>9, <3>1 DEF Carries, Sound
  <2>4. \A x \in Sessions : statement'[x].client = w => x = s
    BY <1>7, <2>1
  <2>5. counter' = counter
    BY DEF Save
  <2> QED
    BY <1>4, <1>7, <1>9, <2>2, <2>3, <2>4, <2>5 DEF Statements
<1>11. Cycles'
  <2>1. Sound(d, counter, row, status)
    BY <1>1, <1>2 DEF Sound
  <2> QED
    BY <1>4, <2>1 DEF IInv, Cycles, Save
<1> QED
  BY <1>8, <1>10, <1>11 DEF Save, IInv, RowsWithin, Untracked

-----------------------------------------------------------------------------
(* An upsert locks one row more, itself or as the heir of one that ends. *)
LEMMA RowsLocked ==
    ASSUME TypeOK, NEW s \in Sessions, statement[s].rows # <<>>
    PROVE  LET v == [statement[s] EXCEPT !.rows = Tail(@)] IN
           /\ \E p \in Polls : v \in Upsert(p)
           /\ v.votes = statement[s].votes /\ v.client = statement[s].client
<1>1. PICK p \in Polls : statement[s] \in Upsert(p)
  BY DEF TypeOK, AtRest
<1>2. Tail(statement[s].rows) \in Seq(OptionsOf(p))
  BY <1>1 DEF Upsert
<1> QED
  BY <1>1, <1>2 DEF Upsert

LEMMA ReleasedFields ==
    ASSUME TypeOK, NEW s \in Sessions, NEW heirs \in Heirs(s), statement' = Released(s, heirs)
    PROVE  /\ statement' = [t \in Sessions |-> statement'[t]]
           /\ statement'[s] = AtRest
           /\ \A t \in Sessions :
                 /\ statement'[t] = AtRest \/ \E p \in Polls : statement'[t] \in Upsert(p)
                 /\ t # s => /\ statement'[t].votes = statement[t].votes
                             /\ statement'[t].client = statement[t].client
<1>1. \A t \in heirs : t \in Sessions /\ statement[t].rows # <<>>
  BY DEF Heirs, WaitsFor
<1>2. ASSUME NEW t \in Sessions
      PROVE  /\ statement'[t] = AtRest \/ \E p \in Polls : statement'[t] \in Upsert(p)
             /\ t # s => /\ statement'[t].votes = statement[t].votes
                         /\ statement'[t].client = statement[t].client
  <2>1. CASE t = s
    BY <2>1 DEF Released
  <2>2. CASE t # s /\ t \in heirs
    <3>1. statement'[t] = [statement[t] EXCEPT !.rows = Tail(@)]
      BY <2>2 DEF Released
    <3> QED
      BY <1>1, <2>2, <3>1, RowsLocked
  <2>3. CASE t # s /\ t \notin heirs
    BY <2>3 DEF Released, TypeOK
  <2> QED
    BY <2>1, <2>2, <2>3
<1> QED
  BY <1>2 DEF Released

LEMMA LockRowIInv == ASSUME IInv, NEW s \in Sessions, LockRow(s) PROVE IInv'
<1> DEFINE v == [statement[s] EXCEPT !.rows = Tail(@)]
<1>1. statement[s].rows # <<>>
  BY DEF LockRow
<1>2. /\ \E p \in Polls : v \in Upsert(p)
      /\ v.votes = statement[s].votes /\ v.client = statement[s].client
  BY <1>1, RowsLocked DEF IInv
<1>3. /\ statement' = [t \in Sessions |-> statement'[t]]
      /\ \A t \in Sessions : statement'[t] = IF t = s THEN v ELSE statement[t]
  BY DEF LockRow, IInv, TypeOK
<1> HIDE DEF v
<1>4. TypeOK'
  <2>1. \A t \in Sessions : statement'[t] = AtRest \/ \E q \in Polls : statement'[t] \in Upsert(q)
    BY <1>2, <1>3 DEF IInv, TypeOK
  <2> QED
    BY <1>3, <2>1 DEF LockRow, IInv, TypeOK
<1>5. Grows
  BY DEF LockRow, Grows, IInv, TypeOK, RowsWithin
<1>6. Statements'
  <2>1. \A t \in Sessions : /\ statement'[t].votes = statement[t].votes
                            /\ statement'[t].client = statement[t].client
    BY <1>2, <1>3
  <2>2. cycle' = cycle
    BY DEF LockRow
  <2> QED
    BY <1>4, <1>5, <2>1, <2>2, StatementsKept
<1> QED
  BY <1>4, <1>6 DEF LockRow, IInv, RowsWithin, Cycles, Untracked

(* A statement ends; its client, if it still has one, goes on soundly. *)
LEMMA StatementEnds ==
    ASSUME IInv, NEW s \in Sessions, NEW heirs \in Heirs(s), statement' = Released(s, heirs),
           UNCHANGED <<counter, status, tracked>>, faults' \in 0 .. MaxFaults,
           row' \in [Options -> 0 .. MaxVotes], Grows,
           cycle' \in [Workers -> Cycle],
           \A w \in Workers :
              IF w # statement[s].client THEN cycle'[w] = cycle[w]
              ELSE Sound(cycle'[w], counter, row', status)
    PROVE  IInv'
<1>1. TypeOK'
  BY ReleasedFields DEF IInv, TypeOK
<1>2. Statements'
  <2>1. ASSUME NEW t \in Sessions
        PROVE  \/ statement'[t] = AtRest
               \/ /\ statement'[t].votes = statement[t].votes
                  /\ \/ statement'[t].client = None
                     \/ /\ statement'[t].client = statement[t].client
                        /\ cycle'[statement[t].client] = cycle[statement[t].client]
    <3>1. CASE t = s
      BY <3>1, ReleasedFields DEF IInv
    <3>2. CASE t # s
      <4>1. /\ statement'[t].votes = statement[t].votes
            /\ statement'[t].client = statement[t].client
        BY <3>2, ReleasedFields DEF IInv
      <4>2. CASE statement[t].client # None
        <5>1. statement[t].client \in Workers
          BY <4>2, StatementFields DEF IInv
        <5>2. statement[t].client # statement[s].client
          BY <3>2, <4>2 DEF IInv, Statements
        <5> QED
          BY <4>1, <5>1, <5>2
      <4> QED
        BY <4>1, <4>2
    <3> QED
      BY <3>1, <3>2
  <2> QED
    BY <1>1, <2>1, StatementsKept
<1>3. Cycles'
  <2>1. ASSUME NEW w \in Workers, w # statement[s].client
        PROVE  Sound(cycle'[w], counter', row', status')
    <3>1. cycle'[w] = cycle[w] /\ cycle[w] \in Cycle /\ Sound(cycle[w], counter, row, status)
      BY <2>1 DEF IInv, TypeOK, Cycles
    <3> QED
      BY <1>1, <3>1, SoundKept DEF IInv
  <2> QED
    BY <2>1 DEF Cycles
<1>4. Untracked'
  BY <1>1, UntrackedKept DEF IInv, Untracked
<1>5. RowsWithin'
  BY DEF Grows, RowsWithin
<1> QED
  BY <1>1, <1>2, <1>3, <1>4, <1>5 DEF IInv

LEMMA CommitIInv == ASSUME IInv, NEW s \in Sessions, Commit(s) PROVE IInv'
<1> DEFINE u == statement[s]
<1>1. ASSUME NEW o \in Options
      PROVE  /\ row'[o] \in 0 .. MaxVotes
             /\ row[o] <= row'[o] /\ row'[o] <= counter[o]
             /\ o \in DOMAIN u.votes => u.votes[o] <= row'[o]
  <2>1. row'[o] = IF o \in DOMAIN u.votes /\ row[o] < u.votes[o] THEN u.votes[o] ELSE row[o]
    BY DEF Commit
  <2>2. /\ row[o] \in 0 .. MaxVotes /\ counter[o] \in 0 .. MaxVotes /\ row[o] <= counter[o]
        /\ o \in DOMAIN u.votes => u.votes[o] \in Nat /\ u.votes[o] <= counter[o]
    BY StatementFields DEF IInv, TypeOK, RowsWithin, Statements
  <2> QED
    BY <2>1, <2>2
<1>2. row' \in [Options -> 0 .. MaxVotes]
  BY <1>1 DEF Commit
<1>3. UNCHANGED <<counter, status, tracked, faults>>
  BY DEF Commit
<1>4. Grows
  <2>1. \A o \in Options : counter[o] \in Nat
    BY DEF IInv, TypeOK
  <2> QED
    BY <1>1, <1>3, <2>1 DEF Grows
<1>5. PICK heirs \in Heirs(s) : statement' = Released(s, heirs)
  BY DEF Commit
<1>6. ASSUME NEW w \in Workers
      PROVE  /\ cycle'[w] \in Cycle
             /\ IF w # u.client THEN cycle'[w] = cycle[w]
                ELSE Sound(cycle'[w], counter, row', status)
  <2> DEFINE c == cycle[w]
  <2>1. c \in Cycle /\ Sound(c, counter, row, status)
    BY DEF IInv, TypeOK, Cycles
  <2>2. CASE w # u.client
    BY <2>1, <2>2 DEF Commit, Committed
  <2>3. CASE w = u.client
    <3>1. w # None
      OBVIOUS
    <3>2. Carries(u, c, counter)
      BY <2>3, <3>1 DEF IInv, Statements
    <3>3. Sound(c, counter, row', status)
      <4>1. ASSUME NEW o \in Options
            PROVE  /\ c.due[o] <= counter[o]
                   /\ status[PollOf[o]] # "missing" /\ row'[o] < c.due[o] =>
                         PollOf[o] \in c.todo \/ (c.pc = "saving" /\ PollOf[o] = c.poll)
        <5>1. row[o] <= row'[o] /\ row[o] \in Nat /\ row'[o] \in Nat /\ c.due[o] \in Nat
          BY <1>1, <2>1 DEF IInv, TypeOK, Cycle
        <5> QED
          BY <2>1, <5>1 DEF Sound
      <4> QED
        BY <2>1, <3>2, <4>1 DEF Sound, Carries
    <3>4. \A o \in OptionsOf(c.poll) : ~(row'[o] < c.due[o])
      <4> SUFFICES ASSUME NEW o \in OptionsOf(c.poll) PROVE ~(row'[o] < c.due[o])
        OBVIOUS
      <4>1. o \in Options /\ o \in DOMAIN u.votes /\ c.due[o] <= u.votes[o]
        BY <3>2 DEF Carries, OptionsOf
      <4>2. c.due[o] \in Nat /\ u.votes[o] \in Nat /\ row'[o] \in Nat
        BY <1>1, <2>1, <4>1, StatementFields DEF IInv, Cycle
      <4> QED
        BY <1>1, <4>1, <4>2
    <3>5. CASE c.seen = "settled"
      <4> DEFINE d == [c EXCEPT !.pc = "untracking"]
      <4>1. cycle'[w] = d
        BY <2>3, <3>5 DEF Commit, Committed
      <4>2. /\ d \in Cycle /\ d.pc = "untracking" /\ d.todo = c.todo /\ d.poll = c.poll
            /\ d.seen = "settled" /\ d.due = c.due
        BY <2>1, <3>5 DEF Cycle
      <4>3. Durable(c.poll, counter, row')
        <5> SUFFICES ASSUME NEW o \in OptionsOf(c.poll) PROVE row'[o] = counter[o]
          BY DEF Durable
        <5>1. o \in Options /\ o \in DOMAIN u.votes /\ u.votes[o] = counter[o]
          BY <3>2, <3>5 DEF Carries, OptionsOf
        <5>2. row'[o] \in Nat /\ counter[o] \in Nat
          BY <1>1, <5>1 DEF IInv, TypeOK
        <5> QED
          BY <1>1, <5>1, <5>2
      <4> HIDE DEF d
      <4>4. Sound(d, counter, row', status)
        BY <3>3, <3>4, <3>5, <4>2, <4>3 DEF Sound, OptionsOf
      <4> QED
        BY <2>3, <4>1, <4>2, <4>4
    <3>6. CASE c.seen # "settled"
      <4>1. cycle'[w] = Done(c, {})
        BY <2>3, <3>6 DEF Commit, Committed
      <4>2. \A o \in Options : PollOf[o] = c.poll => ~(row'[o] < c.due[o])
        BY <3>4 DEF OptionsOf
      <4>3. Sound(Done(c, {}), counter, row', status)
        BY <2>1, <3>3, <4>2, SoundDone
      <4> QED
        BY <2>1, <2>3, <4>1, <4>3, DoneFields
    <3> QED
      BY <3>5, <3>6
  <2> QED
    BY <2>2, <2>3
<1>7. cycle' \in [Workers -> Cycle]
  BY <1>6 DEF Commit, Committed
<1>8. faults' \in 0 .. MaxFaults
  BY <1>3 DEF IInv, TypeOK
<1> QED
  BY <1>2, <1>3, <1>4, <1>5, <1>6, <1>7, <1>8, StatementEnds

LEMMA RollBackIInv ==
    ASSUME IInv, NEW s \in Sessions, RollBack(s), faults' \in 0 .. MaxFaults
    PROVE  IInv'
<1>1. UNCHANGED <<counter, status, tracked, row>>
  BY DEF RollBack
<1>2. row' \in [Options -> 0 .. MaxVotes] /\ Grows
  BY <1>1 DEF Grows, IInv, TypeOK, RowsWithin
<1>3. PICK heirs \in Heirs(s) : statement' = Released(s, heirs)
  BY DEF RollBack
<1>4. ASSUME NEW w \in Workers
      PROVE  /\ cycle'[w] \in Cycle
             /\ IF w # statement[s].client THEN cycle'[w] = cycle[w]
                ELSE Sound(cycle'[w], counter, row', status)
  <2>1. cycle[w] \in Cycle /\ Sound(cycle[w], counter, row, status)
    BY DEF IInv, TypeOK, Cycles
  <2>2. CASE w # statement[s].client
    BY <2>1, <2>2 DEF RollBack
  <2>3. CASE w = statement[s].client
    <3>1. cycle'[w] = Failed(cycle[w], {cycle[w].poll})
      BY <2>3 DEF RollBack
    <3>2. Sound(Failed(cycle[w], {cycle[w].poll}), counter, row, status)
      BY <2>1, SoundFailed DEF IInv
    <3> QED
      BY <1>1, <2>1, <2>3, <3>1, <3>2, FailedFields
  <2> QED
    BY <2>2, <2>3
<1>5. cycle' \in [Workers -> Cycle]
  BY <1>4 DEF RollBack
<1> QED
  BY <1>1, <1>2, <1>3, <1>4, <1>5, StatementEnds

LEMMA StepIInv == IInv /\ [Next]_vars => IInv'
<1> SUFFICES ASSUME IInv, [Next]_vars PROVE IInv'
  OBVIOUS
<1>1. CASE UNCHANGED vars
  BY <1>1 DEF vars, IInv, TypeOK, RowsWithin, Statements, Cycles, Untracked
<1>2. ASSUME NEW B \in Ballots, Count(B) PROVE IInv'
  BY <1>2, CountIInv
<1>3. ASSUME NEW p \in Polls, Settle(p) PROVE IInv'
  BY <1>3, SettleIInv
<1>4. ASSUME NEW w \in Workers,
             Begin(w) \/ Untrack(w) \/ WriteFails(w) \/ TimeOut(w) \/ End(w) \/ Crash(w)
      PROVE  IInv'
  BY <1>4, BeginIInv, UntrackIInv, WriteFailsIInv, TimeOutIInv, EndIInv, CrashIInv
<1>5. ASSUME NEW w \in Workers, NEW p \in Polls,
             Forget(w, p) \/ ReadFails(w, p) \/ \E s \in Sessions : Save(w, p, s)
      PROVE  IInv'
  BY <1>5, ForgetIInv, ReadFailsIInv, SaveIInv
<1>6. ASSUME NEW s \in Sessions, LockRow(s) \/ Commit(s) PROVE IInv'
  BY <1>6, LockRowIInv, CommitIInv
<1>7. ASSUME NEW s \in Sessions, StatementFails(s) \/ BreakDeadlock(s) PROVE IInv'
  <2>1. RollBack(s)
    BY <1>7 DEF StatementFails, BreakDeadlock
  <2>2. faults' \in 0 .. MaxFaults
    BY <1>7 DEF StatementFails, BreakDeadlock, Fault, IInv, TypeOK
  <2> QED
    BY <2>1, <2>2, RollBackIInv
<1> QED
  BY <1>1, <1>2, <1>3, <1>4, <1>5, <1>6, <1>7 DEF Next

-----------------------------------------------------------------------------
(* What every cycle and every upsert at work knows stays true, whatever    *)
(* the other workers, their deaths and their late statements do (Sync,     *)
(* syncPoll, SaveResults).                                                 *)
THEOREM Invariance == Spec => []IInv
  BY InitIInv, StepIInv, PTL DEF Spec

(* The counters, totals, cycles and upserts stay within their types. *)
THEOREM TypeCorrect == Spec => []TypeOK
<1>1. IInv => TypeOK
  BY DEF IInv
<1> QED
  BY <1>1, Invariance, PTL

(* A poll that was taken off the list has all its ballots in PostgreSQL    *)
(* (syncPoll, settled, UntrackPoll).                                       *)
THEOREM OffTheListIsSaved == Spec => []UntrackedIsDurable
<1>1. IInv => UntrackedIsDurable
  BY DEF IInv, Untracked, UntrackedIsDurable, Durable, OptionsOf
<1> QED
  BY <1>1, Invariance, PTL

(* A cycle that ends with nothing counted as failed has left no ballot of  *)
(* before its beginning behind (Sync, RunOnce).                            *)
THEOREM HonestReport == Spec => ReportIsHonest
<1> DEFINE Honest == \A w \in Workers, o \in Options :
                        End(w) /\ status[PollOf[o]] # "missing" => cycle[w].due[o] <= row[o]
<1>1. IInv => Honest
  <2> SUFFICES ASSUME IInv, NEW w \in Workers, NEW o \in Options,
                      End(w), status[PollOf[o]] # "missing"
               PROVE  cycle[w].due[o] <= row[o]
    OBVIOUS
  <2>1. cycle[w].pc = "next" /\ cycle[w].todo = {} /\ Sound(cycle[w], counter, row, status)
    BY DEF End, IInv, Cycles
  <2>2. cycle[w].due[o] \in Nat /\ row[o] \in Nat
    BY DEF IInv, TypeOK, Cycle
  <2> QED
    BY <2>1, <2>2 DEF Sound
<1>2. IInv => [Honest]_vars
  BY <1>1
<1> QED
  BY <1>2, Invariance, PTL DEF ReportIsHonest
=============================================================================
