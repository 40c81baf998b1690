---------------------------- MODULE DurableTally ----------------------------
(***************************************************************************)
(* What the vote path promises of a poll's result, in terms of nothing but *)
(* the ballots that were counted and the totals kept in PostgreSQL:        *)
(* ballots are counted one at a time and never forgotten, a durable total  *)
(* never goes down, and never rises above the ballots counted for it.      *)
(***************************************************************************)
EXTENDS Naturals

CONSTANTS
    Ballots,
    Options,
    Total(_, _)     \* Total(B, o): the votes a set of ballots B has for o

VARIABLES
    cast,       \* the ballots counted so far
    durable     \* [Options -> Nat], the totals in poll_results

tallyVars == <<cast, durable>>

TallyInit == cast = {} /\ durable = [o \in Options |-> 0]

CountBallot(b) ==
    /\ b \notin cast
    /\ cast' = cast \cup {b}
    /\ UNCHANGED durable

Persist ==
    /\ durable' \in [Options -> Nat]
    /\ \A o \in Options : durable[o] <= durable'[o] /\ durable'[o] <= Total(cast, o)
    /\ UNCHANGED cast

TallyNext == Persist \/ \E b \in Ballots : CountBallot(b)

TallySpec == TallyInit /\ [][TallyNext]_tallyVars
=============================================================================
