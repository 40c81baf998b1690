----------------------------- MODULE BallotRules -----------------------------
(***************************************************************************)
(* What makes a poll and what makes a ballot: the checks of buildPoll      *)
(* (service/poll.go), the constraints of the polls table (migrations), and *)
(* the checks of a ballot against the stored poll (entity/poll.go,         *)
(* service/vote.go).                                                       *)
(*                                                                         *)
(* An option is named by its trimmed text, a poll has a set of them, for   *)
(* nothing here depends on their order, and an instant is a number:        *)
(* PostgreSQL keeps a timestamp only to a multiple of Resolution, the      *)
(* program's own clock and a command's window are finer than that.  Names  *)
(* differ from those of PollCatalog, where these polls are stored.         *)
(***************************************************************************)
EXTENDS Integers, SequencesExt

CONSTANTS
    RawTexts,       \* option texts as they are sent
    Trim,           \* [RawTexts -> texts], "" when nothing is left
    TooLong,        \* texts beyond POLL_MAX_OPTION_LENGTH
    MaxOptions,     \* POLL_MAX_OPTIONS
    Instants,       \* from the first one that can be stored; 0 stands for no bound
    Resolution      \* a microsecond

ASSUME RulesAssumption ==
    /\ Trim \in [RawTexts -> STRING]
    /\ MaxOptions \in Nat \ {0, 1}
    /\ Resolution \in Nat \ {0}
    /\ \A t \in Instants : t \in Nat /\ t >= Resolution

VARIABLES
    poll,   \* the poll, as it was built and then as it is stored
    pc,     \* how far it has come
    ballot  \* the last ballot that was submitted and what became of it

rulesVars == <<poll, pc, ballot>>

Types == {"", "single", "multiple", "ranked"}
MaxChoices == -1 .. MaxOptions + 1
NoPoll == [type |-> "", maxChoices |-> 0, options |-> {}, startsAt |-> 0, endsAt |-> 0]
NoBallot == [ids |-> <<>>, at |-> 0, verdict |-> "none"]
GoodTexts == {Trim[raw] : raw \in RawTexts} \ ({""} \cup TooLong)

RulesTypeOK ==
    /\ pc \in {"new", "built", "rejected", "unavailable", "draft", "active"}
    /\ pc = "new" \/ pc = "rejected" => poll = NoPoll
    /\ pc \in {"draft", "active"} =>
          /\ poll.type \in {"single", "multiple"}
          /\ poll.options \subseteq GoodTexts
          /\ Cardinality(poll.options) \in 2 .. MaxOptions
          /\ poll.maxChoices \in 1 .. Cardinality(poll.options)
    /\ ballot.verdict \in {"none", "pass", "conflict", "invalid_request"}

RulesInit == poll = NoPoll /\ pc = "new" /\ ballot = NoBallot

(* The choices a poll may be created from; a text beyond the limits of a   *)
(* question is rejected like one beyond those of an option.                *)
Command == [type : Types, maxChoices : MaxChoices, options : BoundedSeq(RawTexts, MaxOptions + 1),
            startsAt : Instants \cup {0}, endsAt : Instants \cup {0}]

(* effectiveMaxChoices. *)
EffectiveMaxChoices(p) ==
    IF p.type = "single" THEN 1
    ELSE IF p.maxChoices \in 1 .. Cardinality(p.options) THEN p.maxChoices
    ELSE Cardinality(p.options)

-----------------------------------------------------------------------------
(* Mutated forms of the definitions below, used by the mutant runs only. *)

EndMayEqualStart(startsAt, endsAt) == startsAt = 0 \/ endsAt = 0 \/ endsAt >= startsAt

OneChoiceMore(p, ids) == Len(ids) \in 1 .. EffectiveMaxChoices(p) + 1

-----------------------------------------------------------------------------
(* Create: buildPoll. *)

(* Options that are blank once trimmed are dropped, ... *)
Texts(cmd) == {Trim[raw] : raw \in ToSet(cmd.options)} \ {""}

(* ... and no two others may be equal then. *)
Distinct(cmd) ==
    \A i, j \in DOMAIN cmd.options :
        i # j => Trim[cmd.options[i]] = "" \/ Trim[cmd.options[i]] # Trim[cmd.options[j]]

PollType(cmd) == IF cmd.type = "" THEN "single" ELSE cmd.type

ChoicesFor(cmd) ==
    IF PollType(cmd) = "single" THEN 1
    ELSE IF cmd.maxChoices <= 0 THEN Cardinality(Texts(cmd))
    ELSE cmd.maxChoices

Acceptable(cmd) ==
    /\ PollType(cmd) \in {"single", "multiple"}
    /\ Distinct(cmd) /\ Texts(cmd) \cap TooLong = {}
    /\ Cardinality(Texts(cmd)) \in 2 .. MaxOptions
    /\ ChoicesFor(cmd) <= Cardinality(Texts(cmd))
    /\ cmd.startsAt # 0 /\ cmd.endsAt # 0 => cmd.endsAt > cmd.startsAt

Build(cmd) ==
    /\ Acceptable(cmd)
    /\ poll' = [type |-> PollType(cmd), maxChoices |-> ChoicesFor(cmd), options |-> Texts(cmd),
                startsAt |-> cmd.startsAt, endsAt |-> cmd.endsAt]
    /\ pc' = "built"
    /\ UNCHANGED ballot

Reject(cmd) ==
    /\ ~Acceptable(cmd)
    /\ pc' = "rejected"
    /\ UNCHANGED <<poll, ballot>>

Create == pc = "new" /\ \E cmd \in Command : Build(cmd) \/ Reject(cmd)

-----------------------------------------------------------------------------
(* InsertPoll: timestamps are truncated, then the constraints checked. *)
Kept(t) == t - (t % Resolution)

WindowOrdered(startsAt, endsAt) == startsAt = 0 \/ endsAt = 0 \/ endsAt > startsAt

Storable(p) ==
    /\ p.type \in {"single", "multiple"}
    /\ p.maxChoices >= 1
    /\ p.type = "single" => p.maxChoices = 1
    /\ WindowOrdered(Kept(p.startsAt), Kept(p.endsAt))

Store ==
    /\ pc = "built"
    /\ Storable(poll)
    /\ poll' = [poll EXCEPT !.startsAt = Kept(@), !.endsAt = Kept(@)]
    /\ pc' = "draft"
    /\ UNCHANGED ballot

(* A constraint fails: the admin is answered unavailable. *)
StoreFails ==
    /\ pc = "built"
    /\ ~Storable(poll)
    /\ poll' = NoPoll
    /\ pc' = "unavailable"
    /\ UNCHANGED ballot

Activate ==
    /\ pc = "draft" /\ ballot = NoBallot
    /\ pc' = "active"
    /\ UNCHANGED <<poll, ballot>>

-----------------------------------------------------------------------------
(* CheckOpenAt. *)
OpenAt(at) ==
    /\ pc = "active"
    /\ poll.startsAt # 0 => poll.startsAt <= at
    /\ poll.endsAt # 0 => at < poll.endsAt

(* ValidateBallot. *)
WithinChoices(p, ids) == Len(ids) \in 1 .. EffectiveMaxChoices(p)

ValidBallot(ids) ==
    /\ WithinChoices(poll, ids)
    /\ ToSet(ids) \subseteq poll.options
    /\ IsInjective(ids)

(* Cast, up to the guard.  One ballot is enough: it leaves no trace here. *)
Cast(ids, at) ==
    /\ pc \in {"draft", "active"}
    /\ ballot = NoBallot
    /\ ballot' = [ids |-> ids, at |-> at,
                  verdict |-> IF ~OpenAt(at) THEN "conflict"
                              ELSE IF ~ValidBallot(ids) THEN "invalid_request" ELSE "pass"]
    /\ UNCHANGED <<poll, pc>>

RulesNext ==
    \/ Create \/ Store \/ StoreFails \/ Activate
    \/ \E ids \in BoundedSeq(GoodTexts, MaxOptions + 1), at \in Instants : Cast(ids, at)

RulesSpec == RulesInit /\ [][RulesNext]_rulesVars

-----------------------------------------------------------------------------
(* A ballot passes exactly when its ids are the members of a set of the    *)
(* poll's options, not empty and no larger than the max_choices the admin  *)
(* was shown: buildPoll and ValidateBallot agree on what that number is.   *)
BallotsAreSetsOfOptions ==
    ballot.verdict # "none" /\ ballot.verdict # "conflict" =>
        (ballot.verdict = "pass" <=>
            \E choice \in SUBSET poll.options :
                /\ Cardinality(choice) \in 1 .. poll.maxChoices
                /\ ballot.ids \in SetToSeqs(choice))

(* Every poll that can be activated has a moment at which ballots pass and *)
(* a ballot for each of its options: no window is empty, not even after    *)
(* its bounds were truncated, and no limit is zero (buildPoll and the      *)
(* constraint polls_window_ordered).                                       *)
EveryPollCanBeVoted ==
    pc = "active" =>
        /\ poll.startsAt # 0 /\ poll.endsAt # 0 => poll.startsAt < poll.endsAt
        /\ \A option \in poll.options : ValidBallot(<<option>>)
=============================================================================
