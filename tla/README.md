# Voting service: specifications and proofs

TLA+ modules for the voting service in `src/`: an API (`cmd/api`) that takes
anonymous ballots into Redis and serves the admin from PostgreSQL, and a worker
(`cmd/worker`, the binary voting-sync) that copies counters from Redis to
PostgreSQL. TLC checks every module on a small instance; TLAPS proves every safety
property of the passing runs for every instance. `PROJECT.json` maps each
definition to the lines it stands for.

## 1. The system

| Part | State | Operations | Talks to |
|---|---|---|---|
| Vote store (`votestore`) | Redis: a dedup key per voter, a hash of counters per shard and poll, rate and quota keys per address, the set `votes:polls` | `Guard`, `CastBallot` (one Lua script each), `Counters` (a pipeline, no transaction), `TrackPoll`, `TrackedPolls`, `UntrackPoll` | Redis, through go-redis with retries |
| Vote service (`service/vote.go`) | none | `Cast`: load the poll, check it is open, validate, guard, cast | poll cache, vote store |
| Poll service (`service/poll.go`) | none | `Create`, `Get`, `List`, `Activate`, `Finish`, `Results` | repository, vote store, poll cache |
| Synchroniser (`service/sync.go`, `syncjob`, `cmd/worker`) | none between cycles | one cycle per process: for every tracked poll load, read counters, save, untrack when settled | repository, vote store |
| Poll cache (`pollcache`) | an entry per poll in memory and in Redis, a singleflight group | `Poll`, `Invalidate` | TTL cache, Redis, repository |
| TTL cache (`ttlcache`) | 16 shards, each a map, a list and a mutex | `Get`, `Set`, `Delete` | - |
| Poll entity (`entity/poll.go`) | a value | `ValidateBallot`, `CheckOpenAt` | - |
| Repository (`repository/poll.go`, `migrations`) | tables `polls`, `poll_options`, `poll_results` | a transaction for Create; single statements otherwise | PostgreSQL |
| Health probe (`health`) | one report, its age, a mutex | `Ready`, `Live` | Redis (critical), PostgreSQL |
| HTTP layer, middleware (`controller`, `middleware`, `httpjson`) | none; the browser keeps the identity cookie | `RealIP`, `VoterCookie`, `CastVote`, a deadline per request | vote and poll service |
| Clients, configuration, domain errors, ports, `cmd/api` | none that matters here | connecting, parsing, wiring, shutdown | |

A ballot goes browser -> middleware (cookie, deadline) -> `VoteService.Cast` ->
poll cache -> guard script -> cast script. A result goes counters in Redis ->
voting-sync -> `poll_results`; the admin sees the larger of both stores, option
by option. The poll's status lives in PostgreSQL alone, so the vote path sees it
late, through the two cache tiers of every replica.

What is hard about it:

* there is no transaction over Redis and PostgreSQL, nor over the shards of a
  poll; every operation that touches two of them can stop in between;
* go-redis sends a script again when the reply to it is late, and the earlier
  attempt may still run;
* counters, dedup slots and cached polls expire on clocks of their own, and
  configuration relates few of these clocks to each other;
* caches are filled, evicted and invalidated concurrently, over replicas;
* cycles of the synchroniser overlap (a manual run, a slow one), fail, and begin
  again; PostgreSQL goes on with an upsert nobody waits for, and lets two upserts
  of one poll run into each other's row locks;
* a device is known by a cookie that it gets with a response, which may be late,
  lost, or one of two; the API may run as several replicas.

What makes it correct, in a sentence each: a voter is counted once per dedup
window; an accepted ballot is counted; durable totals and results never exceed the
ballots cast, nor fall short, as numbers, of what Redis holds; a poll is synchronised from
its activation until its last ballot is safe; a cycle
that reports no failure has copied every poll it listed; its status only goes
forward; a device that makes up no tokens votes once per cookie it was given; a
request is rated by its client's address or that of a proxy on its way, never by one
the client made up; an old poll is shown for a bounded time; an
address is let through and refused only as the limits say; what is cached is
what was stored; every probe is answered, from a recent report, and an
unready one has a cause; created polls
are whole, and listing them skips none; a poll that can be activated can be
voted on. The hazards that could break these are listed in `PROJECT.json`, at
their lines.

## 2. The modules

| Module | Models | Extends | Run |
|---|---|---|---|
| `VoteStore` | the Redis keys of one poll's votes and `castBallotScript` | | (through the next two) |
| `CastBallot` | `Store.CastBallot` under retries, late attempts, loss of a shard | `VoteStore` | `cast_ballot` |
| `VoteTally` | `syncPoll`/`SaveResults` and `Results` over `Counters` | `VoteStore` | `vote_tally`; `tally_masked` through `MCVoteTallyMasked` |
| `DurableTally` | the abstract promise of the vote path | | property of `vote_tally` |
| `SyncCycle` | whole cycles of several workers: `RunOnce`, `Sync`, `syncPoll`, and their upserts as PostgreSQL statements | | `sync_cycle` |
| `PollLifecycle` | `Activate`, `Finish`, the tracked set, settling, late ballots | | `lifecycle`, `lifecycle_untracked` |
| `PollCache` | the two tiers, fills, invalidation | | `poll_cache` |
| `AbuseGuard` | `guardScript` for one address | | (through the next) |
| `VoteRequest` | a ballot's way from the device through `RealIP`, `VoterCookie` and `VoteService.Cast` to both scripts, and back | `AbuseGuard` | `vote_request` |
| `TtlCache` | the sharded LRU | | `ttl_cache` |
| `HealthProbe` | `Checker.Ready` | | `health` |
| `PollCatalog` | `Create`'s transaction and `List`'s pages | | `catalog` |
| `BallotRules` | `buildPoll`, the constraints of the table, `ValidateBallot`, `CheckOpenAt` | | `ballot_rules` |
| `CastBallotProofs`, `VoteTallyProofs`, `SyncCycleProofs`, `PollLifecycleProofs`, `PollCacheProofs`, `VoteRequestProofs`, `HealthProbeProofs`, `PollCatalogProofs` | theorems | the module each is named after, and two of them one more (below) | |

`PollCacheProofs` also extends `TtlCache`, the memory of one replica, and
`PollCatalogProofs` also `BallotRules`, the checks a poll passes before `PollCatalog`
stores it; each proves the theorems about both of its modules. For that the names of
the two modules differ from those of the others: `MemSpec`, `MemTypeOK`, `Item`, `clock`
in `TtlCache`, `RulesSpec`, `RulesTypeOK` in `BallotRules`. What one proof file extends
does not make one system of it: no specification mentions both modules.

A module `MCx` gives module `x` its instance where a `.cfg` alone cannot;
`MCVoteTallyMasked` adds the history of finding 1. Every module has a type
invariant; those of `PollCache`, `HealthProbe`, `PollCatalog` and
`BallotRules` are not in a run but among the theorems.
Definitions with a comment "Mutated forms" are deliberate errors: replacing the
real definition by one of them makes TLC report the property it belongs to,
which shows that the property depends on the code. No specification uses them.

How state and actions correspond to the code, where it is not one to one:

* **VoteStore.** A shard's hash is the set of ballots counted in it; the field
  of option `o` is the number of those that choose `o` (`Votes`). This is exact
  while no ballot is counted twice in one hash, which `CountedOnce` is about. An
  expired key is an absent one: every reader compares with the clock. A shard's
  counters and its voters' dedup keys share a hash tag and are lost together.
* **CastBallot.** A request has attempts; only the reply to the latest counts. A
  script is atomic, so `RunCounting` and `RunRefusing` are the two ways through
  it. The request's deadline ends the resending. It does not reach an attempt that
  is on its way: the client's sockets have timeouts of their own and Redis runs
  what it has received, so an attempt may run up to `NetworkDelay` later.
* **VoteTally.** `ReadShard` is one reply of the pipeline, in any order, with
  everything else in between. `SaveResults` is one statement. `SyncFail` covers
  every error of a cycle, a killed process and a deadlock that PostgreSQL breaks.
* **SyncCycle.** An option is one row of `poll_results`. `Save` sends the upsert with
  its rows in any order, as the Go map has them; `LockRow` takes one row, `Commit`
  ends the statement. The client and the statement are apart: `WriteFails`,
  `TimeOut` and `Crash` end the client's part (`Abandoned`), the statement goes on. A
  row that is released goes to a statement that waits for it (`Heirs`), as
  PostgreSQL's lock queue does. The clock inside a cycle is not modelled: a poll is
  settled when it is loaded, or not in this cycle; `PollLifecycle` has the clock that
  `settled` reads after the counters. Counters are read at once here and never lost;
  `VoteTally` has their shards and their loss.
* **AbuseGuard.** The history `runs` is the set of the script's runs, each with
  the time, the poll and the verdict; what a limit says is the size of a part of it.
* **VoteRequest.** A token is named by the request it was issued for. What a
  browser does with cookies is `Receive`: the last one it is sent wins. A request
  takes its cookie at `Arrive`; one that was sent earlier with an older jar is a
  request that arrived earlier. A hop of X-Forwarded-For is `Garbage`, which
  `netip.ParseAddr` does not accept, or an IPv4 address in one of two written forms,
  plain or mapped to IPv6 (`::ffff:a.b.c.d`). `isTrusted` tests hops as they are written
  (`identity.go:46`), but the peer and the address that is returned are unmapped;
  `Trusted` is therefore a set of written forms. The proxies of a route append
  their peers, in whichever form they see them, and `Standins` (history) is what
  they may have put in place of the client's address. Guard's keys are those of the
  client's own address; a request that is taken for another's asks keys outside the
  model, which may let it through (`Cast`) or not (`RefusedElsewhere`).
* **PollLifecycle.** Every call of `transition`, `Activate`, `Finish` and
  `syncPoll` is a step; an UPDATE or SADD may take effect though its reply is
  lost. Finishing stamps `finished_at` with the time the request began, as the
  code does. The caches appear as a bound on how long a finished poll may look
  active (`MaySeeActive`); `PollCache` derives such a bound.
* **PollCache.** The poll is a version number. A fill keeps, between its steps,
  what the leader of the singleflight group has read. The lookups that wait get
  the leader's result and are not processes of their own.
* **HealthProbe.** Times are ages that stop growing when they no longer matter,
  so the model needs no time bound and its deadlock check is on. PostgreSQL's check
  ends with its context (`CheckEnds`). A Redis command does not: go-redis without
  `ContextTimeoutEnabled` looks at the context before it sends an attempt (`Start`,
  `StartInVain`, `TryAgain`) and then waits for the socket's timeouts, whatever
  PROBE_TIMEOUT is. `attempt` is the Ping on its way, `RedisTimeout` the longest one takes.
  The clock moves under the lock only while a dependency that does not
  answer is waited for: Redis up to `RedisTimeout` per attempt, PostgreSQL up to the
  context's end.
* **PollCatalog.** Row sets per table; a transaction's rows appear with `Commit`.
  A page is the polls whose rank in `ORDER BY created_at DESC, id DESC` lies within
  LIMIT and OFFSET; their order within the page is not kept.
  A walk through the pages carries the offset, as the admin's client does.
* **TtlCache.** `order[s]` is the list of shard s, most recently used first, changed by
  taking one place out (`list.Remove`) and putting a key before the others. What the
  properties compare it with is history: what was last set for a key (`promised`) and
  which keys of its shard were used since it was (`usedSince`).
* **BallotRules.** Option texts are a small set with a trimming function; a poll has
  a set of options, for no check depends on their order;
  PostgreSQL's microseconds are multiples of `Resolution`.

## 3. The runs

Unless a line says otherwise, TLC must find no error. Deadlock checking is off
where the clock's bound or the finite set of requests stops the model.

**cast_ballot** (`MCCastBallot`). Two ballots of one voter, one retry each, one
lost shard, a clock of six ticks over a dedup window of two, attempts
that run a tick after their request's deadline. Properties: one
ballot per dedup window; accepted implies counted; no attempt counts a ballot a
second time; a refusal needs a counted ballot in the window. One voter is enough
since dedup keys of different voters share nothing; two ballots, each with two
attempts, give every order of two scripts around an expiry.

**vote_tally** (`MCVoteTally`). Three ballots on two shards, two synchronisers and a
results request, of which any two are under way at a time (`MaxCalls`; the theorems
are for any number), retention and dedup window of one tick in a clock of two, so that
a hash expires and begins again, and a shard that may lose its data once (`Fragile`,
`MaxLosses`). Properties: durable totals never exceed what was counted, and neither
does the merged answer; after a cycle that saves, each durable total is no less than
the number of ballots counted before the cycle began that Redis still holds, whatever
else expired, was lost or was saved by the other cycle; the merged answer shows, per
option, no less than the number of ballots counted before the request began that Redis
still holds at the answer; every step implements `DurableTally` (totals only rise, to
no more than was counted); under fairness each durable total is, again and again, no
less than what Redis shows. All of these compare numbers: a ballot in a hash that began
again may be hidden behind an older total that is as large (finding 1).

**tally_masked** (violation). See finding 1.

**sync_cycle** (`MCSyncCycle`). Two workers, two polls, one of them with two rows so
that two upserts can lock them crosswise, two connections so that they meet, one
ballot for both rows, one fault (a failed call or statement, SYNC_TIMEOUT, a
crash) on top of the deadlocks. Either poll may be missing in PostgreSQL. Properties:
a cycle counts as failed every listed poll whose earlier ballots are not in
PostgreSQL when it ends, whatever late upserts of other cycles do; a poll is
untracked only with all its ballots durable; no deadlock, statement without a
client or fault keeps a ballot from PostgreSQL for good. The deadlock check is on:
workers and PostgreSQL never wait for each other without a way out. With one
ballot an upsert is either before or after it, which is what an older and a newer
total are; one fault is enough to leave a statement behind, and rows locked
crosswise need none.

**lifecycle** (`PollLifecycle`). Two admin requests, a ballot, a synchroniser;
request and cycle timeouts of two ticks, caches stale for one. Properties: a
successfully activated poll stays tracked until it is settled; the status only goes
forward, however requests race; `finished` and `finished_at` are for good; a poll that was
dropped has all its ballots in PostgreSQL; a ballot counted while its poll is
tracked is persisted. The settle window of five is the smallest with which
the last but one holds in this instance: with four TLC finds a ballot left
behind. What is sufficient is

    SYNC_SETTLE_AFTER >= CacheStaleness + 2 * HTTP_REQUEST_TIMEOUT + SYNC_TIMEOUT

(the proof needs it in ticks only up to two less, which are the five here): one
request timeout for the time between `finished_at` and the UPDATE's commit,
one for the ballot that was checked at the last moment, and a cycle because
`settled` reads its clock after the counters were read. (Both timeouts here include
the time a call that was sent may still spend on its way, `NetworkDelay` above.)

**lifecycle_untracked** (violation). See finding 2.

**poll_cache** (`MCPollCache`). Two replicas, a poll created and changed once,
every lifetime at its smallest interesting value. Properties: a replica never
answers with a version replaced longer ago than `SharedTTL + LocalTTL +
2 * RequestTimeout` (for a missing poll `2 * (NegativeTTL + RequestTimeout)`), whatever invalidations do or fail to do; after an
invalidation that no fill overlapped the shared tier never shows an older
version, and no local tier does for longer than its own lifetime.

**vote_request** (`MCVoteRequest`). Three requests of one device, two for one poll
and one for another, which may all overlap; one retry of each guard call; two
losses (an attempt given up, a response that does not arrive); windows, quota and
cookie of two ticks, a dedup window of three, a clock of three; routes over up to
three trusted proxies, with hops in plain and mapped form and hops that are not
accepted, both among those the client has made up and among those the proxies wrote.
Properties: less than twice the limit passes in any
stretch of a window's length; a refusal is earned by runs within the window; a
request is rated by its client's address, or, when a proxy on its way was written
down in a form that is not trusted or a hop there is not accepted, by a proxy's,
never by one the client made up; a device that sends only tokens it was issued has at most
as many ballots counted for a poll within the dedup window as it has sent requests
without a cookie. Note that refusals are earned by *runs*: a resent script hits
twice, so a client on a bad network may be refused early. Three requests are
enough for a burst over two windows of limit two, and for a device that has two
first requests and then comes back with one of the two cookies.

**ttl_cache** (`MCTtlCache`). Two shards, one of them with more keys than
places. Properties: what is found is what was last set, and not for longer than
was asked; a key stays while fewer others of its shard than the shard has places
were used; the capacity holds; each key by itself is the local tier that `PollCache`
assumes (`ActsAsLocalTier`): its entry is what a Set gives it, is dropped or expires,
and a lookup of a key never prolongs its life.

**health** (`HealthProbe`). Two probes, PROBE_TIMEOUT and the cache's time of two
ticks, an attempt of Redis's client of three, so that it outlasts PROBE_TIMEOUT.
Properties: a `ready` answer means Redis has answered not longer ago than PROBE_TIMEOUT
plus the cache's time; an `unready` one that Redis was down within the cache's time
plus the longer of PROBE_TIMEOUT and an attempt, or that a client left while its
probe made the report, within the cache's time; every probe is answered though
dependencies hang.

**catalog** (`PollCatalog`). Three concurrent creations, a walk through the pages.
Properties: no page shows a poll without its options or before its result rows are
there; a walk misses no poll that was there when it began.

**ballot_rules** (`MCBallotRules`). All commands over six raw texts, up to three
options and four instants, all short ballots. Properties: a ballot passes exactly
when it lists a set of the poll's options within `max_choices`; a poll that can be
activated has a moment and a ballot for every option.

### Fairness

* `VoteTally.FairSpec`, `PollLifecycle.FairSpec`: weak fairness of each
  synchroniser's steps, for `docker-compose.yml` runs voting-sync in a loop, and
  `OutagesEnd`: from some time on no call of a cycle fails. It must not rule out a cycle
  that ends well and changes nothing: in `PollLifecycle` a failed cycle leaves a
  state of its own (`aborted`), in `VoteTally` a failure is allowed that changes what a
  save would. Nothing is assumed of
  the API, of voters or of the admin.
* `SyncCycle.FairSpec`: weak fairness of each worker that has a step of its own to
  take (the same loop) and of each statement in PostgreSQL, which locks and commits
  when nothing is in its way and breaks deadlocks it is part of. Faults end because
  `MaxFaults` bounds them; deadlocks are not bounded.
* `HealthProbe.FairSpec`: time passes; the socket's timeout ends an attempt of Redis's
  client, and the end of a context is noticed by PostgreSQL's; a
  request that waits for the mutex gets it in the end (Go's mutex hands itself
  to a waiter that has starved for a millisecond, hence strong fairness). A
  dependency need never answer, and Redis's client need not notice that the context
  has ended, except before it tries again.

## 4. The proofs

All are checked by tlapm; the only assumptions are the `ASSUME`s on constants,
which TLC evaluates on every run, and two hypotheses that theorems state
(`SettleSuffices`, and a place for every shard of the memory, below). Most assumptions only give types and finiteness; those
that say more are named here. Every invariant `IInv` (`MemIInv`, `RulesIInv`) was checked by TLC on the
instance of its module's run before it was proved. The theorems of a module hold
for any number of its processes, and for the bound of every clock, which is a
constant like others.

**CastBallotProofs** (`TypeCorrect`, `VotesOncePerWindow`, `AcceptedCounted`,
`NeverCountedTwice`, `NeverLockedOut`), for any finite set of ballots and any voters,
shards, retries and windows.
`OneBallotPerDedupWindow` is not inductive: it speaks about times of counting,
the script about keys. `IInv` ties them: `SlotOutlastsBallots` (the dedup key
outlives each counted ballot by the window, as long as nothing was lost) lets a new
ballot pass only when all old ones are old enough, `SlotHasBallot` is its
converse and gives `NeverLockedOut`, and `RequestsInTime` bounds a request's
deadline by the time its ballot was counted plus the request timeout. The last
one with `RequestTimeout + NetworkDelay <= DedupTTL` (`RequestAssumption`) shows that no
late attempt finds its own slot expired (`CountsNewBallot`): the script does not
know ballots, so this relation is what keeps the counters right. `config.go`
bounds HTTP_REQUEST_TIMEOUT by a minute from above and VOTE_DEDUP_TTL by a minute
from below (the default is an hour); that the delay fits in between is an
assumption about Redis and the network, which with both settings at that minute
would leave no room for any.

**VoteTallyProofs** (`TypeCorrect`, `NeverOvercounts`, `AnswersWithinCounted`,
`SavesAll`, `AnswersAll`, `Refinement`), for any number of overlapping cycles and
results requests. `DurableNeverOvercounts` alone is not inductive because a cycle
carries what it has read; `IInv` adds that every set kept anywhere (a hash, a
cycle's replies) holds counted ballots, and that every number kept by a results
request is within the counted votes. `VotesMonotone` turns inclusion of sets into
order of totals. Completeness is about the ballots of the base that Redis still
holds, compared as numbers, and has an invariant of its own, `Complete`: of the ballots
counted before a reader began, those that Redis still holds are in the replies it
has, or in a shard that it has yet to read. It holds because a ballot is in one shard
and is counted once, so one that has gone from a hash does not come back.
`Refinement` needs, on top of `IInv`, a case for each action: `Cast` maps to
`CountBallot`, `SyncSave` to `Persist`, everything else to a stutter.

**SyncCycleProofs** (`TypeCorrect`, `OffTheListIsSaved`, `HonestReport`), for any
workers, connections, polls and options, in the presence of deadlocks, crashes and
statements without a client. Rows and upserts never have more than the counters
(`RowsWithin`), so an upsert that comes late, in whatever order it locks its rows, never
lowers or overshoots a total. What a cycle owes (the counters when it began) is in the
rows, or its poll is still to be done, or the worker waits for an upsert that carries
it (`Cycles`, `Statements`); of a settled poll the upsert has all there will ever be.
That is why `untrack` finds everything durable (`Untracked`).

**PollLifecycleProofs** (`TypeCorrect`, `StaysTracked`, `ForwardOnly`,
`DroppedIsPersisted`). `ActivatedStaysTracked` follows from `UntrackedIsSettled`: once
TrackPoll has answered, only a cycle that saw the poll settled takes it off.
`DroppedIsPersisted` has the hypothesis `SettleSuffices`, the inequality of section 3.
`Phases` bounds the time from `finished_at` to the UPDATE's commit by a request,
`LateBallots` the check of a ballot by the staleness of the caches after that commit,
so that counting is over (`CountingIsOver`) `CacheStaleness + 2 * RequestTimeout` after
`finished_at`; `CyclesKnow` says that a cycle which saw fewer ballots than there are began before
then, and such a cycle has ended when the settle window has. Nothing in
`config.go` guarantees the hypothesis (section 5); its defaults do.

**PollCacheProofs** (`BoundedStaleness`, `CleanInvalidation`), for any number of
replicas and versions. A replaced version travels from PostgreSQL through a fill to
Redis and from there through another fill to a replica's memory. `IInv` bounds each leg
by the time of replacement (`InRedis`, `InFlight`, `InMemory`): a fill ends within a
request, an entry within its lifetime. `CleanSince` says where an older version may
still be after an invalidation that no fill overlapped: in local tiers, and for no longer
than their lifetime. `CacheAssumption` has `LocalTTL <= SharedTTL`, which `config.go` enforces.

**VoteRequestProofs** (`TypeCorrect`, `RatedByOwnAddress`, `BurstsAreBounded`,
`RefusalsAreEarned`, `OneVotePerBareRequest`, `GuardIsKept`), for any devices, requests,
polls, retries and limits. `ResolvedOnTheWay` is the lemma about `RealIP`: walking
X-Forwarded-For from the right, the first hop that is not trusted as written
(`MaxIsLast`) is on the request's way and not among what the client wrote to its left,
so it is the client, or a stand-in for it: a proxy that was written down in a form no
prefix contains, or the peer for a hop that is not accepted. `RequestAssumption`: no form of the
client's address is trusted, the plain form of every proxy's is, proxies append
their true peer, and the TCP peer has an address. `GuardIsKept` shows
that the handlers use the guard as `AbuseGuard` specifies, so that the guard's bounds
can be proved once: `GuardIInv` says that a key's hits are exactly the runs since its
window began, that in the window before it no more passed than the limit, and fewer
outside its first instant; a stretch of a window's length overlaps two windows at
most. For the votes of a device, `Counted` is an existential: some function `tok`
names the token each counted ballot was counted with, such that each token was issued
to a request of that device that came without one (`Tokens`), and two ballots of a token and
poll are a dedup window apart. Within a window `tok` is then injective into the bare
requests.

**HealthProbeProofs** (`OneProbeAsks`, `ReadyIsJustified`, `UnreadyIsJustified`), for any
number of probes, timeouts and times to keep a report. `MutualExclusion` is needed
first, for `elapsed` and `attempt` belong to the one probe that asks; `LockStep` is
what the two ways of taking it share. `Knows` is what that probe has learnt of Redis at
each step and when: a lost attempt has met a Redis that was down no longer ago than the
attempt was sent, which is at most `RedisTimeout`, and PostgreSQL is waited for only up to
PROBE_TIMEOUT after the first question; hence `Slowest`, the longer of the two.
`Reported` is what remains true of the cached report as it ages.

**PollCacheProofs**, second part (`MemTypeCorrect`, `FindsWhatWasSet`, `KeepsWorkingSet`,
`StaysWithinCapacity`, `IsLocalTier`): about `TtlCache`, for any keys, values, shards,
capacity and lifetimes. `ProperList` is what a shard's list is at all times: its own
keys, each once, no more than it has places for, and each was used after those behind it.
`WithoutOne`, `CutLast` and `PushedFront` show that the three things the code does to a
list keep it so; they hold for any list, so no induction over its length is needed.
`Kept` says that what is held is what was last set, and `Evicted` that whatever is
promised but not held has seen at least as many other keys used as its shard has places:
when the last of a full list goes, those before it and the new key are that many
(`LastMakesRoom`). The capacity follows from an injection of the held keys into
shards times places. It has the hypothesis `Cardinality(Shards) <= Capacity`, which
`config.go:189` ensures with sixteen; without it the property is false (section 5).
`IsLocalTier` is the step between the two modules: every step of `TtlCache` is, for
any one key, a step that `PollCache` allows the local tier.

**PollCatalogProofs** (`TypeCorrect`, `ShownPollsAreWhole`, `WalksAreComplete`), for any
number of creations and page sizes. The ranks of n polls are exactly 0 .. n - 1
(`RanksAreContiguous`: ranks are injective, and an injection between finite sets of one
size is onto), so a page that is not full is the last. Polls are only ever
added, wherever in the order, so that ranks only grow (`RankGrows`): a poll may be
shown twice, but none behind the walk's offset moves ahead of it. `Walk` keeps this between
the count, the page and the options' query.

**PollCatalogProofs**, second part (`RulesTypeCorrect`, `PassesSetsOfOptions`,
`CanBeVoted`): about `BallotRules`, for any texts, limits, instants and resolution.
`BuildsPolls` shows that what `buildPoll` accepts has between two and MaxOptions options
and a limit between one and their number; for such a poll the limit that
`ValidateBallot` works out again is the one that was stored (`LimitIsStored`). `Open` is
the window after truncation, which the constraint of the table checks. A ballot's ids
are a list, and `ListsOfSets` relates it to the set it lists: without repetitions it has
as many members as places. The verdict is compared with the poll as it is later
(`Judged`), which is sound because no step changes an active poll.

Only model-checked: liveness (`BallotsReachPostgres`, `EveryPollIsCopied`,
`EveryProbeIsAnswered`, `DurableCatchesUp`), for the prover has no means for fairness
and ENABLED. The two runs of section 5 that expect a violation are examples and
have nothing to prove.

## 5. What was found

1. **Masked ballots** (`tally_masked`). `castBallotScript` gives a shard's hash its
   retention when it is created and never renews it. In a poll that lives
   longer than VOTE_COUNTER_RETENTION the hash begins again at zero, and
   `SaveResults` keeps the larger of old and new totals, so later ballots do not
   show until they outnumber the earlier ones. `README.md:87` of the
   repository says that PostgreSQL lags by the interval at most.
2. **An active poll nobody synchronises** (`lifecycle_untracked`). `Activate`
   commits the status first and adds the poll to `votes:polls` last. If
   anything in between fails the poll takes ballots, is in no cycle's list, and a
   second `Activate` answers conflict.

Observations that no run of its own is spent on:

* a counted ballot whose reply is lost is answered `already_voted` by the
  resent script; `RefusedOnlyWithinWindow` and `CountedOnce` say what remains true;
* nothing in `config.go` relates SYNC_SETTLE_AFTER (at least a minute) to
  POLL_CACHE_SHARED_TTL (up to an hour): the inequality of section 3 is up to
  the operator;
* `Checker.evaluate` uses the context of the request that finds the report too
  old; when that client goes, every check fails and the unready report answers
  others for PROBE_CACHE_FOR (`UnreadyHasACause` shows that it is no longer);
* `clients.go:42` leaves go-redis' `ContextTimeoutEnabled` unset, so a Ping in flight
  ends by REDIS_READ_TIMEOUT or REDIS_WRITE_TIMEOUT, up to 30 s and unrelated to
  PROBE_TIMEOUT (`config.go:167`): a probe may hold the mutex for that long, and
  Redis may have been back for longer than PROBE_TIMEOUT and PROBE_CACHE_FOR together
  when a probe answers unready;
* a hop of X-Forwarded-For is tested as written (`identity.go:46`) though the peer is
  unmapped (`identity.go:62`): a trusted proxy that the next one records as
  `::ffff:a.b.c.d` is taken for the client unless the mapped prefix is
  configured too, and all clients behind it share its limits;
* `sanitizeToken` accepts any 22 base64url characters, so what
  `VotesWithinBareRequests` says is about devices that send what they were issued;
* two first requests of a device that overlap get a token each and may both be
  counted for one poll; the browser keeps the later cookie, which need not be
  the one that voted. A lost response has the same effect, and so has a
  VOTER_COOKIE_TTL (from an hour) below VOTE_DEDUP_TTL (up to 30 days), which
  nothing in `config.go` relates. `VotesWithinBareRequests` is what remains true;
* two upserts of one poll can deadlock, since `SaveResults` sends its rows in map
  order; PostgreSQL ends one of them, its cycle reports a failure and exits 1, and a
  later cycle makes it good (`EveryPollIsCopied`). Sorted ids would avoid it;
* a cycle that has run into SYNC_TIMEOUT counts all polls it did not come to as
  failed, and lists the polls in the order Redis gives them: with more polls
  than fit, it is that order which decides who is copied;
* `NewTTL` with a capacity below 16 would hold up to 16; `config.go:189`
  prevents it;
* with PostgreSQL down `/health/ready` answers 200 and `degraded`, by design.

## 6. What is not modelled

Configuration (its bounds are the assumptions on constants), domain errors, and of
the HTTP layer and the middleware what keeps no state (decoding, encoding,
`AdminAuth`, `BodyLimit`, `Recover`, `Correlation`, `AccessLog`; `Timeout` is the
deadline of a request in the modules that need it). Wiring and shutdown
(`cmd/api`): `Shutdown` stops accepting and waits for the requests under way up to
HTTP_SHUTDOWN_TIMEOUT, after which they are lost as in a crash, and crashes are in
`PollCache`, `PollLifecycle` and `PollCatalog`. In modelled parts: an entry of the
shared cache that does not decode (it is a miss); the lookups that follow a fill's
leader as processes of their own (they get its outcome, an error included, whatever
is left of their own time); a SET that Redis runs after the fill that sent it has given
up; data loss of the guard's keys (it only forgets hits); the loss of `votes:polls`
with its Redis node, after which nothing would track an active poll again; other
spellings of a poll's UUID than the canonical one; addresses with a zone; devices that
invent tokens;
in `SyncCycle` the clock and the loss of counters, which are in `PollLifecycle` and
`VoteTally`. A poll missing in PostgreSQL, which `SyncCycle` starts with, needs a
restored database: the code deletes no polls.

## 7. Plan

Done: the vote path with its proofs (`VoteStore`, `CastBallot`, `VoteTally`,
`DurableTally`), then the modules around it in the order of section 2, with
`SyncCycle` and `VoteRequest` last.

Next, modelling:
1. `PollCache` composed with `PollLifecycle` in place of `MaySeeActive`, so that
   the settle bound is checked against the real caches; the followers of a fill.
2. Shutdown of the API while requests are under way.

Proofs done: those of section 4; every safety property of a passing run is a theorem.

Next, proofs:
1. The composition named above would discharge `SettleSuffices` in part: its staleness
   becomes the bound of `BoundedStaleness` instead of a constant.
2. The lemmas that several proofs share (lists without repetitions, injections into
   finite sets), stated once.
