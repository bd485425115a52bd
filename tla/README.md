# Verification of homeport

homeport steers the traffic of self-hosted services over several WireGuard
tunnels between a VPS (the *frontend*) and a home network (the *backend*). This
directory holds TLA+ models of its core, the TLC configurations that check them
on small instances, and proofs that TLAPS checks for every value of the
constants. `PROJECT.json` maps every definition to the source lines it models.

Paths below are relative to `src/internal/` unless they say otherwise.

    tlc -config Engine.cfg MCEngine        one run (see PROJECT.json for the list)
    tlapm BackendProofs.tla                the proofs of one module

## 1. The system

    clients -> frontend: nftables DNAT -> route to the backend -> tunnel p -> backend
                         Prober(p) --probe(decision n: path)--> responder
                         Tracker(p) <- results                  worker -> return route
                         Engine: evaluate, reconcile            Meter -> control client
                         ControlServer <------ usage, status ----------/
                                       ------ configuration, acks ---->

| component | state | operations | meets the others through |
|---|---|---|---|
| Prober (`engine/prober.go`) | pending and resolved tables, next sequence to hand on, socket | tick, nudge, sweep, reply, socket death, hold, stop | results channel to the engine; the current decision stamped on every probe |
| Tracker (`engine/tracker.go`) | health, streaks, clean streak, failure window, cooldown | observe, retune, clear | called by the engine for each result |
| Engine (`engine/engine.go`) | active path, decision number, latch, pin, configuration, kernel routes and rules, persisted state | evaluate, install, reconcile, reconfigure, revert, start | `mu`, `applyMu`, `reconfMu`; kernel; database; probers |
| Backend agent (`agent/agent.go`, `responder.go`) | last decision heard, pending decision, applied decision, cached configuration, kernel routes | receive a probe, apply, reconcile, take a push, restart | probes and the control channel |
| Metering (`agent/meter.go`, `client.go`, `engine/control.go`) | counters read, numbering, buffer, two files; watermarks and ledger | sample, report, apply, acknowledge | control channel, database |
| Control server (`engine/control.go`) | slots, per-address shares, sessions, versions pushed | accept, hello, end, push | engine's `SetBackendUp`, `SetLinkerUp/Down` |
| Path selection (`engine/engine.go`) | active, pin, beaten and switch times | selectPath, quality mode | reads trackers and quota verdicts |
| Quota (`quota/quota.go`) | period, grants, hard stop | evaluate, approve, reload | blocks paths; portal; ledger |
| Linker agent (`linker/`, `sysx/linker.go`) | pinned rules, return ruleset, egress wanted and installed | apply, reconcile, configure, retry, revert | control channel, kernel |
| Control protocol (`proto/`) | nonces, frame counters | handshake, read and write a frame | every control connection |
| Blocklist (`engine/blocklist.go`) | remembered list and its tag, cache file, installed set | refresh, retry, fall back, switch off | nftables, `blMu` |
| Edge protection (`sysx/protect.go`) | the table generated from the settings | generate, load, read back | nftables |
| Query cache (`qcache/`) | cached answers, challenges, pace | serve, refresh, start, stop | nftables redirect; game servers |
| System commands (`sysx/`) | nftables, tc, ip rules | install, remove | called by everyone |
| Store, model, notifier, portal, commands | database, settings, queue, sessions | | |

What is hard here: two ends that must agree on a path although every message
between them crosses the links that are failing; decisions, saves, reverts and
repairs that write the same kernel state from different goroutines; commands
that fail half way; interfaces that disappear with their routes; background
refreshers that read, block, and store into what has changed meanwhile; and
processes that restart beside the routes and rules they left. `PROJECT.json`
lists each place where that bites under `hazards`, with the properties that
watch it.

## 2. The modules

The correspondence is one critical section, command or handler to one action;
a lock is a variable holding its owner; every command that may fail has a
failing disjunct, a removal whose error the code drops too: what it was to remove
then stays, and the code goes on as if it had gone. Settings are records of the
fields the code reads.

### Prober
Both goroutines of one generation of one path's prober, its network and the
part of the engine it talks to. Every critical section of `p.mu` is an action:
`Book` draws the next number and enters it in `pending`, `WriteOk` and
`WriteRefused` are the two ends of the write, `Sweep` times probes out,
`Resolve` is the reader's `resolve`, `FlushTakes`/`Emit`/`EmitGivesUp` are
`flush` with its blocking send, `DialFails`/`HoldElapses` the hold while the
tunnel does not exist, `SocketDies` a read error, `Stop`/`LoopDone`/`Stopped`
the shutdown. `after` records where the caller of `flush` continues, which also
says whose context the flush listens to. The network keeps every message for
ever: delivering one again is duplication, never delivering it is loss.

Results leave once, in order and without a gap until the prober is stopped or
its socket dies (`Delivered`); a result that is not a loss was answered by the
backend, whatever old replies are about (`AnsweredMeansRoundTrip`); after a nudge
is consumed, the last probe built carries the current decision
(`DecisionCarried`). Liveness: every probe leaves (`EveryProbeLeaves`, needs a
reader of the channel), and a cancelled prober ends even though nobody reads
(`StopTerminates`).

### Tracker
Time is a natural number and `MaxDuration` stands for MaxInt64, so the doubling
of the cooldown meets its overflow check within a few trips. `FlapsAreCaught` (no
window's worth of condemnations without a trip, measured against a history of all
of them) and `NeverReleasedSooner` (a further trip never frees a
path earlier, which a cooldown that overflowed would); `CooldownInRange` and `CleanIffUp` are
proved only.

### Selection
`evaluate` and `selectPath` in both modes, with what feeds them: tracker verdicts
and scores from the environment, and `refreshQuota`, which reads the grants, then
the usage, and only then replaces the verdicts, in Run's goroutine and in
requests at once. Approvals, revocations, pins and installs that fail go on beside
it. `LeavesForAReason` and `BeatenIsLeft` bound the movement from both sides: a
working path is left only for a pin, a preferred path clean for the hold-down or a
fallback that beats it by the margin, and a fallback that stays beaten is left
although challengers take turns. A hold-down of 0, which the settings allow, asks
for no clean streak at all, and the property says so. `QuotaEnforced`: a settled
verdict keeps traffic away, through refreshes that cannot read the store too.

### Engine
One goroutine `run` (startup, `evaluate`, the reconcile tick) and a set of
request handlers (`Reconfigure`, `Revert`), with `reconfMu` and `applyMu` as
variables holding their owner. Kernel state is the main table (host route and
range route) and the probe table routes and rules; the database's latch and
settings survive `Crash`. A path's verdict (out, in, clean) comes from the
environment: Prober and Tracker are the modules that produce it, and selection is
reduced to priority with hold-down and pin, as Selection treats it in full.

Safety: `RevertHolds` (after a revert no route or rule of the settings reverted
is there, nor comes back until other settings are in force, a save that crashes half
way included, except what the revert's own commands failed to remove: the history
variable `left`), `ObserveMovesNothing`, `DeadMan` (a step that leaves the backend
without a route is a deliberate one, or the widening of section 6) and `SwitchIsReal`
(a switch becomes the engine's record only with the route already on its tunnel, so
that a failed install is tried again). Liveness: `RoutesSettle`,
`FailoverCompletes` (which speaks of the route, not of the record) and
`RequestsFinish`.

### Tables
What the same requests load into nftables: the published ruleset with the
query-cache redirects, the protection table, the blocklist table and its set.
Three goroutines, the portal's request, the refresher and the counter sampler,
with `blMu` between the first two only; commands and the persisted record of the
last armed load fail; tables are flushed by hand; the process is killed anywhere.
A list is a model value with a size, so the refusals of a list that shrank or
covers too much happen. The record of what is loaded is moved by `Revert` and by the
removal of a table whether or not nft took the command. `RedirectsAnswered`, `ListLoaded`, `ObserveHolds`.

### Edge
`BuildProtectRuleset` as operators from a settings record to the sets, chains and
rules of the table: interval merging and subtraction, name folding and suffixes,
region sets, the order of the rules. A name is a constant's entry in `Fold` (services) or
`FoldGeo` (regions, split at the underscores), so names may fold together, onto another's suffixed form or onto
the set of engaged locks, which `GeoSetName` moves a region away from. The kernel that runs the table is external:
a full dynamic set ends the rule and not the chain, and a limit counts per second.
`Loads` (nft takes a table whole or not at all: no set or chain twice, every set
declared, intervals apart), `OneLimitPerPort`, `NoneOverLimit` (also once the set
of parked sources is full) and `LockHolds` (a region lock lasts as long as its flood;
about rows of one port that no earlier lock covers, see section 6).

### QueryCache
One cached port: `serve` with the challenge, the cached reply and the per-source
budget; the refresher's round with challenges, fragments, late answers and
timeouts; `prune`; `Run` started again. The pacer's list is kept as the place of
each source in it (0: not listed). Stored times are ages, capped at the
longest span they are compared with. `ServedFresh`, `WithinBudget` (over any span
of time, although idle buckets are forgotten) and `PollsAreEarned` (the billed
tunnel is polled only for a source that saw its challenge, and at the pace).

### Backend
The responder hands decisions to the worker through a one-place mailbox, the
worker installs and then records, the control client's pushes replace the
configuration, plumb the reply tables and reassert the return path. `said[n]` is
the frontend's decision n; any decision ever said may arrive at any time, which
covers loss, duplication and reordering. `Crash` keeps the kernel's routes and
the cached configuration; an agent starts with any configuration cached, or none.
`NewestApplied`, `RepliesFollowActive`; liveness: `EndsAgree`, both ends on the path
last decided.

### Linker
The ticker's `apply` and `reconcile` and the session's `applyEgress`, command by
command: the pinned policy rules, the tables abandoned by a changed `linker.table`,
the return ruleset, the egress ruleset with its guard, and the revert command of
a stopped unit. The host has policy rules of its own on the same marks.
`EgressGuarded` (a marked packet never escapes by the host's own internet),
`NoMarkerLost` (the only evidence of an abandoned table outlives its route),
`RevertRestores` (a revert none of whose commands failed leaves the host its own rules,
and in no table it ever used a default of this system, except those in the history
variable `unmarked`, which no source rule points at; section 6), and liveness `Healed`.

### Metering and Ledger
One byte's life: kernel counter, delta, buffer and file, report, transaction
with the watermark, ack, removal. A connection that dies may leave its last
report being applied while the next connection resends it.

`Ledger` is the abstract specification the operator relies on: traffic is billed
some time after it was carried, each byte at most once, and what was billed stays.
`Metering` refines it with `billed <- ledger` (`ImplementsLedger`), through any crash,
as long as no file write failed before one (`FilesKept`; section 6 says what happens
then). Its two other properties say what an abstract ledger cannot: no byte is
released unbilled (`EveryByteOnce`: carried = billed + owed + not yet sampled +
deliberately given up), as long as the two files also were in step when the agent
died, and every report opens with the oldest usage of every path, however much a path the frontend can
never record has piled up (`NoneStarved`). That needs `BatchSize` to be at least the
number of paths; the code's 500 against a handful of paths makes it a fact.

### Control
Connections are reused model values: accepted, given a slot, a handshake, a
session of the backend or of a linker, and then released in the order of the
deferred calls. A peer may vanish silently, so that it redials while the server
still holds its old session. `NothingLeaks` (slots and shares are exactly those of
live connections), `PeersShown` and `PushedIsGot` (a save between a push loop's two
reads is pushed again, never missed).

### How they meet
Each module contains the part of its neighbours it can see, as nondeterminism at
least as wide as the neighbour's own module: Engine and Selection take any
verdict Tracker may give; Backend receives any decision Engine may have numbered,
in any order; Control's sessions die wherever Metering's or Linker's connection
does. Two modules share one piece of code where it has two faces: a save is
routes in Engine and nftables in Tables.

## 3. Runs and bounds

| run | bound | distinct states | asks |
|---|---|---|---|
| `prober` | 2 probes, 2 switches, 1 socket death, channel of 1 | 270 000 | every interleaving of the two goroutines; nothing stays unreported; a stop ends |
| `tracker` | time 8, 5 trips, durations up to 7, two settings, one without a maximum | 33 000 | streaks and breaker |
| `engine` | 2 paths, 3 tunnels, 2 concurrent requests, settings with and without a range, 1 crash, 1 failing command, 3 switches | 2 450 000 | safety |
| `engine_live` | 1 request, 1 link event, during which the commands through it fail, 3 changes of a verdict, 4 decision numbers | 424 000 | convergence; failover and failback |
| `backend` | 2 decisions, 1 push onto any cached configuration, 1 crash, 1 failing command or deleted tunnel | 323 000 | safety; agreement of the two ends |
| `metering` | 3 bytes on 2 paths, one never recordable, buffer of 3, reports of 2, 2 in flight, 1 crash or recreated interface, 1 failed write | 1 430 000 | refinement of Ledger; billing; starvation |
| `control` | 3 slots of which 2 per address, 4 connections, 2 silent deaths, 1 save | 1 250 000 | leaks; display; pushes |
| `linker` | 2 tables, 4 lists (one unusable, one empty), 2 pushes, 2 failures, 1 restart | 913 000 | leaks of traffic; revert; repair |
| `tables` | 2 saves, 1 failure, 1 crash, 1 change of the feed, 3 lists | 3 840 000 | kernel against record and sockets |
| `selection` | 3 paths, 1 metered; 2 changes of a verdict, score or period; 1 request or error | 2 700 000 | movement and quota |
| `edge` | every list of up to 2 services over 4 ports and lists of 3, 5 tables with everything on; 2 sources, set of 1, 5 packets a second; service names, region names and lock sets that fold together | 17 900 | the generated table |
| `qcache` | 2 replies, 2 clients and a spoofer, table of 1 source, 3 verified queries | 1 510 000 | freshness, budget, polling |

Why they suffice: a lost update needs two writers, a stale read one write in
between, a reordering two messages, and a boundary its value and the next; every
bound is at least that, and one more where a limit must be met and passed
(connections against slots and shares, sources against a set of one, deltas
against the buffer). Where one bound is shared by several kinds of event it
counts them together: in `backend` and `selection` what needs two of them at once is
covered by the proofs, which have no bounds; `metering` does without a recreated
interface and a crash in one history. Two paths and three tunnels let a path move to
an interface no other path uses. Three verdicts in `engine_live` let both paths be
eligible together and the one in use fail (failover), or the worse one come up first and the
preferred one come back clean (failback); a fourth decision number is left over, so that the
last of these switches is still judged. Three paths in `selection` are the preferred one
and two fallbacks that trade the lead. While the preferred one is out an active fallback has
one challenger there; that challengers taking turns do not restart the beaten clock is
shown by the theorem `BeatenLeaves`, which is about any set of paths. Hold-down and dwell are 1 and 2 ticks, so
that one ends before the other. In `edge` up to three overlapping rows over four ports
are enough for a cut in the middle of a range, touching and nested ranges, and
two names that fold together with a third that looks like their suffix. Symmetry
is used for request handlers, connections and clients only in runs without
temporal properties other than action properties. Runs that stop where their
bounds are used up say `CHECK_DEADLOCK FALSE`; the others check deadlock.

`PROJECT.json` names for every property a plausible mistake in the code (the
"as" definitions in the modules, such as `ParksAndDrops` or `ApplyUsageAcksAll`)
under which TLC finds that property violated.

## 4. Fairness

Weak fairness for goroutines that can run, strong fairness where a mutex must be
acquired against competitors (Go's mutex hands over to a waiter after 1 ms) or
where `select` chooses at random among ready cases. Tickers keep firing. Never
forced: requests, pushes, verdict changes, link events, failures, crashes, dial
and write outcomes, message delivery. The exceptions, each written beside its
specification:

- `EveryProbeLeaves` itself assumes that the engine reads the results channel
  (`Run`'s loop does); `StopTerminates` does without it.
- `Backend`: a probe carrying the current decision keeps arriving, as long as one
  tunnel delivers (every prober stamps every probe).
- `Linker`: the ticker and the session's goroutine run on; `Healed` speaks of a
  unit that is not stopped any more, and failures are finite as bounded.
- `Tables`: requests and refreshes that have begun go on. Its properties are
  safety properties and do not depend on it.

Selection, Edge, QueryCache, Metering, Control and Tracker are checked for safety
only.

## 5. Proofs

| theorem | states | inductive invariant |
|---|---|---|
| `ProberProofs!Delivery` | types, `NoProbeForgotten`, `InOrderOnce` | `IndInv`: the next number to hand on lies between the seed and the last drawn; what is in the hand of the sender or out in the channel lies below it and is ordered; every other number is pending or resolved; between a refused write and its booking as lost the number is still ahead |
| `ProberProofs!InOrderNoGap` | `Delivered` | `Delivery` and `NoGap`: only a stop or a dead socket drops results, and until then what left is an unbroken run |
| `ProberProofs!NudgeCarriesDecision` | `DecisionCarried` | adds where each caller of `flush` may continue, and that a token in the channel or a build in progress covers the last decision |
| `ProberProofs!RoundTrip` | `AnsweredMeansRoundTrip` | adds that every number resolved or handed on as answered was echoed; a stale reply has a nonce no pending probe holds |
| `ProberProofs!CleanStreak` | `CleanIffUp` | `CoreInv`, the streak, health and clock together |
| `ProberProofs!BreakerNeverOverflows` | `CooldownInRange` | the cooldown function is clamped at every level (`CooldownClamped`) |
| `ProberProofs!ReleaseNeverComesForward` | `NeverReleasedSooner` | `ReleaseInv`: the release in force was set by the last trip, at a time that is not in the future and one level lower; and that the doubling grows with the level |
| `ProberProofs!BreakerCatchesFlaps` | `FlapsAreCaught` | `TailInv`: the tracker's list is the tail of all condemnations since the last reset; `PrunedInv`: what was pruned from it had left the window by the last condemnation, and the list is short of the threshold |
| `BackendProofs!RecordedIsInstalled` | `ActiveIsNamed` | every decision in the mailbox or in the worker's hands is one the frontend said |
| `BackendProofs!NewestWins` | `NewestApplied` | what was heard is applied, pending with a wake-up under way, in the worker's hands, or given up |
| `BackendProofs!RepliesOnActive` | `RepliesFollowActive` | relates the active path, the reply tables and the writer at work |
| `BackendProofs!ObserveIsInert` | `ObserveMovesNothing` | from the types |
| `EngineProofs!RevertStays` | `RevertHolds` | `Locks` (who holds `reconfMu` and `applyMu` at each step), `Quiet` (once the latch is set nobody is past the check of it), `TakenDown` (what the revert has removed so far, or failed to) and `Down` (the property with the latch in memory and on disk) |
| `EngineProofs!SwitchesAreReal` | `SwitchIsReal` | `Installed`: between the install and the record `applyMu` is held, so the main table has the chosen tunnel unless a deleted link took it |
| `EngineProofs!ObserveInert` | `ObserveMovesNothing` | adds `ModeRead`: an evaluation about to write has the mode of the settings in force, as a swap needs `applyMu` |
| `EngineProofs!RouteHeld` | `DeadMan` | types only: each writer of the main table puts an interface where it takes one away |
| `EngineProofs!TypesHold` | `TypeOK` of Engine | the walk over the paths finds a configured one; a decision number is reserved between the choice and the commit |
| `ControlProofs!NoLeak` | `NothingLeaks` | slots and shares are the cardinalities of the connections that hold them, and the accept loop's own claim is for the one it has not decided on (`SlotsInv`, `ShareInv`, `AcceptorInv`) |
| `ControlProofs!ShownIsServed` | `PeersShown` | the backend's sessions are counted (`BackendInv`); a linker's are numbered apart and each below the counter (`NumberInv`) |
| `ControlProofs!PushesArrive` | `PushedIsGot` | a push loop exists only in a session, and a version read or pushed is one that was saved (`PushInv`) |
| `ControlProofs!LimitsKept` | at most as many connections as slots are served, at most its share per address | counts go up only below a limit, and `NoLeak` says the counts are the connections |
| `ControlProofs!TypesHold` | `TypeOK` of Control | both of the above, and the backend's count |
| `LinkerProofs!EgressGuard` | `EgressGuarded` | `Phases` (one thread in applyEgress, a revert alone) and `Guarding` (the guard is built before the table loads, and a thread taking it down has said so) |
| `LinkerProofs!MarkersKept` | `NoMarkerLost` | from the types and what each removal does (`WithdrawEffect`, `RemoveEffect`) |
| `LinkerProofs!RevertComplete` | `RevertRestores` | `HostKept` (the host's own rules are never touched), `Reverted` (what each command of a clean revert has left) and `Evident` (a default of this system has a source rule pointing at it, is `unmarked`, or is the one the revert is about to delete) |
| `SelectionProofs!QuotaHolds` | `QuotaEnforced` | `Settled`: a settled path is blocked and over its limit, and a refresh under way will find so or keep the verdict it read |
| `SelectionProofs!LeavingHasAReason` | `LeavesForAReason` | `Clocks`: the record of the last switch is when the traffic moved, and the beaten clock is at least as old as the streak of decisions that found it so; a choice is an eligible path or a pin (`TargetIs`) |
| `SelectionProofs!BeatenLeaves` | `BeatenIsLeft` | `Clocks` again, and that a best score exists |
| `QueryCacheProofs!FreshServed` | `ServedFresh` | `Freshness`: a cached reply is older at the server than in the cache by no more than the round trip that fetched it, which has a deadline |
| `QueryCacheProofs!PollsEarned` | `PollsAreEarned` | `Polling`: the demand on record is what verified sources asked for, and no fetch is on record as having ended earlier than it did |
| `QueryCacheProofs!BudgetHolds` | `WithinBudget` | `Budget`: the bucket of a listed source never holds more than an untouched budget would allow, and a source that was forgotten has earned its whole burst |
| `QueryCacheProofs!RedirectsHaveSockets` | `RedirectsAnswered` of Tables | `StoreInv` (what a restart would find at each stage of a request) and `RecordInv` (what is redirected is recorded, or is about to be loaded again) |
| `QueryCacheProofs!ListStaysLoaded` | `ListLoaded` of Tables | `LockInv` (who holds `blMu` when, and that what the refresher read under it stays true) and `HeldInv` (a list this process loaded is in the set, or its load is still to come) |
| `QueryCacheProofs!ObserveTakesOnly` | `ObserveHolds` of Tables | `LockInv`: a load under way has the mode in force |
| `MeteringProofs!NoPathHeldUp` | `NoneStarved` | types only; the argument is about `PendingBatch`: the shares fit the batch, each path with usage gets at least one place, and the places taken are a prefix of the path's own |
| `MeteringProofs!BilledAtMostOnce` | `ImplementsLedger` | `BooksInv`: every delta about stands for a stretch of what the path carried, the stretches follow each other in the order of their numbers, and those above the watermark begin after what is billed; a crash sets the meter back to a place the state file is consistent with, one number at most |
| `MeteringProofs!BytesAccountedFor` | `EveryByteOnce` | `StepInv`: a path's deltas are in order and numbered once, a report brings all that is owed up to its last number, the buffer's file owes what the buffer owes, acknowledgements are at or below the watermark, and the balance holds |
| `MeteringProofs!LimitsHold` | `NoneOverLimit` | `RulesOk` (no two limits of the generated table count in one set) and `LimitInv`: what passed under a limit is at most what its set has counted, and no count runs past the limit by more than one |
| `MeteringProofs!LocksHold` | `LockHolds` | `RulesOk` (what stands before a trigger are drops by a packet's own form, parked sources and locks of earlier rows) and `LockInv`: a trigger counts every packet that reaches it (`SeesAll`), and one over its rate has engaged its lock in the same second (`Engaged`) |

They hold for every set of paths, interfaces, connections, clients and
configurations, every bound, any seed and capacity, from the ASSUMEs of the modules
alone: numbers are naturals, `None` is not an interface, `MaxDuration` is positive,
configurations have the shape the settings validator enforces, there are finitely
many paths and connections at a time, scores have a worst one, a cached port has
at least one kind of reply, a report has room for one delta of each path, a folded
name is not empty, and a region lock lasts a second or more. None of the safety invariants is inductive alone: each
speaks of a quiet moment (a flush done, a worker idle, a lock free) and needs to know
what holds in the middle. `Delivery`, `CleanStreak`, `BreakerNeverOverflows`, `RecordedIsInstalled`,
`ObserveIsInert`, `LimitsKept` and `TypesHold` state properties no run checks; they are the ground
the others stand on.

Metering shows best why an invariant has to be stronger than what it is for. That no
path is billed more than it carried is a comparison of two numbers, but what keeps it
is the watermark, which compares other numbers: those of the deltas. `BooksInv` ties
them by giving each delta, wherever a copy of it is (buffer, file, any report in
flight), the place in the path's traffic where its bytes end. A resend is then a
stretch at or below the billed one, a sample a stretch after all others, and a
repeated number after a crash a second stretch for one number, which ends later and
of which only one can be billed. `EveryByteOnce` needs the opposite bound, that
nothing is passed over, and with it that numbers are never used twice; hence its
precondition that the files were in step, which `ImplementsLedger` does without.

The edge protection is a program that writes a program, and its proofs have two
layers. `RulesOk` is what the generator guarantees for any settings: that names which
fold together still give every limit a set of its own (`NamedIs`, over the suffixes),
and that the raw chain keeps its order however many rows and regions there are
(`LocksInOrder`, over the flattened list of rules). The second layer follows one packet
through any such table: `Way` is the walk from rule to rule, and what a rule does is
carried to the end of the walk by the lemmas on the rules before and behind it
(`SeenOnce`, `HitsOnce`, `LockStays`, `DropStays`, `Uncovered`).

Loops are modelled as recursive functions. `Induction`, which is about a set of
numbers and takes no operator parameter, gives them their equations
(`WalkExists`, and the lemmas on the doubling), and with them the facts about
sums, tallies, selections, names and packets that the steps cite. `ProberProofs`,
`QueryCacheProofs` and `MeteringProofs` each hold the proofs of two components (the last
one, Edge's, because both walk sequences by the same lemmas), which is why Tracker,
Tables, Metering and Edge name their specifications `TrackerSpec`, `TablesSpec`,
`MeteringSpec` and `EdgeSpec`.

What the proofs found. `LeavesForAReason` was false for a hold-down of 0 and
`RevertHolds` for a save that crashes before its settings are in force (it spoke of
the settings in force rather than of those reverted); neither was within the bounds
of the runs. Both now say what the code does. `DeadMan` names its one exception
instead of leaving it to the settings of the run. `ImplementsLedger` was false when a
file write fails before a crash: its proof stopped at the crash after two failed
writes, which the run's bound of one excludes. It now has the same `FilesKept` as
`EveryByteOnce`, and section 6 has the history. `LockHolds` was false for overlapping
rows, and its proof stopped where an earlier row's drops stand before a trigger; it now
says `FirstLock`, and the run has such a pair of rows.

Only model-checked, and why:

- `EveryProbeLeaves`, `StopTerminates`, `RoutesSettle`, `FailoverCompletes`,
  `RequestsFinish`, `EndsAgree`, `Healed`: liveness under fairness, which this prover
  cannot do.
- `OneLimitPerPort` and `Loads` of Edge: both depend on what sorting, merging and
  subtracting lists of ranges computes, which is induction over data, with the
  library's folds, sorting and flattening behind an operator parameter that the prover
  cannot instantiate. The run goes through every small list of services instead. One
  part of `Loads`, that no two limits share a set whatever names fold together, is
  proved on the way to `LimitsHold`.

## 6. Where code and words differ

No run is expected to fail. The models follow the code; these are the places where
following it meant departing from a comment or a document, found while modelling
or as counterexamples to a stronger statement that was then weakened. Each shows
in the precondition of the property named, or in the settings its run uses.

- *Adoption at restart.* With `overlay.subnet` set, a restart asks the kernel for a
  route to the backend's address (`sysx/route.go:486`) and gets none, as the route
  installed is the range; the engine starts with no active path although
  `sysx/route.go:484` says the function reports the interface in use.
- *Widening at startup* (`DeadMan`). After `overlay.subnet` is saved and the process
  restarts, startup deletes the host route before any path is usable
  (`engine/engine.go:1192`), against the dead-man rule of `REFERENCE.md:181`. The
  same happens when the command that installs the range fails. The property
  excepts exactly this step (`Widens`).
- *Revert* (`RevertHolds`). `REFERENCE.md:277` says that `failoverctl revert` removes
  every system change, but `Revert` (`engine/engine.go:2662`) goes by the paths of
  the configuration in force: probe routes of a path that an earlier save took out
  of the settings stay. The property speaks of the paths of the settings reverted.
  And every removing command's error is dropped (`engine/engine.go:2639-2666`,
  `sysx/route.go:1066-1101`): a route or ruleset whose removal failed stays, nobody
  tries again because of the latch, and the event still says "reverted: nftables table
  and policy routes removed" (`engine/engine.go:2698`), as does `REFERENCE.md:185`.
  The property excepts what a removal failed on (`left`), nothing else.
- *Orphan default of the linker* (`RevertRestores`). When the source rule cannot be added
  the agent goes on and installs the default route (`apply`, `linker/linker.go:356-363`, and `reconcile` alike). Stopped then, and
  started again or reverted with another `linker.table`, it knows nothing of that table,
  as the rule is the only evidence: no revert removes the route, although
  `sysx/linker.go:355` promises to take down "everything EnsureLinkerRule and
  EnsureLinkerRoute installed" and `:285` calls such an orphan "the permanent misroute". A
  revert whose own route delete fails ends the same way. The property excepts the
  tables this happened to (`unmarked`).
- *Sequence numbers* (`EveryByteOnce`). A crash between the two file writes of a
  sample (`agent/meter.go:151` and `:153`) makes the next sample reuse its number,
  against `engine/control.go:729`; the bytes of the second of the two are never
  billed. Never overbilled: `ImplementsLedger` has no precondition on the order of the
  two writes.
- *Failed file writes* (`ImplementsLedger`, `EveryByteOnce`). `persist` and `save`
  (`agent/meter.go:298`, `:318`) log a write that fails and go on, so memory, and the
  reports made from it, run ahead of both files. If both writes of a sample fail, the next
  sample is reported together with it, and the agent dies before writing that one, it
  starts again from the older numbering while the report is in flight: the bytes of both are measured again as one delta with the
  first number. When that one is recorded first, the report in flight is then taken for
  its second delta, and its bytes are billed twice. A full buffer that drops its oldest
  delta can do the same with a single failed write. The comment at
  `engine/control.go:961` says that the watermark keeps resends from double-counting;
  it does for resends, and not for bytes measured again under other numbers.
  `FilesKept` excludes a failed write followed by a crash, nothing else.
- *Retry against push* (`Healed`). `retryEgress` (`linker/linker.go:268`) copies
  `egressWant`, unlocks, and hands the copy to `applyEgress`, which stores it as the
  list wanted: a push in between is overwritten, so `egressWant` is not always "the
  last list the frontend pushed" (`:39`). A removal whose nft command fails is
  silent and recorded as done. `Healed` speaks of the list the agent wants.
- *Pins and quota* (`QuotaEnforced`). A pin is refused for a path over its quota
  (`engine/engine.go:764`), but one set before stays in force when the path runs over
  it, ceiling included, although `quota/quota.go:6` calls such a path not selectable.
  Likewise, when nothing is eligible the route in place stays, over its quota or not:
  the dead-man rule of `REFERENCE.md:181`. The property is about the passes that choose
  a path of themselves. A pin, or an hour with nothing eligible, leaves `beatenSince` running.
- *Redirects* (`RedirectsAnswered`). An armed save whose nft load fails starts the
  query-cache sockets of the new settings while the kernel keeps the old redirects. A
  revert clears the record of the redirects also when the nft command that was to remove
  them failed (`engine/engine.go:2639-2647`), although the comment there says that "the
  redirects went with the ruleset"; a save in observe mode then binds nothing while they
  stay. Both set `stale`, which the property excepts, as it does a start held by the
  latch of a revert that was killed half way (`reverted`).
- *Sampler* (`ListLoaded`). A sampler that read "table missing" before an apply and
  records it after makes the agent believe the table is gone; the next refresh that
  is told "not modified" loads nothing. After a restart whose apply fails over an
  older table the set may also be stale. The property speaks of a list this process
  loaded and nobody denied since.
- *Overlapping locks* (`LockHolds`). `sysx/protect.go:959-966` puts a trigger before
  the drops of its own lock so that "it sees the whole flood". Of two rows that share a
  port the drops of the earlier one still stand before the trigger of the later one,
  which then misses what they drop and lets its lock go mid-flood. Only settings saved
  before `web/api.go:965` refused such rows can hold them; the generator keeps loading
  those. The property speaks of ports no earlier lock covers (`FirstLock`).
- *Region names that fold together* (`Loads`). Of two regions whose names fold onto one
  set the first one's list fills it, and the locks of both look it up
  (`sysx/protect.go:852-862`); settings saved before `web` refused such names can hold
  them. The table loads, which is what the property is about. With a blank public
  interface protection that is switched on renders nothing at all
  (`sysx/protect.go:112`), and `OneLimitPerPort` says nothing then.
- *Query-cache windows* (`ServedFresh`). The floor of three refresh intervals for
  the window does not count the upstream timeout: with a refresh of 500 ms and a
  window of 1.5 s a single fetch that times out after 2 s darkens a healthy port,
  although `qcache/qcache.go:71` wants a failed fetch "retryable inside it".
  `collect` does not compare the ids of fragments; a network that duplicates
  datagrams is therefore not modelled.

## 7. Not modelled

Inside modelled components: the tracker's RTT, jitter and loss statistics (they
appear as a score); shaping and egress steering through the frontend; linker
steering, marking and the bound on implausible decision numbers of the backend;
clamps and absolute limits of metering; quota calendar arithmetic; datagram
layouts of the query cache; the cryptography of the control channel.

Whole components: the control protocol's frames (a session that is altered,
replayed or reordered ends; Control and Metering model the end), the generation of
the published ruleset's text and of tc commands, the store's queries, settings
validation, the notifier, the portal's handlers and the commands. They are text
processing or thin layers without interleavings of their own and stay with the
unit tests; the operations the portal and the commands call are actions of Engine,
Selection, Tables, Backend and Linker.

## 8. Plan

Done, in this order: Prober, Tracker, Engine, Backend, Metering, Control with the
first proofs; then Linker, Tables, Selection (with quota), Edge, QueryCache and the
refinement of Ledger.

Proved since: the safety properties of Engine, Control, Linker, Selection and
QueryCache, then those of Tracker, Tables and Metering with the refinement of Ledger,
and the two of Edge that are about packets. Every safety property a run checks is a
theorem, except the two on Edge's lists of ranges.

Left:

1. Edge: interval merging and subtraction restated as recursive functions, so that
   `Loads` and `OneLimitPerPort` come within reach of the method of `MeteringProofs`.
2. Modules still worth writing: the session's frame counters (what is accepted is a
   prefix of what was sent), the bound on decision numbers, and Engine and Backend
   composed over the probes.
