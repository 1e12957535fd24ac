# A verification development for urd

`urd` is a backup tool for BTRFS: it takes read-only snapshots, sends them to
removable drives, prunes both ends, and shrinks its own footprint when the
source pool runs out of space. This directory holds TLA+ models of the code
under `src/src`, the TLC configurations that check them on small instances, and
proofs for TLAPS. Paths below are relative to `src/src` unless they start with
`docs/`.

## 1. The system

### Components

| Component | State it keeps | Operations | What makes it correct |
|---|---|---|---|
| Planner (`plan/`, `arming.rs`) | none: a pure function of listings, pins, the clock and the armed tiers | `plan`, `plan_transient_lifecycle`, `plan_external_send`, `plan_local_retention`, `plan_external_retention` | no operation may cut a chain or remove what is not stored elsewhere; an interrupted send is tried again |
| Executor (`executor/`) | per subvolume: failed creates, drives tried, drives that succeeded, old parents, pin failures | `execute`, `execute_send`, `execute_delete`, `attempt_transient_cleanup`, `shed_away_pins`, `emergency_reclaim_pool` | a pin names a complete copy; a pinned snapshot is never deleted; the cleanup needs every send |
| Pins (`chain.rs`) | one file per drive beside the local snapshots | read, strict read, write (rename), remove, re-read at delete time | unreadable means "everything may be pinned" wherever something is deleted |
| Btrfs (`btrfs.rs`) | the snapshots on both ends, the pump | `send_receive`, `subvolume_exists`, `received_uuid`, `delete_subvolume` | a failed receive leaves nothing or a partial; a cancelled send ends |
| Lock (`lock.rs`) | an flock | `acquire_lock`, `try_acquire_lock`, drop | one process deletes at a time |
| Watchdog (`commands/backup/watchdog.rs`, `executor/coord.rs`, `guard.rs`) | in-flight root, tripped roots, cancel flag, firings, first samples | poll, trip, abort, reclaim, record, stop | no reclaim beside a send of its pool; no abort lost; every trip answered |
| Backup command (`commands/backup/`) | the run: arming, plan, lock, threads | arm, plan, lock, pre-flight, re-plan, execute, tear down | the order of these steps |
| Emergency (`commands/emergency.rs`, `preflight.rs`) | none | walk, candidates, delete | keeps the newest and the pinned |
| Tiers (`storage_critical.rs`, `commands/storage_signals.rs`) | armed tier per pool, with hysteresis, in the database | gather, `transition`, `derive_effective_policy`, write back | no flapping; a pool under its floor is watched; Critical keeps a connected chain |
| Retention (`retention.rs`, `plan/local.rs`, `plan/external.rs`) | recorded shapes, in the database | graduated, space-governed, emergency, the change gate | what was kept stays represented as the recorded retention asks; a tightening is held until confirmed |
| Awareness (`awareness/`, `advice.rs`, `rotation.rs`) | none: judges what it is given | `assess`, `assess_view` | PROTECTED bounds what a restore loses; what it warns of the planner acts on |
| Sentinel (`sentinel.rs`, `sentinel_runner/`) | a second process: mount map, timers, eject state | detect, assess, eject under the lock | never deletes beside a run; ejects only confirmed pressure |
| Recorder (`recorder.rs`, `run_tail.rs`) | events, heartbeat | record, dispatch or mark | a promise change is notified once |
| State database (`state/`) | in SQLite: sends, armed tiers, retention shapes, history | inserts and queries, each of which may fail | a lost row makes the next run careful, never bold |
| Drives (`drives.rs`, `rotation.rs`) | tokens on the drives | availability, adoption, tokens | a swapped drive is not written to |
| Observation, configuration, encounter, other commands, output | none, or one interactive process | reading, deriving, rendering | (data, not control) |

### Interaction

A run arms the tiers and **plans before it takes the lock**. Under the lock it
may thin locally and plan again, then the executor walks the plan, one subvolume
and one operation at a time, re-reading the pins before each delete. The pin
files are the only shared memory between runs; the snapshots on both ends are
the truth. Inside a run the watchdog thread shares one locked cell, one flag and
one list with the main thread. Drives come and go at any time. Nothing that
matters is transactional: a run may be killed between any two steps, and the
next run must make sense of what it finds.

Three tables carry something from run to run: the tier each pool was armed at, the
retention each subvolume was last pruned under, and the time of each successful
send. The planner decides by the dates of the snapshots it lists; awareness judges
by the recorded sends. The sentinel, a second process, samples the pools by a timer
and sheds one itself when no run holds the lock.

### What is hard

The list with its lines is in `PROJECT.json` under `hazards`. In short: the
order of the watchdog's and the executor's accesses to three shared cells; a
plan that is older than the lock; a check and a delete in two steps; a crash
between a receive and its pin; one of several drives failing; queries whose
failure reads as "absent" or "empty"; a partial copy that looks like a copy; space
that was read before the lock and acted on after it; a retention that changes between
runs; two clocks (dates of snapshots, times of sends) over a wall clock that may be
set back.

## 2. The modules

| Module | Models | Grain |
|---|---|---|
| `WatchdogRun` | the watchdog thread, the executor's side of the coordination, the teardown | every critical section, every atomic access and every blocking call is one action |
| `BackupRun` | planner, lock, pre-flight, executor, pins and both ends, for one subvolume and several runs | every system call with a lasting effect is one action |
| `ChainStore` | abstract: what snapshot directories and pins promise | take, store, anchor, forget, drop |
| `Reclaim` | `emergency_reclaim_pool`, both tiers, over the subvolumes of one pool | every system call with a lasting effect is one action |
| `PoolPressure` | the tiers of the pools, the arming of a run, the sentinel's idle eject | every reading of space and every write of the record is one action |
| `Retention` | the thinning of one location, as operators | pure |
| `RetentionHistory` | one location of a subvolume over many runs and edits, with the retention-change gate | a run plans in one action and deletes in one, with any subset failing |
| `Promise` | the planner's intervals against the judgement of awareness, over many runs | a run plans in one action and sends in one action per drive |
| `SentinelGate` | the tail of a backup run and the sentinel's rounds, over the heartbeat, the state file, the lock file and the event log | every read or write of a shared file is one action |

`MC<Module>` holds the values TLC gives to the constants, `<Module>Proofs` the proofs
(section 5; `TimelyProofs` holds those of `Promise` that are about the timer).
`WatchdogRun`, `BackupRun` and `Reclaim` stay on one side of the lock each and look at
one run closely; `PoolPressure`, `RetentionHistory` and `Promise` look at what one run
leaves to the next, and take a send or a delete as one step.

### `WatchdogRun`

`epc` is where the main thread stands: between subvolume groups (`groups`), in a
group between operations (`ops`), with the cancel flag reset (`armed`), inside
`send_receive` (`sending`), back from it with the root still published
(`exited`), and so on to the teardown (`join`, `drain`, `reclaim`). `wpc` is the
watchdog: polling, about to store the abort, reclaiming, about to record. The
lock over `WatchdogCoord` is not a variable: what happens under one acquisition
is one action (`StartGroup`, `PublishInFlight`, `ClearInFlight`, `PollTrips`),
and what happens after it was released is another (`StoreAbort`). Free space is
three levels per pool and moves by itself. `below` is the first sample of a pool,
which degrades its floor. The pool's `done` mark is the set of pools with a
firing.

`RootsOf` is what an armed pool carries: the roots of its subvolumes that send. A
subvolume that only keeps local snapshots, under another root of the same filesystem, is
not tripped with it, so a reclaim may run beside its creates and deletes. Nothing is
shared there: the reclaim deletes snapshots of subvolumes that send only.

A poll sweep is not a loop of its own: a pool may be sampled whenever the
watchdog polls, which only adds orders. The byte pump and the waits for the
children appear by outcome: the send ends, or it sees the flag and is cancelled.

### `BackupRun`

`local`, `ext` and `pin` are the disk; `mounted` the drives; `now` the clock.
A snapshot is the minute it was taken at, because names sort by time. A copy on a
drive is absent, partial (no `Received UUID`) or complete. A pin is a snapshot,
no file, or a file that cannot be read. Each run has a `pc`, its `plan` and the
bookkeeping `acc` of `execute_subvolume`.

`MakePlan` is the planner. What it may never plan is exact: the parent needs both
ends, the newest snapshot is what is sent, a drive that lists the name is
skipped, retention stays off `Protected`, deletes on a drive stay off the pins,
transient creation needs a sendable drive. What timing, sizes, tokens, guards and
windows decide is a free choice of subsets. A listing that fails reads as empty.

A send is `SendTurn` with its alternatives in the order of `execute_send`: skipped,
refused, already there and pinned, complete and unpinned, partial, or free; then
the sweep and the receive, its end, its cleanup, the pin. A delete is the re-read
of the pins (`CheckLocal`, `CheckExt`) and, as a second step, the delete.

### `ChainStore` and `Reclaim`

`ChainStore` says what any part of the program that deletes local snapshots has
to keep: a snapshot leaves only while no drive is anchored to it, and only from a
subvolume that is stored on a drive. It knows no tiers, no files, no failures.

`Reclaim` is one pool. `pc = "run"` stands for what a backup run does to the pool
before the pool is handed over: it freezes the map of sheddable pins (`away`,
`RunBegins`), takes snapshots, sends, writes pins or fails to. Then the watchdog
or the teardown calls the reclaim with that map confirmed against the drives that
are back (`ReclaimBegins`), or the sentinel's idle eject calls it with a fresh one
(`EjectBegins`). `Gate`, `Pick`, `ShedPin`, `ReRead`, `DeleteSnapshot`, `PassEnds`,
`TierOneEnds` follow `emergency_reclaim_pool` and `shed_and_delete_unpinned` in
order, each with its failure: a pin that is unreadable (`Pick`, `ReReadFails`), a
removal that fails (`ShedFails`), a delete that fails (`DeleteFails`), a free-space
probe without an answer (`Gate`). An unreadable pin file keeps what it names in
`pin` and is marked in `rotten`, so that a property can speak of the chain the file
stood for. Drives come and go and free space moves at any time, so which drives a
step finds and what it measures is a choice of the step. Nothing else touches the pool in the meantime: the lock keeps other
processes out, and that the executor of the same run is elsewhere is
`ReclaimDisjointFromExecutor` of `WatchdogRun`.

Three variables are history and guide nothing: `present` (the drives seen when the
map was confirmed), `chained` (the subvolumes that had a pin at the gate),
`trouble` (something failed). `offsite`, too, is read by no action; the code has no
such record and takes the pins for it (end of section 6).

### `PoolPressure`

`free` is the space of each pool, in levels; `sheddable` the pools that have something
to delete; `armed` the table `pool_armed_tier`; `lock` the holder of the run lock. `pc`
and `arming` are the runs, `eject` the sentinel, `starts` a bound.

A run reads its pools *before* it takes the lock (`Gather`: a pool may be dark, the
record unreadable), which resolves a tier for each. Then it gets the lock or is refused
(`AcquireLock`, `Refused`), has nothing to do (`EmptyPlan`) or starts the watchdog over
the pools whose tier it resolved above Roomy, if they can be measured (`ArmWatchdog`). Sends take
space (`SendFrom`), the watchdog sheds (`WatchdogReclaims`), the tail writes the tiers
of the gather back (`WriteBack`) or fails before it does (`TailFails`), and a run may be
killed anywhere (`RunKilled`). The sentinel samples (`Sample`), queues the low pools,
tries the lock (`EjectLock`, `EjectDefers`), reads the space again under it
(`Reconfirm`) and sheds (`ReclaimPool`), pool by pool, or is killed. The code takes its
queue in order, `EjectLock` any pool of it, which contains that order. `SpaceMoves` is
everybody else.

`Resolve` is the resolution of a tier: the headroom gate in front (`GateForcesRoomy`),
the ratio with its sticky release (`ByRatio`), the floor (`Classified`). `lowSince` is
history: the pools seen low under the present hold of the lock.

### `Retention` and `RetentionHistory`

`Retention` translates the algorithms: the five cutoffs, the window each snapshot falls
in (`Windows`), what a slot gives up (`Thinned`), what the space-governed walk may take
besides (`Extras`), and when one shape is tighter than another (`TiersTightened`). The
calendar is a constant: `Slot` says which hour, day, week, month and year an instant
is in, `Ticks` how long a grain is. A snapshot is its instant.

`RetentionHistory` is one location: a local directory or one on a drive. A shape of
retention has two halves; `this` rules the location, `other` is the second one, a
number that is larger the more it keeps. `row` is the subvolume's row of
`retention_shapes`. A run begins by planning: `Prune` for graduated retention,
`PruneTransient` for transient, `RunOfOtherHalf` where its filter leaves this location
out. `Pending` and `Held` are the gate, `Withheld` what it takes out of the plan,
`Recorded` what it writes. `RunEnds` carries the plan out, with any deletion failing;
`Killed` stops in the middle, and also stands for a record that cannot be written. The operator edits (`Edit`), the clock ticks or is set
back. `mark`, `under` and `settled` are history: a snapshot the location kept under
some recorded shape, the policy the half was last applied as, and whether the present
configuration was confirmed.

Abstracted: months and years have a fixed length; at most one snapshot is pinned, the
oldest or the newest; planning and deleting happen under one value of the clock; a copy
that arrives on a drive is dated now; whether the transient route creates is left open;
a run whose filter leaves the subvolume out is a stutter.

### `Promise`

One subvolume that is sent, and the two ways its state is read. `newest`, `listed`,
`pin`, `sent` are ages by the wall clock: of the newest local snapshot, of the newest
one each drive lists, of the pinned one, of the last recorded send. `newestLag`,
`pinLag`, `copyLag` are the truth beside them: the real time since the source first
changed after that snapshot was taken, that is, the work a restore would lose; `Same`
while it has not. `held` are the drives that list the newest local snapshot.

`RunBegins` plans at one instant: what is due (`SendDue`, `SnapshotDue`), whether the
snapshot is made, which drives get it, what the tier clears. The sends follow one by one
(`SendSucceeds`, whose pin or record may fail; `SendFails`, with or without a partial),
while time passes. `RunEnds` carries out the planned deletions (`Drops`) and then the
clear-all of Critical (`Clears`): it removes the pins of the drives it served, some of
which may stay, and deletes only when all are gone; a deletion that fails leaves the
snapshots and the pins lost. `ShutDown` leaves the operations that remain, not the
cleanup; `Killed` stops anywhere. When the newest snapshot is deleted, `NextNewest` says
what takes its place: nothing, one that a pin names or named, or one kept as unsent, an
age of `Gaps` older. A successful send is recorded under the time the run *started*, and
the record read back is the latest by date. Filters (`--local-only`, `--external-only`,
`--force`) are the kinds of a run. The world waits, sets the clock back, changes the
source, plugs, unplugs and empties drives, moves the pool between its tiers.

`CopyStatus`, `LocalStatus`, `Assessed` and `Status` are `assess` and `assess_view`: both
halves, the unchanged source, the relaxation of an offsite drive on its rounds, the cap
at Critical, the overlay of fortified. `Mishap` bounds what goes wrong in a behaviour:
failures, kills, unusual runs, drives that move, a pool that moves, a clock set back.
`excused`, `unrecorded`, `steady`, `since` and the lags are history: only the properties
read them, but for the unchanged source (a generation comparison, `known`), which the code
can see too.

### `SentinelGate`

Two processes that never talk decide who announces a promise change and who
records it. `run` is the backup (`pc` from the lock to the end of the tail, in the
order assess, heartbeat, gate, promise diff), `sen` the sentinel (`pc` from the
events of a round to the state file). They share `heartbeat` and its mtime
`beats`, the pid in the state file (`file`), the pid in the lock file (`meta`, which
outlives its lock) and `status`, what an assessment finds. `status` also says which
run restored the promise, so that a property can ask whether two announcements are
of the same change; only the properties and the histories read that part.

`DeferToSentinel` and `Dispatch` are `gate_dispatch`; `MarkDispatched` bumps the mtime,
so the sentinel sees a second completion. `Poll` turns events into a trigger
(`pick_transition_trigger`), `ReadPromise` takes the assessment, `Decide` looks into the
lock file (`BackupRunActive`), announces and moves the baseline, `Publish` writes the
state file, which may fail, and flushes the record. Both processes may be killed
anywhere; a new sentinel has no state file until its first assessment is over, and
takes the first heartbeat it ever sees in silence (`BeatSeen`).

`Init` has every leftover: a heartbeat, a dead run's pid in the lock file, a dead
sentinel's state file. Left out: more than one subvolume, the third promise value and
the all-unprotected notice, health, overdue and drive notices, an unreadable event
log, a metadata write of the lock that fails or is seen half-way, and pids that are
used again.

`told`, `failTold`, `deferrals`, `recorded` are what the user and the log got; `knew`,
`unread`, `beatless`, `sen.firstBeat` and `sen.ended` are history that names the cases
the code accepts. They are in the properties because those cases are real (end of
section 6).

## 3. The runs

| Run | Checks | Instance | Shows |
|---|---|---|---|
| `watchdog` | `TypeOK`, `ReclaimDisjointFromExecutor`, `TeardownReclaimsAlone`, `AbortSurvivesReset`, `EveryTripAnsweredAtExit`, `AbortStopsTheSend`, `RunEnds` | 4 roots, 2 armed pools, 3 groups of at most 2 sends | the safety of the coordination; an abort ends the send it caught, no thread waits for ever |
| `watchdog_bleed` | `AbortStaysInItsPool` (violated) | 2 groups, 1 send | section 6, A |
| `backup_lock` | `TypeOK`, `PinNamesCompleteCopy`, `PinnedSnapshotNotDeleted`, `DestinationDeleteNeedsProof` | 2 runs, 1 drive, 2 snapshots, tight | two processes, stale plans, crashes |
| `backup_graduated` | `PinHasLocalParent`, `LastCopySurvives` | 1 run at a time, 1 drive, 3 snapshots, roomy; queries fail, pins rot | chains and the last copy survive bad answers |
| `backup_tiers` | `PinHasLocalParent`, `CleanupAfterEverySend` | 1 run at a time, 2 drives, 2 snapshots, every tier | the cleanup of transient runs: after every send, and after every pin has followed or is gone |
| `reclaim` | `TypeOK`, `PinsHold`, `BlanketFreesAllChained`, `ImplementsChainStore`, `TierOneSparesConnected` | 2 subvolumes, 2 drives, 2 snapshots each, 1 unreadable pin at a time | no chain is half-cut and nothing pinned or unstored is deleted, through failures, kills and repeated reclaims; what each tier frees and spares |
| `sentinel_gate` | `TypeOK`, `TickNeverRepeatsARun`, `DeferredChangeIsTold`, `SentinelDoesNotEcho`, `LeftoverLockSilencesNothing` | 1 run, 2 lives of the sentinel, leftovers of earlier ones | a change is recorded once, announced by one of the two, silenced by no leftover |
| `pool_pressure` | `TypeOK`, `OneActorOnThePools`, `LowPoolIsWatched`, `EjectOnFreshPressure`, `LoweredTierStands` | 2 runs and the sentinel, 2 pools, one unreadable at times, 2 starts | one deletes at a time, on space read under the lock; a low pool is watched while a run sends; tiers do not flap |
| `pool_relief` | `StarvedPoolIsRelieved` | 1 run and the sentinel, 2 levels per pool | a pool under its floor with something to shed does not stay so |
| `retention_gate` | `TypeOK`, `HistoryIsCovered`, `ConfirmationSettles` | windows of hours and days, 5 instants, 1 edit, 1 set-back, 1 fault, pins | what was kept stays represented; one confirmation ends the holding |
| `retention_unheld` | `AppliedPolicyIsKept` (violated) | 6 instants, 2 edits | section 6, G |
| `promise` | `TypeOK`, `ProtectedBoundsLoss`, `TimelyRunsKeepProtected`, `AlarmMeansDue` | 2 drives, one of them offsite, 3 tiers, fortified, 1 mishap | PROTECTED bounds the loss, timely runs keep it, and what is not PROTECTED is due |

**Bounds.** `MaxGroups` and `MaxSends` end the plan of a run; three groups allow a
trip during the first, an effect in the second and another trip in the third, and
a pool with two roots tells membership in the root set from equality with one
root. `MaxSnap` ends the clock: a chain needs a parent and a child, the window
"newer than the oldest pin" a third. A run goes back to `idle`, so "one run" is
any number of runs in sequence; two at a time is what the lock speaks of. Two
drives are enough for one to succeed and one to fail, and for one to be away.
`backup_lock` uses symmetry between its two runs (no property names one). In
`Reclaim` two snapshots let one drive be pinned to an older one than the other, or
share it; a subvolume with a chain and one without it need two subvolumes.
`MaxRotten` counts unreadable files at one time; they may rot again and again.
Drives and subvolumes are symmetric, and no property names one; the refinement
of `reclaim` is a safety property without fairness, for which symmetry is sound.

One run is enough for `SentinelGate` because the previous one is in `Init`
(its heartbeat is the baseline of the next) and because no action looks further back;
two lives let a sentinel die or leave in the middle of a run and another one start.

In `PoolPressure` the large pool has 40 units and a floor of 2, so that the headroom gate
speaks before the ratio; the small one 20 and 3, where the ratio does. The levels lie on
both sides of every line (floor, gate, 15, 25, 30 percent), so every reading that is
classified differently occurs. Two starts (`MaxStarts`) are two runs that overlap
or one after the other, which is what it takes for a stale gather. The runs are symmetric (not in `pool_relief`, which is a
liveness property).

The calendar of `retention_gate` has two ticks to the hour and four to the day, and shapes
of those two windows: one that thins to the hour, one that thins to the day, one that
ends. Five instants let a snapshot pass all of them. The three longer windows are in the
proof, which holds for every calendar and shape. One edit gives
a tightening, a widening, a change to transient and sends switched off; one fault, a
deletion that fails or a run that is killed.

In `promise` the intervals are 20 (snapshots) and 40 (sends), the weekly floor and the
rotation 60; the clock moves in steps of 19, one less than an interval, so that the grace
of the planner decides (`Gaps`, the distance between two snapshots, is the same);
`Cap` is more than any line of the judgement. One mishap at a time is
what a promise can be asked to survive and still show which one broke it; several at once,
and a declared transient retention, are covered by the proofs only. Some states need
two or three: a clear-all that served a drive emptied after its pin was written, one that
loses its pins and fails to delete, an older parent left as the newest. They were reached
once with `Cap` 76, `MaxMishaps` 2 on the two drives and 3 on one, where the properties
hold as well; these instances are too large to be kept as runs.

Deadlock is checked in every run but those of `SentinelGate`, where runs and lives are
used up and both processes may be down for good, and of `RetentionHistory`, whose clock
ends: the environments of `BackupRun`, `PoolPressure` and `Promise` always have a move,
and the end of a `WatchdogRun` is an explicit stutter.

**Fairness.** `WatchdogRun` and `PoolPressure` have liveness properties. The two
threads of `WatchdogRun` are OS threads, so each has weak fairness on its steps. Ending of a send is not among
them (`FairSpec`): a healthy send may take hours and a wedged one for ever; what
is fair is that a *cancelled* send ends, which `pump_with_cancel` and
`wait_child_cancellable` see to by polling the flag and giving up after the grace.
A `btrfs send` that produces nothing parks the pump in its read; the comment of
the pump accepts that residue and the model leaves it out. `RunEnds` speaks of runs
whose sends end (`HealthySends`). A reclaim is assumed to end.

`PoolPressure` (`FairSpec`): a run that holds the lock proceeds until it lets go, and the
sentinel takes its next step (weak fairness); the timer goes on sampling, and what stops an
eject does not do so every time: a dark probe, a lock in use, a failed delete, a kill
(strong fairness of `Sample`, and per pool of `EjectLock`, of a `Reconfirm` that reads,
and of a reclaim that sheds). The sentinel is a service systemd restarts, and ticks by a
timer; runs are short compared with the time between them. Nothing is asked of the runs'
watchdog, nor of the space to come back by itself.

## 4. Faulty variants

Operators whose comment starts with "A fault" (`StartAnyGroup`, `FindAnyCopy`,
`GateOnAnySend`, ...) are the code with one plausible mistake. They are used by no
specification; `PROJECT.json` pairs each with the property that catches it.

## 5. What is proved

`WatchdogRunProofs`, for every set of roots and pools and every bound, from
`PoolAssumption` (root sets of different pools are disjoint; the markers are not
roots or pools) and `BoundAssumption`:

| Theorem | Statement |
|---|---|
| `InductiveInvariant` | `Spec => []IInv` |
| `TypeCorrect` | `Spec => []TypeOK` |
| `ReclaimIsDisjoint` | `Spec => []ReclaimDisjointFromExecutor` |
| `AbortNeverLost` | `Spec => []AbortSurvivesReset` |
| `TeardownIsAlone` | `Spec => []TeardownReclaimsAlone` |
| `TripsAreAnswered` | `Spec => []EveryTripAnsweredAtExit` |

None of these is inductive alone. That a reclaimed pool is not the executor's
needs to know *why* the watchdog took the reclaim route: the published root was
another pool's (`PublishedWhileSending` ties the published root to the group, so
the group is there too), and it stays so because all roots of the pool are in the
trip set (`HandledIsTripped`), which both gates of the executor read. The abort
survives because the reset comes before the publication: in `PublishInFlight` an
untripped root is published, so there is no abort to lose, and in `PollTrips` a
root that is published takes the abort route. `JoinedBeforeDrain` is the join.
`IInv` is their conjunction with the types; it was checked by TLC before it was
proved. The answers need `FiringInv` beside it: a pool fires once because its roots are in
the trip set from then on, and once the teardown has taken the list of firings, one that is not
answered is in that list.

`ReclaimProofs`, for every set of subvolumes and drives and every bound, from
`SnapAssumption` (the bounds are naturals):

| Theorem | Statement |
|---|---|
| `InductiveInvariant` | `Spec => []IInv` |
| `TypeCorrect` | `Spec => []TypeOK` |
| `NoHalfCutChain` | `Spec => []PinsHold` |
| `Implements` | `Spec => ImplementsChainStore` |
| `ConnectedChainsSurvive` | `Spec => TierOneSparesConnected` |
| `BothTiersFreeTheChained` | `Spec => []BlanketFreesAllChained` |

The reclaim looks at the pins twice and acts later both times, so `PinsHold` and
the refinement need what is remembered in between. `PassIsStored`: from the pick to
the end of the deletes the subvolume stays stored on a drive, although the pins
that showed it are being removed. `DoomedUnpinned`: what was listed at the re-read
stays unpinned, since no one writes a pin of the pool meanwhile. `ShedOnlyAbsent`:
a drive that was present at the confirmation is in no shed list of Tier 1. With
`PinsHold` they give `Chain!Drop` for each delete; every other step is one of
`Chain`'s own or a stutter of it (`StepSimulation`). For what is freed, `FreeInv` says that
between two passes a subvolume that was chained has a pin or nothing left (`PinOrNothing`):
Tier 1 never leaves one without a pin and with snapshots, which Tier 2 would spare as
the only copy.

`SentinelGateProofs`, for any number of runs and lives, from `BoundAssumption` and
`NoneAssumption` (the absent value is neither a number, a reading nor a heartbeat):

| Theorem | Statement |
|---|---|
| `TypeCorrect` | `Spec => []TypeOK` |
| `HolderAlwaysKnown` | `Spec => []HolderKnown` |
| `LeftoverLockIsHarmless` | `Spec => LeftoverLockSilencesNothing` |
| `RunsAreNotEchoed` | `Spec => SentinelDoesNotEcho` |
| `DeferredChangesAreTold` | `Spec => []DeferredChangeIsTold` |
| `TicksRepeatNoRun` | `Spec => []TickNeverRepeatsARun` |

`HolderKnown` says that whoever the lock file names is a run or a sentinel by a pid.
With it, a pid in the file that is alive while no run is can only be the asking
sentinel's own (`NoRunNoHolder`), which `backup_run_active_at` leaves out, so a change
seen then is recorded. The next two follow one run's result through the sentinel.
`EchoInv`: after a run that spoke, a sentinel that is not excepted takes the
first reading of its life after the run's, so the result is no change to it (`ReadAfter`).
`DeferInv`: a sentinel known to have read the promise before run r meets the result of r
with a reading at risk, or it has told of it (`KnewIsTold`).
`TypeInv` bounds the counters by one another: what a log names is a run that was
(`Logged`), no mtime is seen before it is written (`BeatsCounted`), and a sentinel past its
reading holds one (`HoldsReading`). `LogInv` is the argument that the mtime of the heartbeat
separates what a run recorded from what the sentinel records. A result the sentinel has
not read comes with a heartbeat it has not seen, unless the run was over at its first
(`UnreadIsUnseen`), so the round that reads such a result starts with `BackupCompleted` and
not with a tick (`TickMeetsNoRun`). It fails once a run's heartbeat cannot be written, and
that is why the property excepts it.

`BackupRunProofs`, for any number of runs, drives and snapshots, every tier and any fault,
from the module's assumptions on its constants:

| Theorem | Statement |
|---|---|
| `TypeCorrect` | `Spec => []TypeOK` |
| `HolderExecutes` | `Spec => []Exclusion`: only the holder of the lock executes |
| `PinsNameCompleteCopies` | `~ShowMayFail => (Spec => []PinNamesCompleteCopy)` |
| `PinnedSnapshotsStay` | `~ShowMayFail => (Spec => PinnedSnapshotNotDeleted)` |
| `NoDeleteOnInference` | `~ShowMayFail => (Spec => DestinationDeleteNeedsProof)` |
| `CleanupFollowsEverySend` | `~ShowMayFail => (Spec => CleanupAfterEverySend)` |
| `PinsHaveLocalParents` | `OneAtATime => (Spec => []PinHasLocalParent)` |
| `LastCopyStays` | `OneAtATime`, roomy pools, `Declared = "graduated"`: `Spec => LastCopySurvives` |

`BaseInv` is the types, the dates (nothing is younger than the clock) and the exclusion.
The four with `~ShowMayFail` need `subvolume_exists` to answer: section 6, B is the reason.
`KnowInv` is what a run knows between a look and the act that rests on it: the copy
whose pin is about to be written is complete (`InFlight`), what a delete was cleared for
is still unpinned (`DoomedUnpinned`, because the holder is alone), and a receive is
never started over something unseen (`NeverBlind`). It holds with any fault; `CopyInv` adds
that pins name complete copies, which a failing query breaks. `Bookkept` follows a run's account: what
it counted as sent is complete on its drive, no planned delete names it, and the cleanup is
entered only when all it tried is counted. `PinsFollow` adds the pins: as long as no
pin write of the run failed, a drive it counted is pinned to what was sent, or by a file
that cannot be read, and from a clear-all's first delete on it has no pin.

The last two hold with failing queries, lost listings and pins that rot, but need
`OneAtATime` (all runs are the same run, crashed and started again any number of times): a
plan older than the lock can do otherwise, which section 7 says.
For the first, `ParentInv` adds to the property that what a run is to send is in
the local directory until it is sent (`CarriedIsLocal`): a graduated plan made while
every pin has its parent spares the snapshot it sends, and a transient run deletes only
after its sends.
For the second, `StoreInv` says that the deletes of a plan leave one of the snapshots the plan
found (`LeavesOne`), and that no drive holds a copy before the local directory holds a
snapshot (`StoredHere`), which it then keeps. A tight pool and a transient subvolume are
left out there because they give up the local copy by design; TLC's run has the same bounds.

`PoolPressureProofs`, for any pools, capacities, floors, levels and bounds, from
`PoolAssumption` and `ActorAssumption`:

| Theorem | Statement |
|---|---|
| `Typing` | `Spec => []TypeOK` |
| `OneActor` | `Spec => []OneActorOnThePools` |
| `LowIsWatched` | `Spec => []LowPoolIsWatched` |
| `FreshPressure` | `Spec => EjectOnFreshPressure` |
| `LoweredTier` | `Spec => LoweredTierStands` |

The first four come from one invariant. `LockInv`: who acts holds the lock, and the pool
about to be ejected was seen low under it. `LowInv`: a pool a run read below its floor has
a tier above Roomy in its arming, whatever the record said, and a run that sends watches
every such pool it can measure. The last is arithmetic on `Resolve`: a reading that lowers
the tier lies beyond the line by a margin of at least half a floor or 5% of the pool.

`RetentionHistoryProofs`, for every calendar whose grains nest, every shape and every
bound, from `HistoryAssumption`, `StartsAssumption` and the assumptions on the calendar:

| Theorem | Statement |
|---|---|
| `Typing` | `Spec => []TypeOK` |
| `HistoryCovered` | `Spec => []HistoryIsCovered` |
| `OneConfirmationSettles` | `Spec => []ConfirmationSettles` |

The heart is `ThinningCovers`: thinning a set of snapshots leaves, for each of them, one
that stands for it under the windows in force, with or without pressure. It rests on
the order of the cutoffs and their advance with the clock, and on `Newest` (each slot
has a newest snapshot, by well-foundedness) with `SuccessorKept`. What is left is the
gate. `LaterIsTighter`: `tiers_tightened` sees every change that makes any window begin
later, although it compares counts and a window's begin is the sum of all the counts
before it. `HeldDeletesAsRecorded`: while a subvolume is held, what is deleted is what the
recorded shape gives up. The strengthening is `MarkRecorded` (the row names the shape the
mark was kept under), `MarkCovered` (the mark is covered whichever of its deletions a run
carries out) and, for the confirmation, `RowSettled`.

`PromiseProofs`, for any drives, roles, tiers, intervals, steps of the clock, and number of
mishaps, from `IntervalAssumption` and `RoleAssumption`:

| Theorem | Statement |
|---|---|
| `Typing` | `Spec => []TypeOK` |
| `PromiseIsKept` | `Spec => []ProtectedBoundsLoss` |
| `AlarmsAreActedOn` | `Spec => []AlarmMeansDue` |

`IInv` relates the two clocks: a lag is at most the age by the wall clock plus the
set-backs so far (`LocalFits`, `PinFits`), for a copy on a drive at most the age of the
recorded send plus one snapshot interval (`SentFits`), because a run sends a snapshot that was no older than
that when it started, unless it is marked as one that did (`RunFits`); and a drive lists
nothing newer than its last recorded send, unless one went unrecorded (`RecordFits`).
Whatever takes the place of a newest snapshot that is deleted (`NextNewest`) fits its age
as well: it was pinned, or is one of those in between.

`TimelyProofs`, which extends `PromiseProofs`, for a timer that keeps up:

| Theorem | Statement |
|---|---|
| `TimelyRunsSuffice` | `TimerSuffices`, no transient lifecycle: `Spec => []TimelyRunsKeepProtected` |

`TimerSuffices` is what the timer owes: there is a grid of ages, closed under sums and
differences, that the steps of the clock lie on, such that an age at which nothing is due leaves room
for `TimerMax` more in what awareness allows (two snapshot intervals for the local half,
one and a half send intervals for a copy). Two lemmas say that it can be met. `PromptTimer`:
by any clock, if runs are over within a snapshot interval and within half a send interval.
`DailyTimer`: by the constants TLC has, a daily timer for a daily and a two-daily interval;
there the grid of days matters, since the same intervals with steps of an hour would leave
a copy that is just not due too old a day later. The theorem is for graduated
retention, as the run is: the local snapshots of a transient subvolume go with each run.
The invariant `TimelyInv` speaks of two moments: what is true since the last good run (`Kept`:
nothing was due or it was done, and a drive that holds the newest snapshot has it
pinned) and what a good run under way will have made true when it is over (`WillKeep`, given
what it has served so far). `TakesNothing` keeps the tight and the critical retention out, and
`RunInOrder` orders the two.

Only model-checked: the three liveness properties, `RunEnds` and `AbortStopsTheSend` of the
watchdog and `StarvedPoolIsRelieved` of the eject (liveness under fairness is out of the
prover's reach). Every safety property and action property of a passing run has a theorem.

## 6. Where the code and its documents differ

A. **An abort can hit another pool's send.** In the run, a trip that finds no send in
   flight counts as same-filesystem (`guard.rs:114`) and stores the cancel flag; a send of
   another pool that is past its reset but not yet published is cancelled by it. There is
   a second way: `handle_watchdog_trip` stores the flag after it has released the lock
   (`commands/backup/watchdog.rs:322`); between the two the caught send may end, the next
   group reset the flag and publish, and the store cancels that one. The comments promise
   otherwise (`executor/send.rs:421`, `commands/backup/mod.rs:357`). The send is retried
   by the next run. What closes it was tried on variants of the module: storing under the
   lock alone leaves the first way, and taking "none in flight" for another filesystem
   leaves the second and breaks `ReclaimDisjointFromExecutor`. Storing under the lock, and
   only when a send of the pool is in flight, closes both and keeps every property of
   `watchdog`; so does storing under the lock with the reset moved into the lock that
   publishes.
B. **A failing `show` deletes a good copy.** (ADR-107, ADR-101; A and G have runs, B to F
   were met while modelling.) `subvolume_exists` says "absent", the receive fails on the existing
   name, and the cleanup deletes what is there. With a `show` that answers the
   property `DestinationDeleteNeedsProof` holds (`backup_lock`).
C. **A shutdown passes the cleanup gate.** Only sends
   the loop reached are counted as planned.
D. **A partial copy defers its own retry.** (ADR-107.) Until a
   newer snapshot exists the planner takes the partial for the copy.
E. **A refused pass forgets the chains it broke.** (`executor/reclaim.rs:229`.) Tier 1 removes pins one after the other and returns no
   release when a later step of the pass fails, although earlier pins are gone.
F. **A failed run beside a sentinel is announced by nobody.** (`recorder.rs:31-34`,
   ADR-114.) The gate leaves its whole batch to a running sentinel
   and marks the heartbeat. The batch also holds `BackupFailures` and
   `PinWriteFailures`, which the sentinel's `build_notifications` does not produce.

G. **A half that is applied while the other is held is not recorded.** (`AppliedPolicyIsKept`,
   `retention.rs:886`, ADR-110.) `decide_retention_gate` leaves a held subvolume before it
   records anything. The half that was not tightened is thinned under its new retention and
   keeps its old record, or none; tightening that half back is not held, and deletes
   what it had kept.

Met while modelling, with no run of their own: the transient branch of the
retention has no rule that waits for a first pin (ADR-106 has; the tests of the
planner expect the code); the sweep runs without a pin file (ADR-107's amendment
says it does not), but still deletes only what has no `Received UUID`; Tier 1 may
shed the pin of an absent drive that a present drive shares since the run began
(`executor/reclaim.rs:38`); and no pin does not mean never sent
(`executor/reclaim.rs:200`): a pin write may have failed, or the deletes of an
earlier Tier 1, and then Tier 2 keeps what it could free.

Of the gate: the sentinel records a run's transition again when the heartbeat was the
first it saw, when it was never written, or when the round had begun before the run was
over (`TickNeverRepeatsARun` names the three; `sentinel.rs:463` says "must not
duplicate"). A sentinel whose first assessment comes after the run's effects takes them
for its baseline, and one that dies takes its batch along: nobody announces the change.
A sentinel with a reading but no state file yet announces what the run announced, too
(`SentinelDoesNotEcho` names it). A run with an empty plan records no promise diff, but
its heartbeat silences the sentinel's tick, so a change first seen then is in no log.

Of the pools: two runs that overlap resolve their tiers before the lock, so the later
write-back may put an older tier over a newer one, with no row for the transition, and
announce the same change again. A kill between the write and the notice loses the notice.
A run with an empty plan, and one whose metrics cannot be written, records no tier. A
record that cannot be read makes every prior Roomy, which ADR-102 accepts. ADR-113 has
the sentinel sample the armed pools; the code samples every pool one sends from that has a
UUID (`Ejectable`).

Of retention: the space-governed walk, where an older snapshot is pinned, may delete the
newest one, which `retention.rs:446` says it keeps. A local-only subvolume that did not
change for longer than its last window loses its only snapshot until the next run. Where
two months meet in one week, the weekly slot keeps a point of the later month only, and
the earlier one has none (ADR-104 has one per calendar month; `StandsFor` allows it);
loosening a policy can lose a month's last point in the same way and is never held. A location
that cannot be listed has every deletion withheld while its subvolume is held, those for
pressure on the host included.

Of awareness: at Critical a graduated subvolume keeps no local snapshot, but its local half
is judged by the declared retention, so it reads UNPROTECTED where ADR-110 promises AT RISK
(the tests of the cap use a local snapshot the program would not have). When the pool
recovers, a copy that was timed by the weekly floor is judged by the declared interval
until the next run. The best of *all* drives counts, one with role test included, which
ADR-116 rules out. `--local-only` does not stop the sends of a transient subvolume
(`plan/mod.rs:429`, `cli.rs:194`). The age of a copy is the start of the run that sent it,
not the date of the snapshot: an `--external-only` run of an old snapshot, and a drive
emptied or replaced under its label, read PROTECTED (`excused`). An unchanged source
whose pin could not be written ages to UNPROTECTED with nothing for a run to do
(`steady` leaves it out), and one that was idle for longer than its interval turns UNPROTECTED
with its first change until the next run (`WasIdle`). An offsite drive on its rounds is
judged leniently as soon as any other real drive is there, even if that one holds
no copy. A snapshot dated in the future counts as just taken, in the planner and in awareness.

## 7. Not modelled

- **Tokens and drive identity** (`drives.rs`, the token half of
  `commands/backup/gating.rs`, `executor/send.rs`): whether a drive is the one it was.
  `BackupRun` leaves a free choice of drives a plan may send to, which contains every
  outcome of the token gate, but says nothing about a swapped drive. Questions for a module
  of its own: a token that cannot be read counts as available and the drive as verified
  afterwards; `seal`'s adoption beside the first send's own write.
- **The rest of awareness**: operational and chain health, redundancy, observed
  cadence, advice, subvolumes that are not sent. They are derived from the same data and
  decide nothing that is done.
- **Other notices of the sentinel**: drive reconnections, chain anomalies, overdue
  drives, reload of the configuration.
- **The byte pump** of a send appears by outcome, in both modules that send.
- In `BackupRun`: several subvolumes (they share nothing but the clock, the drives
  and the space), and a receive left alone by a crash that finalizes
  between the next run's query and its delete (it may finalize at the crash).
- External retention on a drive may delete the last copy that is off the host
  while the local one stays; no document promises otherwise.
- A pin written under a plan older than the lock may name a snapshot the other run
  has deleted locally: the next send is full. `PinHasLocalParent` is therefore
  checked, and proved, for runs in sequence.
- **Configuration, the set-up conversation, rendering, metrics, the read-only commands**:
  parsing, derivation and text, in one process, with no state that outlives it. A change of
  configuration is modelled where it acts (`Edit`).

The repository is larger than its control: of the lines under `src/src` more than half are
tests beside the code, and of the rest most render text, parse and validate configuration
or talk a user through the set-up. The modules cover what decides: planner,
executor, pins, lock, tiers, retention, watchdog, reclaim, sentinel, and the judgement
of awareness.

## 8. What could come next

1. `DriveIdentity`: tokens, adoption, swapped drives, composed with the send of `BackupRun`.
2. `SendPump`: pump, cancel, abandon and cleanup in detail, refining the send of
   `WatchdogRun` and `BackupRun`.
3. `Reclaim` composed with `WatchdogRun`; `ChainStore` refined by `BackupRun` where its
   retention keeps to it (roomy pools; the transient retention does not).
4. Proofs for runs that overlap: what a plan older than the lock leaves of
   `PinHasLocalParent` and `LastCopySurvives`, and `TimelyRunsSuffice` for a transient
   subvolume.
