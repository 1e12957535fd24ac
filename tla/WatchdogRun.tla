----------------------------- MODULE WatchdogRun -----------------------------
(***************************************************************************)
(* One backup run with the mid-operation storage watchdog.                 *)
(*                                                                         *)
(* Two threads of one process share state: the main thread runs the        *)
(* executor (src/executor) and then the teardown (commands/backup/mod.rs), *)
(* the watchdog thread (commands/backup/watchdog.rs) polls the free space  *)
(* of every armed source pool.  They share the `WatchdogCoord` cell (one   *)
(* lock over `inFlight` and `tripped`), the `cancel` flag the send pump    *)
(* reads, and the list of firings the teardown drains.                     *)
(*                                                                         *)
(* A critical section under the coordination lock is one action, as is a   *)
(* single atomic load or store; everything else interleaves.               *)
(***************************************************************************)
EXTENDS Naturals, FiniteSets

CONSTANTS
    Roots,      \* snapshot roots a subvolume of the run may live under
    Pools,      \* the armed pools: Tight or Critical, with a sending subvolume
    RootsOf,    \* RootsOf[p]: the roots of pool p's subvolumes that send
    NoRoot,     \* no group / no send in flight
    NoPool,     \* the watchdog is not handling a trip
    MaxGroups,  \* bound: subvolume groups in the plan
    MaxSends    \* bound: sends per subvolume group

\* A root is on one filesystem, so the root sets of two pools are disjoint
\* (`arm_watchdog_pools_with` resolves each subvolume's root once).
ASSUME PoolAssumption ==
    /\ RootsOf \in [Pools -> SUBSET Roots]
    /\ \A p, q \in Pools : p # q => RootsOf[p] \cap RootsOf[q] = {}
    /\ NoRoot \notin Roots
    /\ NoPool \notin Pools

ASSUME BoundAssumption == MaxGroups \in Nat /\ MaxSends \in Nat

VARIABLES
    epc,       \* main thread: where execute / execute_send / teardown stands
    group,     \* root of the subvolume group being executed
    groups,    \* groups left in the plan
    sends,     \* sends left in the group
    result,    \* how the last send_receive returned
    inFlight,  \* WatchdogCoord.in_flight
    tripped,   \* WatchdogCoord.tripped
    cancel,    \* the abort flag shared with the copy loop
    wpc,       \* watchdog thread: poll, abort, reclaim, record or stopped
    wpool,     \* the pool whose trip the watchdog is handling
    aborting,  \* send_aborted of the firing under construction
    firings,   \* WatchdogFiring list: records [pool, sendAborted, reclaimed]
    shutdown,  \* the watchdog's stop signal
    level,     \* free space of a pool: 0 under min_free, 1 under the floor, 2 above
    below,     \* started_below: "unknown" until the first sample of the pool
    pending    \* firings the teardown still has to answer

vars == <<epc, group, groups, sends, result, inFlight, tripped, cancel, wpc, wpool,
          aborting, firings, shutdown, level, below, pending>>

coord == <<inFlight, tripped>>
execVars == <<epc, group, groups, sends, result>>
wdVars == <<wpc, wpool, aborting, below>>

\* Points of the main thread.  "ops": inside a group, between two operations;
\* "armed": the cancel flag was reset; "sending": send_receive is running;
\* "exited": it returned and in_flight is still published; "bookkeep": pin and
\* token are written; "drain": firings are taken; "reclaim": same-filesystem
\* reclaim of the teardown.
ExecPoints == {"groups", "ops", "armed", "sending", "exited", "bookkeep",
               "cleanup", "join", "drain", "reclaim", "finished"}
WatchPoints == {"poll", "abort", "reclaim", "record", "stopped"}
Levels == 0..2
Firing == [pool : Pools, sendAborted : BOOLEAN, reclaimed : BOOLEAN]

TypeOK ==
    /\ epc \in ExecPoints
    /\ group \in Roots \cup {NoRoot}
    /\ groups \in Nat
    /\ sends \in Nat
    /\ result \in {"none", "ended", "cancelled"}
    /\ inFlight \in Roots \cup {NoRoot}
    /\ tripped \in SUBSET Roots
    /\ cancel \in BOOLEAN
    /\ wpc \in WatchPoints
    /\ wpool \in Pools \cup {NoPool}
    /\ aborting \in BOOLEAN
    /\ firings \in SUBSET Firing
    /\ shutdown \in BOOLEAN
    /\ level \in [Pools -> Levels]
    /\ below \in [Pools -> {"unknown", "yes", "no"}]
    /\ pending \in SUBSET Firing

Init ==
    /\ epc = "groups"
    /\ group = NoRoot
    /\ groups = MaxGroups
    /\ sends = 0
    /\ result = "none"
    /\ inFlight = NoRoot
    /\ tripped = {}
    /\ cancel = FALSE
    /\ wpc = "poll"
    /\ wpool = NoPool
    /\ aborting = FALSE
    /\ firings = {}
    /\ shutdown = FALSE
    /\ level \in [Pools -> Levels]
    /\ below = [p \in Pools |-> "unknown"]
    /\ pending = {}

(***************************** the main thread *****************************)

\* A fault: a tripped pool's group is started.
StartAnyGroup(r, n) ==
    /\ epc = "groups"
    /\ groups > 0
    /\ groups' = groups - 1
    /\ epc' = "ops" /\ group' = r /\ sends' = n
    /\ UNCHANGED <<result, coord, cancel, wdVars, firings, shutdown, level, pending>>

\* execute: the early skip reads `tripped` under the lock (pool_tripped); a
\* tripped pool's group is skipped whole, otherwise its operations start.
StartGroup(r, n) ==
    /\ epc = "groups"
    /\ groups > 0
    /\ groups' = groups - 1
    /\ IF r \in tripped
       THEN UNCHANGED <<epc, group, sends>>
       ELSE epc' = "ops" /\ group' = r /\ sends' = n
    /\ UNCHANGED <<result, coord, cancel, wdVars, firings, shutdown, level, pending>>

\* Any other operation of the group (create, delete, a send that ends before
\* the watchdog gate) leaves the shared state alone and is not a step of its
\* own: what matters is that the thread is inside the group.

\* execute_send, `cancel.store(false)`: a separate store before the lock.
ResetCancel ==
    /\ epc = "ops"
    /\ sends > 0
    /\ sends' = sends - 1
    /\ cancel' = FALSE
    /\ epc' = "armed"
    /\ UNCHANGED <<group, groups, result, coord, wdVars, firings, shutdown, level, pending>>

\* A fault: the send is published without the check.
PublishUnchecked ==
    /\ epc = "armed"
    /\ epc' = "sending"
    /\ inFlight' = group
    /\ UNCHANGED <<group, groups, sends, result, tripped, cancel, wdVars, firings,
                   shutdown, level, pending>>

\* execute_send, under the lock: check tripped, else publish the root.
PublishInFlight ==
    /\ epc = "armed"
    /\ IF group \in tripped
       THEN epc' = "ops" /\ UNCHANGED inFlight
       ELSE epc' = "sending" /\ inFlight' = group
    /\ UNCHANGED <<group, groups, sends, result, tripped, cancel, wdVars, firings,
                   shutdown, level, pending>>

\* send_receive returns with the stream complete, or failed by itself.
SendEnds ==
    /\ epc = "sending"
    /\ epc' = "exited"
    /\ result' = "ended"
    /\ UNCHANGED <<group, groups, sends, coord, cancel, wdVars, firings,
                   shutdown, level, pending>>

\* pump_with_cancel sees the flag, the waits give up after the grace, and
\* send_receive returns an error.
SendCancelled ==
    /\ epc = "sending"
    /\ cancel
    /\ epc' = "exited"
    /\ result' = "cancelled"
    /\ UNCHANGED <<group, groups, sends, coord, cancel, wdVars, firings,
                   shutdown, level, pending>>

\* execute_send, under the lock: clear in_flight if it is still ours.
ClearInFlight ==
    /\ epc = "exited"
    /\ inFlight' = IF inFlight = group THEN NoRoot ELSE inFlight
    /\ epc' = "bookkeep"
    /\ UNCHANGED <<group, groups, sends, result, tripped, cancel, wdVars, firings,
                   shutdown, level, pending>>

\* write_pin_on_success, maybe_write_drive_token, record_operation.
Bookkeep ==
    /\ epc = "bookkeep"
    /\ epc' = "ops"
    /\ UNCHANGED <<group, groups, sends, result, coord, cancel, wdVars, firings,
                   shutdown, level, pending>>

\* The operations end (the operator's shutdown flag may end them early) and
\* attempt_transient_cleanup runs, still inside the group.
EndOps ==
    /\ epc = "ops"
    /\ epc' = "cleanup"
    /\ sends' = 0
    /\ UNCHANGED <<group, groups, result, coord, cancel, wdVars, firings, shutdown,
                   level, pending>>

EndGroup ==
    /\ epc = "cleanup"
    /\ epc' = "groups"
    /\ group' = NoRoot
    /\ UNCHANGED <<groups, sends, result, coord, cancel, wdVars, firings, shutdown,
                   level, pending>>

\* execute returns (plan done, or the operator's shutdown); the teardown tells
\* the watchdog to stop and joins it.
SignalShutdown ==
    /\ epc = "groups"
    /\ epc' = "join"
    /\ shutdown' = TRUE
    /\ UNCHANGED <<group, groups, sends, result, coord, cancel, wdVars, firings, level,
                   pending>>

\* A fault: with firings to answer, the watchdog is not waited for.
TakeFiringsEarly ==
    /\ epc = "join"
    /\ wpc = "stopped" \/ firings # {}
    /\ pending' = firings
    /\ epc' = "drain"
    /\ UNCHANGED <<group, groups, sends, result, coord, cancel, wdVars, firings,
                   shutdown, level>>

\* join_logged returned: the firings are taken.
TakeFirings ==
    /\ epc = "join"
    /\ wpc = "stopped"
    /\ pending' = firings
    /\ epc' = "drain"
    /\ UNCHANGED <<group, groups, sends, result, coord, cancel, wdVars, firings,
                   shutdown, level>>

\* decide_reclaim: a firing that aborted a send is reclaimed here, one whose
\* outcome was stashed is only recorded.
AnswerFiring(f) ==
    /\ epc = "drain"
    /\ f \in pending
    /\ pending' = pending \ {f}
    /\ epc' = IF f.sendAborted THEN "reclaim" ELSE "drain"
    /\ firings' = (firings \ {f}) \cup {[f EXCEPT !.reclaimed = TRUE]}
    /\ UNCHANGED <<group, groups, sends, result, coord, cancel, wdVars, shutdown, level>>

\* emergency_reclaim_pool of the teardown ran, whatever it freed.
TeardownReclaimEnds ==
    /\ epc = "reclaim"
    /\ epc' = "drain"
    /\ UNCHANGED <<group, groups, sends, result, coord, cancel, wdVars, firings, shutdown, level,
                   pending>>

\* The defensive clear of the flag at the end of the teardown.
Finish ==
    /\ epc = "drain"
    /\ pending = {}
    /\ cancel' = FALSE
    /\ epc' = "finished"
    /\ UNCHANGED <<group, groups, sends, result, coord, wdVars, firings, shutdown,
                   level, pending>>

(*************************** the watchdog thread ***************************)

Done == {f.pool : f \in firings}

\* guard::watchdog_step: the floor degrades to bare min_free for a pool whose
\* first sample was already below it.
Trips(p, startedBelow) == level[p] < (IF startedBelow = "yes" THEN 1 ELSE 2)

FirstSample(p) == IF below[p] # "unknown" THEN below[p]
                  ELSE IF level[p] < 2 THEN "yes" ELSE "no"

\* One pool of the poll sweep, sampled and found healthy.  A statvfs that
\* fails samples nothing and is not a step.
PollHealthy(p) ==
    /\ wpc = "poll"
    /\ p \notin Done
    /\ ~Trips(p, FirstSample(p))
    /\ below' = [below EXCEPT ![p] = FirstSample(p)]
    /\ UNCHANGED <<execVars, coord, cancel, wpc, wpool, aborting, firings,
                   shutdown, level, pending>>

\* handle_watchdog_trip up to its routing: under one acquisition of the lock
\* every root of the pool is tripped and in_flight is read; the route is
\* guard::trip_is_same_filesystem of what was read.
PollTrips(p) ==
    /\ wpc = "poll"
    /\ p \notin Done
    /\ Trips(p, FirstSample(p))
    /\ below' = [below EXCEPT ![p] = FirstSample(p)]
    /\ tripped' = tripped \cup RootsOf[p]
    /\ wpool' = p
    /\ LET sameFs == inFlight = NoRoot \/ inFlight \in RootsOf[p]
       IN  /\ aborting' = sameFs
           /\ wpc' = IF sameFs THEN "abort" ELSE "reclaim"
    /\ UNCHANGED <<execVars, inFlight, cancel, firings, shutdown, level, pending>>

\* Same filesystem: `ctx.abort.store(true)`, after the lock was released.
StoreAbort ==
    /\ wpc = "abort"
    /\ cancel' = TRUE
    /\ wpc' = "record"
    /\ UNCHANGED <<execVars, coord, wpool, aborting, below, firings, shutdown,
                   level, pending>>

\* A fault: the pool is forgotten before its firing is pushed.
ReclaimForgetsPool ==
    /\ wpc = "reclaim"
    /\ wpc' = "record"
    /\ wpool' = NoPool
    /\ UNCHANGED <<execVars, coord, cancel, aborting, below, firings, shutdown,
                   level, pending>>

\* Cross filesystem: emergency_reclaim_pool on this thread has returned.
WatchdogReclaimEnds ==
    /\ wpc = "reclaim"
    /\ wpc' = "record"
    /\ UNCHANGED <<execVars, coord, cancel, wpool, aborting, below, firings,
                   shutdown, level, pending>>

\* A fault: the watchdog clears the abort flag when it has recorded it.
PushFiringClearsFlag ==
    /\ wpc = "record"
    /\ firings' = firings \cup
         {[pool |-> wpool, sendAborted |-> aborting, reclaimed |-> ~aborting]}
    /\ cancel' = FALSE
    /\ wpc' = "poll"
    /\ wpool' = NoPool
    /\ aborting' = FALSE
    /\ UNCHANGED <<execVars, coord, below, shutdown, level, pending>>

\* The firing is pushed and the pool is done.
PushFiring ==
    /\ wpc = "record"
    /\ firings' = firings \cup
         {[pool |-> wpool, sendAborted |-> aborting, reclaimed |-> ~aborting]}
    /\ wpc' = "poll"
    /\ wpool' = NoPool
    /\ aborting' = FALSE
    /\ UNCHANGED <<execVars, coord, cancel, below, shutdown, level, pending>>

\* A fault: the stop signal is obeyed before the firing is recorded.
StopUnrecorded ==
    /\ wpc \in {"poll", "record"}
    /\ shutdown
    /\ wpc' = "stopped"
    /\ UNCHANGED <<execVars, coord, cancel, wpool, aborting, below, firings,
                   shutdown, level, pending>>

\* A fault: the watchdog waits for its firings to be answered.
StopWhenAnswered ==
    /\ wpc = "poll"
    /\ shutdown
    /\ \A f \in firings : f.reclaimed
    /\ wpc' = "stopped"
    /\ UNCHANGED <<execVars, coord, cancel, wpool, aborting, below, firings,
                   shutdown, level, pending>>

\* The top of a sweep reads the stop signal; the rest of a sweep that began
\* before it is still polled, which is why polling does not test `shutdown`.
StopWatchdog ==
    /\ wpc = "poll"
    /\ shutdown
    /\ wpc' = "stopped"
    /\ UNCHANGED <<execVars, coord, cancel, wpool, aborting, below, firings,
                   shutdown, level, pending>>

\* Free space moves by itself: other writers, pinned extents, the cleaner.
FreeSpaceMoves(p, l) ==
    /\ epc # "finished"
    /\ l # level[p]
    /\ level' = [level EXCEPT ![p] = l]
    /\ UNCHANGED <<execVars, coord, cancel, wdVars, firings, shutdown, pending>>

\* The run is over; both threads have ended.
Terminated == epc = "finished" /\ UNCHANGED vars

Main ==
    \/ \E r \in Roots, n \in 0..MaxSends : StartGroup(r, n)
    \/ ResetCancel \/ PublishInFlight \/ SendEnds \/ SendCancelled
    \/ ClearInFlight \/ Bookkeep \/ EndOps \/ EndGroup \/ SignalShutdown
    \/ TakeFirings \/ (\E f \in pending : AnswerFiring(f))
    \/ TeardownReclaimEnds \/ Finish

Watchdog ==
    \/ \E p \in Pools : PollHealthy(p) \/ PollTrips(p)
    \/ StoreAbort \/ WatchdogReclaimEnds \/ PushFiring \/ StopWatchdog

Next ==
    \/ Main
    \/ Watchdog
    \/ \E p \in Pools, l \in Levels : FreeSpaceMoves(p, l)
    \/ Terminated

Spec == Init /\ [][Next]_vars

(***************************************************************************)
(* Fairness.  Both are OS threads, so each is scheduled; a reclaim and a    *)
(* critical section end.  A cancelled send ends: the pump polls the flag,   *)
(* also when the receiving side drains nothing, and the waits for the       *)
(* children are bounded once it is set.  (A `btrfs send` that produces      *)
(* nothing parks the pump in its read: the residual the comment of          *)
(* pump_with_cancel accepts, left out here.)  A send that is not cancelled  *)
(* owes nothing, it may take hours.                                         *)
(***************************************************************************)
ExecSteps ==
    \/ ResetCancel \/ PublishInFlight \/ SendCancelled \/ ClearInFlight
    \/ Bookkeep \/ EndOps \/ EndGroup \/ SignalShutdown
    \/ TakeFirings \/ (\E f \in pending : AnswerFiring(f))
    \/ TeardownReclaimEnds \/ Finish

WatchdogSteps == StoreAbort \/ WatchdogReclaimEnds \/ PushFiring \/ StopWatchdog

FairSpec ==
    /\ Spec
    /\ WF_vars(ExecSteps)
    /\ WF_vars(WatchdogSteps)

\* Sends that all end by themselves: no wedged drive.
HealthySends == WF_vars(SendEnds)

(******************************** properties *******************************)

\* The theorem the doc comment of `WatchdogCoord` claims, and more: while the
\* watchdog thread reclaims a pool, the executor is not in any operation of a
\* subvolume on that pool - no send, but no create, delete or cleanup either.
ReclaimDisjointFromExecutor ==
    wpc = "reclaim" => group \notin RootsOf[wpool] /\ inFlight \notin RootsOf[wpool]

\* The teardown's reclaim never runs beside a send or beside the watchdog:
\* two reclaims of one pool, or a reclaim under a live send, cannot happen.
TeardownReclaimsAlone ==
    epc = "reclaim" => wpc = "stopped" /\ inFlight = NoRoot

\* A send in flight on a tripped pool is cancelled, or the watchdog is about to
\* cancel it: the executor's reset before the send cannot clobber the abort.
AbortSurvivesReset ==
    epc = "sending" /\ inFlight \in tripped =>
        cancel \/ (wpc = "abort" /\ inFlight \in RootsOf[wpool])

\* When the run is over every tripped pool has fired exactly once and its
\* firing was answered, by the watchdog's reclaim or by the teardown's.
EveryTripAnsweredAtExit ==
    epc = "finished" =>
        /\ \A f \in firings : f.reclaimed
        /\ \A f, g \in firings : f.pool = g.pool => f = g
        /\ tripped = UNION {RootsOf[f.pool] : f \in firings}

(*************************** inductive invariant ***************************)

InGroup == {"ops", "armed", "sending", "exited", "bookkeep", "cleanup"}

\* The published root is the group's while the send is out, and only then.
PublishedWhileSending ==
    inFlight = IF epc \in {"sending", "exited"} THEN group ELSE NoRoot

GroupWhileInside == IF epc \in InGroup THEN group \in Roots ELSE group = NoRoot

\* A pool whose trip is being handled has all its roots tripped.
HandledIsTripped ==
    wpc \in {"abort", "reclaim", "record"} =>
        wpool \in Pools /\ RootsOf[wpool] \subseteq tripped

ReclaimedIsElsewhere == wpc = "reclaim" => group \notin RootsOf[wpool]

JoinedBeforeDrain == epc \in {"drain", "reclaim", "finished"} => wpc = "stopped"

IInv ==
    /\ TypeOK
    /\ PublishedWhileSending
    /\ GroupWhileInside
    /\ HandledIsTripped
    /\ ReclaimedIsElsewhere
    /\ AbortSurvivesReset
    /\ JoinedBeforeDrain

(********************************* liveness ********************************)

\* A same-filesystem trip ends the send it caught, even when the destination
\* never makes progress again (FairSpec does not make sends end).
AbortStopsTheSend ==
    \A p \in Pools :
        (wpc = "abort" /\ wpool = p /\ inFlight \in RootsOf[p])
            ~> (inFlight = NoRoot)

\* Every run ends once no send hangs: the join of the watchdog, its reclaim and
\* the drain cannot wait for each other.
RunEnds == HealthySends => <>(epc = "finished")

\* What the comments at `cancel.store(false)` (executor/send.rs) and at
\* `set_watchdog_cancel` (commands/backup/mod.rs) promise: the abort of one
\* pool does not cancel the send of another pool.  It does, in two ways: a trip
\* that finds no send in flight stores the flag, too, when the next send is past
\* its reset; and the store that follows the lock may come a whole send late.
AbortStaysInItsPool ==
    [][epc = "sending" /\ epc' = "exited" /\ result' = "cancelled"
          => inFlight \in tripped]_vars
=============================================================================
