------------------------------ MODULE BackupRun ------------------------------
(***************************************************************************)
(* `urd backup` for one send-enabled subvolume and its drives: the planner  *)
(* (src/plan), the run lock and the emergency pre-flight (commands/backup,  *)
(* lock.rs), and the executor (src/executor) with the pin files (chain.rs)  *)
(* and the snapshots btrfs keeps on both ends.                              *)
(*                                                                         *)
(* A run is one process.  It plans before it takes the lock, so several     *)
(* runs may hold plans of different age; only the lock holder executes.     *)
(* Drives come and go, a run may be killed at any point, an operation may   *)
(* fail.  A snapshot is the minute it was taken at: names sort by time.     *)
(***************************************************************************)
EXTENDS Integers, FiniteSetsExt

CONSTANTS
    NDrives,      \* configured drives the subvolume accepts
    MaxSnap,      \* bound on the clock, so on the snapshot names
    Runs,         \* backup processes
    NoRun,
    Tiers,        \* armed tiers a run may resolve
    Declared,     \* declared local retention: "graduated" or "transient"
    Autonomous,   \* FullSendPolicy::SkipAndNotify
    ShowMayFail,  \* `btrfs subvolume show` may fail on a snapshot that exists
    ListMayFail,  \* a snapshot directory may fail to list
    PinsMayRot    \* a pin file may become unreadable

ASSUME DriveAssumption == NDrives \in Nat \ {0}
ASSUME SnapAssumption == MaxSnap \in Nat \ {0}
ASSUME RunAssumption == NoRun \notin Runs
ASSUME TierAssumption ==
    /\ Tiers \subseteq {"roomy", "tight", "critical"}
    /\ Declared \in {"graduated", "transient"}
ASSUME SwitchAssumption ==
    {Autonomous, ShowMayFail, ListMayFail, PinsMayRot} \subseteq BOOLEAN

Drives == 1..NDrives   \* in the order of the [[drives]] section
Snaps == 1..MaxSnap
NoSnap == 0            \* no snapshot; of a pin: there is no pin file
BadPin == -1           \* a pin file that cannot be read or parsed
NoDrive == 0

VARIABLES
    now,      \* the clock
    local,    \* snapshots in the local directory
    ext,      \* ext[d][s]: the copy of s on drive d; "partial" has no Received UUID
    pin,      \* pin[d]: what .last-external-parent-<d> names
    mounted,  \* drives usable for a send
    lock,     \* holder of the run lock
    pc,       \* where a run stands
    plan,     \* its plan; deletes leave it as they are carried out
    acc       \* the bookkeeping of execute_subvolume

vars == <<now, local, ext, pin, mounted, lock, pc, plan, acc>>
disk == <<local, ext, pin>>
world == <<now, mounted>>

Points == {"idle", "planned", "locked", "replan", "armed", "ops", "recovering", "free",
           "receiving", "clobbering", "pinning", "opsDelete", "extDelete", "cleanup",
           "unpin", "clean", "cleanDelete", "release"}
Executing == Points \ {"idle", "planned"}

Plan == [at : Snaps \cup {NoSnap},          \* the run's clock reading
         tier : {"roomy", "tight", "critical"},
         away : SUBSET Drives,              \* RunArming.away_shed
         create : BOOLEAN,                  \* CreateSnapshot still to do
         snap : Snaps \cup {NoSnap},        \* what the sends carry
         sendTo : SUBSET Drives,
         gated : SUBSET Drives,             \* ChainBroken, drive not verified
         parent : [Drives -> Snaps \cup {NoSnap}],
         localDel : SUBSET Snaps,           \* local deletes still to do
         extDel : [Drives -> SUBSET Snaps]] \* deletes on the drives still to do

Account == [createFailed : BOOLEAN,         \* failed_creates
            tried : SUBSET Drives,          \* planned_send_drives
            succ : SUBSET Drives,           \* sends_succeeded
            old : SUBSET Snaps,             \* old_pin_parents
            pinFailed : BOOLEAN,
            target : Snaps \cup {NoSnap}]   \* checked, about to be deleted

NoPlan == [at |-> NoSnap, tier |-> "roomy", away |-> {}, create |-> FALSE,
           snap |-> NoSnap, sendTo |-> {}, gated |-> {},
           parent |-> [d \in Drives |-> NoSnap],
           localDel |-> {}, extDel |-> [d \in Drives |-> {}]]

NoAccount == [createFailed |-> FALSE, tried |-> {}, succ |-> {}, old |-> {},
              pinFailed |-> FALSE, target |-> NoSnap]

TypeOK ==
    /\ now \in Snaps
    /\ local \in SUBSET Snaps
    /\ ext \in [Drives -> [Snaps -> {"none", "partial", "complete"}]]
    /\ pin \in [Drives -> Snaps \cup {NoSnap, BadPin}]
    /\ mounted \in SUBSET Drives
    /\ lock \in Runs \cup {NoRun}
    /\ pc \in [Runs -> Points]
    /\ plan \in [Runs -> Plan]
    /\ acc \in [Runs -> Account]

Init ==
    /\ now = 1
    /\ local = {}
    /\ ext = [d \in Drives |-> [s \in Snaps |-> "none"]]
    /\ pin = [d \in Drives |-> NoSnap]
    /\ mounted \in SUBSET Drives
    /\ lock = NoRun
    /\ pc = [r \in Runs |-> "idle"]
    /\ plan = [r \in Runs |-> NoPlan]
    /\ acc = [r \in Runs |-> NoAccount]

Go(r, point) == pc' = [pc EXCEPT ![r] = point]

(******************************* pins and policy ***************************)

\* find_pinned_snapshots: an unreadable pin is skipped.
Pinned == {pin[d] : d \in Drives} \cap Snaps
MountedPins == {pin[d] : d \in mounted} \cap Snaps

\* is_pinned_at_delete_time: an unreadable pin pins everything.
PinnedAtDelete(s) == s \in Pinned \/ \E d \in Drives : pin[d] = BadPin

\* away_sheddable_pins: pins of absent drives that no present drive shares.
AwayOnly == {d \in Drives \ mounted : pin[d] \in Snaps \ MountedPins}

\* derive_effective_policy: Tight and Critical are transient whatever is
\* declared; Critical clears all unless an away-only pin can be shed instead.
Transient(tier) == Declared = "transient" \/ tier # "roomy"
IsTransient(r) == Transient(plan[r].tier)
ClearAll(r) == plan[r].tier = "critical" /\ plan[r].away = {}

Newer(S, pins) == {s \in S : pins # {} /\ s > Min(pins)}
Newest(S) == IF S = {} THEN NoSnap ELSE Max(S)

\* A fault: nothing is protected before the first pin.
PinsOnlyProtected(S) == Pinned \cup Newer(S, Pinned)

\* graduated_protected: the pins and what is newer than the oldest, or all.
GraduatedProtected(S) == Pinned \cup IF Pinned = {} THEN S ELSE Newer(S, Pinned)

\* plan_local_retention, transient branch: the pins (at Critical only those
\* of present drives) and what is newer than the oldest present pin.
TransientProtected(tier, S) ==
    (IF tier = "critical" THEN MountedPins ELSE Pinned) \cup Newer(S, MountedPins)

Protected(tier, S) ==
    IF Transient(tier) THEN TransientProtected(tier, S) ELSE GraduatedProtected(S)

(********************************* the planner *****************************)

\* read_snapshot_dir of the drive; a partial is listed like any other.
OnDrive(d) == {s \in Snaps : d \in mounted /\ ext[d][s] # "none"}

\* `lost`: the directories (NoDrive: the local one) whose listing failed and
\* reads as empty.
ListedOn(d, lost) == IF d \in lost THEN {} ELSE OnDrive(d)

\* Drives that still lack the newest snapshot; "AlreadyOn" defers the others.
Sendable(snap, lost) == {d \in mounted : snap # NoSnap /\ snap \notin ListedOn(d, lost)}

SeenLocal(lost) == IF NoDrive \in lost THEN {} ELSE local

\* Incremental only from a pin that is listed on both ends.
ParentsIn(have, lost) ==
    [d \in Drives |-> IF pin[d] \in have \cap ListedOn(d, lost) THEN pin[d] ELSE NoSnap]

\* FullSendReason::ChainBroken, where the policy defers.
Gateable(parent) ==
    IF Autonomous THEN {d \in Drives : parent[d] = NoSnap /\ pin[d] \in Snaps} ELSE {}

\* What retention on the drives may delete: never a pin.
Expirable(tier, snap, lost) ==
    [d \in Drives |-> IF Transient(tier) /\ snap = NoSnap THEN {} ELSE ListedOn(d, lost) \ Pinned]

Losses == SUBSET (IF ListMayFail THEN Drives \cup {NoDrive} ELSE {})

\* A plan of run r from what is on disk now.  Intervals, generations,
\* token and size checks and the space guards defer a create or a send: any
\* subset of what could be planned may be.  Retention windows, and the hold of
\* a tightened policy, leave any subset of what is not protected.
MakePlan(r, at, tier, away) ==
    \E create \in BOOLEAN, lost \in Losses :
      LET seen == SeenLocal(lost)
          have == seen \cup (IF create THEN {at} ELSE {})
          snap == Newest(have)
          parent == ParentsIn(have, lost)
      IN  /\ create => at \notin seen /\ (Transient(tier) => mounted # {})
          /\ \E sendTo \in SUBSET Sendable(snap, lost),
                localDel \in SUBSET (seen \ Protected(tier, seen)),
                extDel \in {f \in [Drives -> SUBSET Snaps] :
                               \A d \in Drives : f[d] \subseteq Expirable(tier, snap, lost)[d]} :
             \E gated \in SUBSET (sendTo \cap Gateable(parent)) :
               plan' = [plan EXCEPT ![r] =
                 [at |-> at, tier |-> tier, away |-> away, create |-> create,
                  snap |-> snap, sendTo |-> sendTo, gated |-> gated,
                  parent |-> parent, localDel |-> localDel, extDel |-> extDel]]

\* run: arm the tier, plan, before the lock is taken.
PlanRun(r, tier) ==
    /\ pc[r] = "idle"
    /\ MakePlan(r, now, tier, AwayOnly)
    /\ Go(r, "planned")
    /\ UNCHANGED <<disk, world, lock, acc>>

(******************** the lock and the emergency pre-flight ****************)

AcquireLock(r) ==
    /\ pc[r] = "planned"
    /\ lock = NoRun
    /\ lock' = r
    /\ Go(r, "locked")
    /\ UNCHANGED <<disk, world, plan, acc>>

\* acquire_lock does not wait: the run ends.
LockBusy(r) ==
    /\ pc[r] = "planned"
    /\ lock # NoRun
    /\ Go(r, "idle")
    /\ plan' = [plan EXCEPT ![r] = NoPlan]
    /\ UNCHANGED <<disk, world, lock, acc>>

\* A fault: only the newest is kept.
AllButNewest == IF Declared = "transient" THEN {} ELSE local \ {Newest(local)}

\* emergency_walk: all but the newest and the pinned, unless the subvolume is
\* declared transient or a pin cannot be read.
Thinnable == IF Declared = "transient" THEN {}
             ELSE {s \in local : s # Newest(local) /\ ~PinnedAtDelete(s)}

\* run_emergency_preflight: nothing when the root has space; any of the
\* deletes may fail.  A deletion makes the run plan again.
EmergencyPreflight(r, thinned) ==
    /\ pc[r] = "locked"
    /\ thinned \subseteq Thinnable
    /\ local' = local \ thinned
    /\ Go(r, IF thinned = {} THEN "armed" ELSE "replan")
    /\ UNCHANGED <<ext, pin, world, lock, plan, acc>>

\* The second plan reuses the arming and the clock of the first.
Replan(r) ==
    /\ pc[r] = "replan"
    /\ MakePlan(r, plan[r].at, plan[r].tier, plan[r].away)
    /\ Go(r, "armed")
    /\ UNCHANGED <<disk, world, lock, acc>>

(******************************** the operations ***************************)

\* Drives with operations left, taken in configuration order.
SendsLeft(r) == plan[r].sendTo \ acc[r].tried
DrivesLeft(r) == SendsLeft(r) \cup {d \in Drives : plan[r].extDel[d] # {}}
DriveAt(r) == IF DrivesLeft(r) = {} THEN NoDrive ELSE Min(DrivesLeft(r))

NoOpsLeft(r) == ~plan[r].create /\ plan[r].localDel = {} /\ DrivesLeft(r) = {}

\* Order of the operations: create; local deletes; then per drive the send and
\* the deletes.  The transient lifecycle deletes locally last.
LocalTurn(r) ==
    \/ pc[r] = "clean"
    \/ pc[r] = "ops" /\ ~plan[r].create /\ (IsTransient(r) => DrivesLeft(r) = {})

DriveTurn(r, d) ==
    /\ pc[r] = "ops"
    /\ ~plan[r].create
    /\ d = DriveAt(r)
    /\ IsTransient(r) \/ plan[r].localDel = {}

\* An empty plan ends the run before the executor.
NothingPlanned(r) ==
    /\ pc[r] = "armed"
    /\ NoOpsLeft(r)
    /\ Go(r, "release")
    /\ UNCHANGED <<disk, world, lock, plan, acc>>

\* shed_away_pins: at Critical the away-only pins of drives that are still
\* away; a removal may fail.
ShedAwayPins(r, shed) ==
    /\ pc[r] = "armed"
    /\ ~NoOpsLeft(r)
    /\ shed \subseteq (IF plan[r].tier = "critical" THEN plan[r].away \ mounted ELSE {})
    /\ pin' = [d \in Drives |-> IF d \in shed THEN NoSnap ELSE pin[d]]
    /\ Go(r, "ops")
    /\ UNCHANGED <<local, ext, world, lock, plan, acc>>

\* execute_create; btrfs refuses a name that exists.
CreateSnapshot(r) ==
    /\ pc[r] = "ops"
    /\ plan[r].create
    /\ plan[r].at \notin local
    /\ local' = local \cup {plan[r].at}
    /\ plan' = [plan EXCEPT ![r].create = FALSE]
    /\ UNCHANGED <<ext, pin, world, lock, pc, acc>>

CreateFails(r) ==
    /\ pc[r] = "ops"
    /\ plan[r].create
    /\ plan' = [plan EXCEPT ![r].create = FALSE]
    /\ acc' = [acc EXCEPT ![r].createFailed = TRUE]
    /\ UNCHANGED <<disk, world, lock, pc>>

(***************************** one send, to drive d ************************)

Copy(r, d) == ext[d][plan[r].snap]

\* A fault: a full send's missing parent is recorded as an old parent.
SettleAnyParent(r, d, ok) ==
    acc' = [acc EXCEPT ![r].tried = @ \cup {d},
                       ![r].succ = IF ok THEN @ \cup {d} ELSE @,
                       ![r].old = IF ok THEN @ \cup {plan[r].parent[d]} ELSE @]

\* The outcome of the send operation reaches execute_subvolume.
Settle(r, d, ok) ==
    acc' = [acc EXCEPT ![r].tried = @ \cup {d},
                       ![r].succ = IF ok THEN @ \cup {d} ELSE @,
                       ![r].old = IF ok THEN @ \cup ({plan[r].parent[d]} \cap Snaps) ELSE @]

SendTurn(r, d) == DriveTurn(r, d) /\ d \in SendsLeft(r)

Skipped(r, d) == d \in plan[r].gated
                 \/ (acc[r].createFailed /\ plan[r].snap = plan[r].at)

\* Deferred by the chain-break gate, or the snapshot was not created.
SkipSend(r, d) ==
    /\ SendTurn(r, d)
    /\ Skipped(r, d)
    /\ Settle(r, d, FALSE)
    /\ UNCHANGED <<disk, world, lock, pc, plan>>

AtSend(r, d) == \/ SendTurn(r, d) /\ ~Skipped(r, d)
                \/ pc[r] = "free" /\ d = DriveAt(r)

\* The destination cannot be used: no directory (the drive is gone), a pin or
\* a Received UUID that cannot be read, the partial that cannot be deleted,
\* processes that do not start.  (The watchdog's skip comes after the sweep:
\* it is a StartReceive that fails and leaves nothing.)
SendFails(r, d) ==
    /\ AtSend(r, d)
    /\ Settle(r, d, FALSE)
    /\ Go(r, "ops")
    /\ UNCHANGED <<disk, world, lock, plan>>

\* Crash recovery: the drive holds the name.  A pin is only consulted when
\* the plan carries one (not under clear-all).
AtExisting(r, d) == SendTurn(r, d) /\ ~Skipped(r, d) /\ d \in mounted

AlreadySent(r, d) ==
    /\ AtExisting(r, d)
    /\ Copy(r, d) # "none"
    /\ ~ClearAll(r)
    /\ pin[d] = plan[r].snap
    /\ Settle(r, d, TRUE)
    /\ UNCHANGED <<disk, world, lock, pc, plan>>

Unpinned(r, d) == ClearAll(r) \/ pin[d] \notin {plan[r].snap, BadPin}

\* A fault: an existing copy is taken for a complete one.
FindAnyCopy(r, d) ==
    /\ AtExisting(r, d)
    /\ Copy(r, d) # "none"
    /\ Unpinned(r, d)
    /\ Go(r, "pinning")
    /\ UNCHANGED <<disk, world, lock, plan, acc>>

\* A Received UUID: complete, only the pin is missing.
FindComplete(r, d) ==
    /\ AtExisting(r, d)
    /\ Copy(r, d) = "complete"
    /\ Unpinned(r, d)
    /\ Go(r, "pinning")
    /\ UNCHANGED <<disk, world, lock, plan, acc>>

\* A fault: absence from the pin counts as proof that the copy is partial.
FindUnpinned(r, d) ==
    /\ AtExisting(r, d)
    /\ Copy(r, d) # "none"
    /\ Unpinned(r, d)
    /\ Go(r, "recovering")
    /\ UNCHANGED <<disk, world, lock, plan, acc>>

\* No Received UUID: partial, to be deleted first.
FindPartial(r, d) ==
    /\ AtExisting(r, d)
    /\ Copy(r, d) = "partial"
    /\ Unpinned(r, d)
    /\ Go(r, "recovering")
    /\ UNCHANGED <<disk, world, lock, plan, acc>>

DeletePartial(r, d) ==
    /\ pc[r] = "recovering"
    /\ d = DriveAt(r)
    /\ IF d \in mounted
       THEN /\ ext' = [ext EXCEPT ![d][plan[r].snap] = "none"]
            /\ Go(r, "free")
            /\ UNCHANGED acc
       ELSE /\ Settle(r, d, FALSE)
            /\ Go(r, "ops")
            /\ UNCHANGED ext
    /\ UNCHANGED <<local, pin, world, lock, plan>>

\* sweep_abandoned_partials: names beyond the pin without a Received UUID,
\* never the name being sent; nothing without a pin to write or to read.
Sweepable(r, d) ==
    {s \in Snaps \ {plan[r].snap} :
        ~ClearAll(r) /\ pin[d] # BadPin /\ s > pin[d] /\ ext[d][s] = "partial"}

\* The name is free: sweep, then send_receive starts.  A query or a delete of
\* the sweep may fail.
StartReceive(r, d, swept) ==
    /\ AtSend(r, d)
    /\ d \in mounted
    /\ Copy(r, d) = "none"
    /\ swept \subseteq Sweepable(r, d)
    /\ ext' = [ext EXCEPT ![d] = [s \in Snaps |->
                  IF s = plan[r].snap THEN "partial"
                  ELSE IF s \in swept THEN "none" ELSE @[s]]]
    /\ Go(r, "receiving")
    /\ UNCHANGED <<local, pin, world, lock, plan, acc>>

\* subvolume_exists answered "absent" for a name that is there (a sudo
\* refusal, a failed spawn): btrfs receive runs against the existing copy.
StartReceiveBlind(r, d) ==
    /\ ShowMayFail
    /\ AtExisting(r, d)
    /\ Copy(r, d) # "none"
    /\ Go(r, "clobbering")
    /\ UNCHANGED <<disk, world, lock, plan, acc>>

\* btrfs can finalize the receive: the drive and both ends of the chain are there.
CanFinalize(r, d) ==
    /\ pc[r] = "receiving"
    /\ d = DriveAt(r)
    /\ d \in mounted
    /\ plan[r].snap \in local
    /\ plan[r].parent[d] # NoSnap =>
         plan[r].parent[d] \in local /\ ext[d][plan[r].parent[d]] = "complete"

\* Both processes exit with success.
ReceiveSucceeds(r, d) ==
    /\ CanFinalize(r, d)
    /\ ext' = [ext EXCEPT ![d][plan[r].snap] = "complete"]
    /\ Go(r, "pinning")
    /\ UNCHANGED <<local, pin, world, lock, plan, acc>>

\* send_receive fails (or is cancelled); its cleanup deletes the partial
\* unless the receive was abandoned, the delete fails, or the drive is gone.
ReceiveFails(r, d, left) ==
    /\ pc[r] = "receiving"
    /\ d = DriveAt(r)
    /\ left \in (IF d \in mounted THEN {"none", "partial"} ELSE {"partial"})
    /\ ext' = [ext EXCEPT ![d][plan[r].snap] = left]
    /\ Settle(r, d, FALSE)
    /\ Go(r, "ops")
    /\ UNCHANGED <<local, pin, world, lock, plan>>

\* The same cleanup after a receive that could not create the name.
ClobberFails(r, d, left) ==
    /\ pc[r] = "clobbering"
    /\ d = DriveAt(r)
    /\ left \in (IF d \in mounted THEN {"none", Copy(r, d)} ELSE {Copy(r, d)})
    /\ ext' = [ext EXCEPT ![d][plan[r].snap] = left]
    /\ Settle(r, d, FALSE)
    /\ Go(r, "ops")
    /\ UNCHANGED <<local, pin, world, lock, plan>>

\* write_pin_on_success: one rename; clear-all carries no pin to write.
WritePin(r, d) ==
    /\ pc[r] = "pinning"
    /\ d = DriveAt(r)
    /\ pin' = IF ClearAll(r) THEN pin ELSE [pin EXCEPT ![d] = plan[r].snap]
    /\ Settle(r, d, TRUE)
    /\ Go(r, "ops")
    /\ UNCHANGED <<local, ext, world, lock, plan>>

\* The send still counts.
WritePinFails(r, d) ==
    /\ pc[r] = "pinning"
    /\ d = DriveAt(r)
    /\ ~ClearAll(r)
    /\ acc' = [acc EXCEPT ![r].tried = @ \cup {d}, ![r].succ = @ \cup {d},
                          ![r].old = @ \cup ({plan[r].parent[d]} \cap Snaps),
                          ![r].pinFailed = TRUE]
    /\ Go(r, "ops")
    /\ UNCHANGED <<disk, world, lock, plan>>

(********************************* deletes *********************************)

\* A fault: no re-read of the pins.
CheckNothing(r, s) ==
    /\ LocalTurn(r)
    /\ s \in plan[r].localDel
    /\ acc' = [acc EXCEPT ![r].target = s]
    /\ Go(r, IF pc[r] = "ops" THEN "opsDelete" ELSE "cleanDelete")
    /\ UNCHANGED <<disk, world, lock, plan>>

\* execute_delete and the loop of attempt_transient_cleanup re-read the pins
\* (layer 3), then delete in a second step.
CheckLocal(r, s) ==
    /\ LocalTurn(r)
    /\ s \in plan[r].localDel
    /\ ~PinnedAtDelete(s)
    /\ acc' = [acc EXCEPT ![r].target = s]
    /\ Go(r, IF pc[r] = "ops" THEN "opsDelete" ELSE "cleanDelete")
    /\ UNCHANGED <<disk, world, lock, plan>>

\* Refused as pinned, skipped because space recovered, or the delete failed.
DropLocal(r, s) ==
    /\ LocalTurn(r)
    /\ s \in plan[r].localDel
    /\ plan' = [plan EXCEPT ![r].localDel = @ \ {s}]
    /\ UNCHANGED <<disk, world, lock, pc, acc>>

DeleteLocal(r) ==
    /\ pc[r] \in {"opsDelete", "cleanDelete"}
    /\ local' = local \ {acc[r].target}
    /\ plan' = [plan EXCEPT ![r].localDel = @ \ {acc[r].target}]
    /\ acc' = [acc EXCEPT ![r].target = NoSnap]
    /\ Go(r, IF pc[r] = "opsDelete" THEN "ops" ELSE "clean")
    /\ UNCHANGED <<ext, pin, world, lock>>

ExtTurn(r, d) == DriveTurn(r, d) /\ d \notin SendsLeft(r)

CheckExt(r, d, s) ==
    /\ ExtTurn(r, d)
    /\ s \in plan[r].extDel[d]
    /\ ~PinnedAtDelete(s)
    /\ acc' = [acc EXCEPT ![r].target = s]
    /\ Go(r, "extDelete")
    /\ UNCHANGED <<disk, world, lock, plan>>

DropExt(r, d, s) ==
    /\ ExtTurn(r, d)
    /\ s \in plan[r].extDel[d]
    /\ plan' = [plan EXCEPT ![r].extDel[d] = @ \ {s}]
    /\ UNCHANGED <<disk, world, lock, pc, acc>>

DeleteExt(r, d) ==
    /\ pc[r] = "extDelete"
    /\ d = DriveAt(r)
    /\ ext' = IF d \in mounted THEN [ext EXCEPT ![d][acc[r].target] = "none"] ELSE ext
    /\ plan' = [plan EXCEPT ![r].extDel[d] = @ \ {acc[r].target}]
    /\ acc' = [acc EXCEPT ![r].target = NoSnap]
    /\ Go(r, "ops")
    /\ UNCHANGED <<local, pin, world, lock>>

(***************** the end of the operations and the cleanup ***************)

EndOps(r) ==
    /\ pc[r] = "ops"
    /\ NoOpsLeft(r)
    /\ Go(r, "cleanup")
    /\ UNCHANGED <<disk, world, lock, plan, acc>>

\* The shutdown flag is seen between two operations: the rest is dropped.
StopEarly(r) ==
    /\ pc[r] = "ops"
    /\ ~NoOpsLeft(r)
    /\ plan' = [plan EXCEPT ![r].create = FALSE, ![r].localDel = {},
                            ![r].extDel = NoPlan.extDel]
    /\ Go(r, "cleanup")
    /\ UNCHANGED <<disk, world, lock, acc>>

CleanupWork(r) == IsTransient(r) /\ (acc[r].old # {} \/ (ClearAll(r) /\ acc[r].succ # {}))

\* A fault: one drive with the snapshot is enough.
GateOnAnySend(r) == ~acc[r].pinFailed /\ acc[r].succ # {}

\* The gate of attempt_transient_cleanup: no pin write failed and every drive
\* a send was tried on has it.
CleanupGate(r) == ~acc[r].pinFailed /\ acc[r].succ = acc[r].tried

CleanupTargets(r) ==
    (acc[r].old \cup (IF ClearAll(r) THEN {plan[r].snap} ELSE {})) \cap local

Cleanup(r) ==
    /\ pc[r] = "cleanup"
    /\ IF CleanupWork(r) /\ CleanupGate(r)
       THEN /\ plan' = [plan EXCEPT ![r].localDel = CleanupTargets(r)]
            /\ Go(r, IF ClearAll(r) THEN "unpin" ELSE "clean")
       ELSE UNCHANGED plan /\ Go(r, "release")
    /\ UNCHANGED <<disk, world, lock, acc>>

PinsToClear(r) == {d \in acc[r].succ : pin[d] # NoSnap}

\* Clear-all removes the pins before it deletes what they name.
Unpin(r, d) ==
    /\ pc[r] = "unpin"
    /\ d \in PinsToClear(r)
    /\ pin' = [pin EXCEPT ![d] = NoSnap]
    /\ UNCHANGED <<local, ext, world, lock, pc, plan, acc>>

\* A pin cannot be removed: nothing is deleted.
UnpinFails(r) ==
    /\ pc[r] = "unpin"
    /\ PinsToClear(r) # {}
    /\ plan' = [plan EXCEPT ![r].localDel = {}]
    /\ Go(r, "release")
    /\ UNCHANGED <<disk, world, lock, acc>>

UnpinDone(r) ==
    /\ pc[r] = "unpin"
    /\ PinsToClear(r) = {}
    /\ Go(r, "clean")
    /\ UNCHANGED <<disk, world, lock, plan, acc>>

EndClean(r) ==
    /\ pc[r] = "clean"
    /\ plan[r].localDel = {}
    /\ Go(r, "release")
    /\ UNCHANGED <<disk, world, lock, plan, acc>>

Forget(r) ==
    /\ Go(r, "idle")
    /\ plan' = [plan EXCEPT ![r] = NoPlan]
    /\ acc' = [acc EXCEPT ![r] = NoAccount]

\* LockGuard is dropped.
Release(r) ==
    /\ pc[r] = "release"
    /\ lock' = NoRun
    /\ Forget(r)
    /\ UNCHANGED <<disk, world>>

(***************************** the environment *****************************)

\* The process dies; the kernel drops its flock.  A receive left alone may
\* still finalize if it had the whole stream.
Crash(r) ==
    /\ pc[r] # "idle"
    /\ Forget(r)
    /\ lock' = IF lock = r THEN NoRun ELSE lock
    /\ \/ UNCHANGED ext
       \/ \E d \in Drives : /\ CanFinalize(r, d)
                            /\ ext' = [ext EXCEPT ![d][plan[r].snap] = "complete"]
    /\ UNCHANGED <<local, pin, world>>

Plug(d) == /\ mounted' = IF d \in mounted THEN mounted \ {d} ELSE mounted \cup {d}
           /\ UNCHANGED <<now, disk, lock, pc, plan, acc>>

PinRots(d) == /\ PinsMayRot
              /\ pin[d] \in Snaps
              /\ pin' = [pin EXCEPT ![d] = BadPin]
              /\ UNCHANGED <<local, ext, world, lock, pc, plan, acc>>

Tick == /\ now < MaxSnap
        /\ now' = now + 1
        /\ UNCHANGED <<disk, mounted, lock, pc, plan, acc>>

Send(r, d) ==
    \/ SkipSend(r, d) \/ SendFails(r, d) \/ AlreadySent(r, d) \/ FindComplete(r, d)
    \/ FindPartial(r, d) \/ DeletePartial(r, d) \/ StartReceiveBlind(r, d)
    \/ \E swept \in SUBSET Snaps : StartReceive(r, d, swept)
    \/ ReceiveSucceeds(r, d)
    \/ \E left \in {"none", "partial", "complete"} : ReceiveFails(r, d, left) \/ ClobberFails(r, d, left)
    \/ WritePin(r, d) \/ WritePinFails(r, d)

Delete(r) ==
    \/ DeleteLocal(r)
    \/ \E s \in Snaps : CheckLocal(r, s) \/ DropLocal(r, s)
    \/ \E d \in Drives : \/ DeleteExt(r, d)
                          \/ \E s \in Snaps : CheckExt(r, d, s) \/ DropExt(r, d, s)

Run(r) ==
    \/ \E tier \in Tiers : PlanRun(r, tier)
    \/ AcquireLock(r) \/ LockBusy(r)
    \/ \E thinned \in SUBSET Snaps : EmergencyPreflight(r, thinned)
    \/ Replan(r) \/ NothingPlanned(r)
    \/ \E shed \in SUBSET Drives : ShedAwayPins(r, shed)
    \/ CreateSnapshot(r) \/ CreateFails(r)
    \/ \E d \in Drives : Send(r, d) \/ Unpin(r, d)
    \/ Delete(r)
    \/ EndOps(r) \/ StopEarly(r) \/ Cleanup(r) \/ UnpinFails(r) \/ UnpinDone(r)
    \/ EndClean(r) \/ Release(r)

Next ==
    \/ \E r \in Runs : Run(r) \/ Crash(r)
    \/ \E d \in Drives : Plug(d) \/ PinRots(d)
    \/ Tick

Spec == Init /\ [][Next]_vars

(******************************** properties *******************************)

\* A pin file names a snapshot its drive holds complete: what the next
\* incremental send takes for granted, through crashes, failed pin writes,
\* partial copies, retention on the drive and plans older than the lock.
PinNamesCompleteCopy ==
    \A d \in Drives : pin[d] \in Snaps => ext[d][pin[d]] = "complete"

\* ... and one the local side still has, the other end of the chain.
PinHasLocalParent == \A d \in Drives : pin[d] \in Snaps => pin[d] \in local

\* At the step a complete snapshot is deleted, locally or on a drive, no pin
\* file names it: nothing moves a pin between the layer 3 re-read and the delete.
PinnedSnapshotNotDeleted ==
    [][\A s \in Snaps :
          \/ s \in local \ local'
          \/ \E d \in Drives : ext[d][s] = "complete" /\ ext'[d][s] # "complete"
          => \A d \in Drives : pin[d] # s]_vars

\* The cleanup of a transient run deletes a local snapshot only when every
\* drive it tried holds the run's snapshot complete and its pin has followed:
\* it names that snapshot, or is gone where all is cleared (or cannot be read).
CleanupAfterEverySend ==
    [][\A r \in Runs :
          pc[r] = "cleanDelete" /\ local' # local =>
             /\ acc[r].tried # {}
             /\ \A d \in acc[r].tried :
                  /\ ext[d][plan[r].snap] = "complete"
                  /\ pin[d] \in IF ClearAll(r) THEN {NoSnap} ELSE {plan[r].snap, BadPin}]_vars

Stored == local # {} \/ \E d \in Drives, s \in Snaps : ext[d][s] = "complete"

\* While the pool is roomy and a graduated shape is declared, retention, the
\* emergency pre-flight and the cleanups never leave the subvolume without a
\* snapshot, here or on a drive.
LastCopySurvives == [][Stored => Stored']_vars

\* ADR-107, "No automatic path that deletes a destination snapshot now does so on
\* inference": a complete copy goes only by a planned retention delete.  True
\* while `subvolume_exists` answers; its "absent" for "don't know" breaks it.
DestinationDeleteNeedsProof ==
    [][\A d \in Drives, s \in Snaps :
          ext[d][s] = "complete" /\ ext'[d][s] # "complete" =>
             \E r \in Runs : pc[r] = "extDelete" /\ acc[r].target = s]_vars

=============================================================================
