---------------------------- MODULE PoolPressure ----------------------------
(***************************************************************************)
(* Who guards the free space of a source pool, and when.                    *)
(*                                                                         *)
(* `urd backup` reads every pool once, before it takes the run lock, and    *)
(* resolves an armed tier from the reading and from the tier recorded by    *)
(* earlier runs (storage_critical.rs, arming.rs, storage_signals.rs).  The  *)
(* tier decides which pools its watchdog watches while it sends; the run's  *)
(* tail records it.  `urd sentinel` looks every minute for pools below      *)
(* their floor and, under the same lock, sheds what they hold               *)
(* (sentinel.rs, guard.rs, sentinel_runner/eject.rs).  Free space belongs   *)
(* to the host: it moves at any time.                                       *)
(*                                                                         *)
(* What a reclaim deletes, and the watchdog's own races, are the subject    *)
(* of Reclaim and WatchdogRun; here a reclaim is one step.                  *)
(***************************************************************************)
EXTENDS Integers

CONSTANTS
    Pools,
    Cap,         \* Cap[p]: capacity
    Floor,       \* Floor[p]: min_free plus working room; 0: nothing is sent from p
    Keyed,       \* pools whose UUID is known: only these are recorded, or ejected
    Levels,      \* Levels[p]: values the free space of p may take
    Unreadable,  \* pools whose space may fail to be read
    Runs,        \* backup processes
    Sentinel,    \* the sentinel, as a holder of the lock
    Nobody,
    NoPool,
    MaxStarts    \* bound: backup runs started

ASSUME PoolAssumption ==
    /\ Cap \in [Pools -> Nat] /\ Floor \in [Pools -> Nat]
    /\ Keyed \subseteq Pools /\ NoPool \notin Pools
    /\ \A p \in Pools : Levels[p] \subseteq Nat
ASSUME ActorAssumption ==
    /\ Sentinel \notin Runs /\ Nobody \notin Runs /\ Nobody # Sentinel
    /\ MaxStarts \in Nat

VARIABLES
    free,       \* free space of each pool
    sheddable,  \* pools with local snapshots whose pin says they are on a drive
    armed,      \* table pool_armed_tier; Roomy where there is no row
    lock,       \* holder of the run lock
    pc,         \* where a run stands
    arming,     \* what a run resolved before it took the lock
    eject,      \* the eject protocol of the sentinel
    starts,     \* runs started
    lowSince    \* history: pools seen low since the sentinel holds the lock

vars == <<free, sheddable, armed, lock, pc, arming, eject, starts, lowSince>>
host == <<free, sheddable>>
runs == <<pc, arming, starts>>

Roomy == 0
Tight == 1
Critical == 2
Tiers == Roomy..Critical
Unread == -1    \* a reading that failed

SendPools == {p \in Pools : Floor[p] > 0}
Ejectable == SendPools \cap Keyed   \* detect_source_pools drops a pool without UUID
Low(p) == free[p] < Floor[p]

Arming == [tier : [Pools -> Tiers],
           low : SUBSET Pools,       \* read below the floor
           watched : SUBSET Pools,   \* pools the watchdog was armed for
           blind : SUBSET Pools]     \* pools it could not measure then

NoArming == [tier |-> [p \in Pools |-> Roomy], low |-> {}, watched |-> {}, blind |-> {}]

Ejection == [phase : {"idle", "locking", "reconfirm", "reclaim"},
             current : Pools \cup {NoPool}, queue : SUBSET Pools]
NoEjection == [phase |-> "idle", current |-> NoPool, queue |-> {}]

TypeOK ==
    /\ free \in [Pools -> Nat]
    /\ sheddable \in SUBSET Pools
    /\ armed \in [Pools -> Tiers]
    /\ lock \in Runs \cup {Sentinel, Nobody}
    /\ pc \in [Runs -> {"idle", "gathered", "locked", "sending"}]
    /\ arming \in [Runs -> Arming]
    /\ eject \in Ejection
    /\ starts \in 0..MaxStarts
    /\ lowSince \in SUBSET Pools

Init ==
    /\ free \in {f \in [Pools -> UNION {Levels[p] : p \in Pools}] :
                    \A p \in Pools : f[p] \in Levels[p]}
    /\ sheddable \in SUBSET SendPools
    /\ armed = [p \in Pools |-> Roomy]
    /\ lock = Nobody
    /\ pc = [r \in Runs |-> "idle"]
    /\ arming = [r \in Runs |-> NoArming]
    /\ eject = NoEjection
    /\ starts = 0
    /\ lowSince = {}

(******************************** the tier *********************************)

\* classify_free_ratio_value: strict, in percent of the capacity.
Classified(p, f) ==
    IF 100 * f < 15 * Cap[p] THEN Critical
    ELSE IF 100 * f < 25 * Cap[p] THEN Tight ELSE Roomy

\* A fault: the gate releases an armed pool on the line it would hold it at.
OneLineGate(p, prior, f) == Floor[p] > 0 /\ f >= 3 * Floor[p]

\* The headroom gate: far above the floor in bytes, whatever the ratio.  An
\* armed pool is released only above the wider band.
GateForcesRoomy(p, prior, f) ==
    /\ Floor[p] > 0
    /\ IF prior = Roomy THEN f >= 3 * Floor[p] ELSE 2 * f > 7 * Floor[p]

\* The ratio half: up at once, down one level at a time past its band.
ByRatio(p, prior, f) ==
    LET seen == Classified(p, f)
        left == IF prior = Critical /\ 100 * f > 25 * Cap[p] THEN Tight ELSE prior
    IN  IF seen > prior THEN seen
        ELSE IF left = Tight /\ 100 * f > 30 * Cap[p] THEN Roomy ELSE left

\* A fault: any headroom above the floor counts.
GateHidesTheFloor(p, prior, f) ==
    IF Floor[p] > 0 /\ 2 * f >= Floor[p] THEN Roomy ELSE ByRatio(p, prior, f)

\* A fault: no reading, no tier.
ResolveBlind(p, prior, f) ==
    IF f = Unread THEN Unread
    ELSE IF GateForcesRoomy(p, prior, f) THEN Roomy ELSE ByRatio(p, prior, f)

\* resolve_armed_tier; an unreadable pool keeps its tier.
Resolve(p, prior, f) ==
    IF f = Unread THEN prior
    ELSE IF GateForcesRoomy(p, prior, f) THEN Roomy ELSE ByRatio(p, prior, f)

(****************************** the backup run *****************************)

\* gather and RunArming::resolve, before the lock.  `dark`: pools whose space
\* cannot be read; `lost`: the record cannot be read, and every prior is Roomy.
Gather(r, dark, lost) ==
    LET prior(p) == IF lost \/ p \notin Keyed THEN Roomy ELSE armed[p]
        read(p) == IF p \in dark THEN Unread ELSE free[p]
        tier == [p \in Pools |-> Resolve(p, prior(p), read(p))]
    IN  /\ pc[r] = "idle"
        /\ starts < MaxStarts
        /\ starts' = starts + 1
        /\ pc' = [pc EXCEPT ![r] = "gathered"]
        /\ arming' = [arming EXCEPT ![r] =
             [tier |-> tier,
              low |-> {p \in SendPools \ dark : Low(p)},
              watched |-> {}, blind |-> {}]]
        /\ UNCHANGED <<host, armed, lock, eject>>

AcquireLock(r) ==
    /\ pc[r] = "gathered"
    /\ lock = Nobody
    /\ lock' = r
    /\ pc' = [pc EXCEPT ![r] = "locked"]
    /\ UNCHANGED <<host, armed, arming, eject, starts>>

\* The run is over: by acquire_lock, which does not wait, or by its end.
Ends(r) ==
    /\ pc' = [pc EXCEPT ![r] = "idle"]
    /\ arming' = [arming EXCEPT ![r] = NoArming]
    /\ lock' = IF lock = r THEN Nobody ELSE lock
    /\ UNCHANGED <<host, eject, starts>>

Refused(r) == pc[r] = "gathered" /\ lock # Nobody /\ Ends(r) /\ UNCHANGED armed

\* The exit of an empty plan records no tier.
EmptyPlan(r) == pc[r] = "locked" /\ Ends(r) /\ UNCHANGED armed

\* arm_watchdog_pools: armed pools one sends from, if they can be measured.
ArmWatchdog(r, dark) ==
    LET armedPools == {p \in SendPools : arming[r].tier[p] >= Tight}
    IN  /\ pc[r] = "locked"
        /\ pc' = [pc EXCEPT ![r] = "sending"]
        /\ arming' = [arming EXCEPT ![r].watched = armedPools \ dark,
                                    ![r].blind = armedPools \cap dark]
        /\ UNCHANGED <<host, armed, lock, eject, starts>>

\* A send is confirmed and pinned: its snapshots may now be shed.
SendFrom(r, p) ==
    /\ pc[r] = "sending" /\ p \in SendPools
    /\ sheddable' = sheddable \cup {p}
    /\ UNCHANGED <<free, armed, lock, runs, eject>>

\* emergency_reclaim_pool: nothing at or above the floor, if that can be read;
\* else the pool is shed, wholly or (a failure, or enough after tier 1) not.
\* The cleaner frees the space later: a move of its own.
Shed(p, readable) ==
    /\ sheddable' \in IF readable /\ ~Low(p) THEN {sheddable}
                      ELSE {sheddable, sheddable \ {p}}
    /\ UNCHANGED free

\* The watchdog, or the teardown after it, answers a trip.
WatchdogReclaims(r, p, readable) ==
    /\ pc[r] = "sending" /\ p \in arming[r].watched
    /\ Shed(p, readable)
    /\ UNCHANGED <<armed, lock, runs, eject>>

\* advance_and_writeback: the tier resolved before the lock is recorded, pool
\* by pool and best effort (`failed`), and the run ends.
WriteBack(r, failed) ==
    /\ pc[r] = "sending"
    /\ armed' = [p \in Pools |-> IF p \in Keyed \ failed THEN arming[r].tier[p] ELSE armed[p]]
    /\ Ends(r)

\* The metrics cannot be written: `run` returns before the writeback.
TailFails(r) == pc[r] = "sending" /\ Ends(r) /\ UNCHANGED armed

\* Also the end of a dry run, which never locks.
RunKilled(r) == pc[r] # "idle" /\ Ends(r) /\ UNCHANGED armed

(*************************** the sentinel's eject **************************)

\* A fault: only armed pools are sampled.
SampleArmed(dark) ==
    LET low == {p \in Ejectable \ dark : Low(p) /\ armed[p] >= Tight}
    IN  /\ eject.phase = "idle" /\ low # {}
        /\ eject' = [phase |-> "locking", current |-> NoPool, queue |-> low]
        /\ UNCHANGED <<host, armed, lock, runs>>

\* SpaceCheckTick, SamplePressure, evaluate_idle_eject.  A tick that is not
\* due changes nothing; nor does one that finds no pool below its floor.
Sample(dark) ==
    LET low == {p \in Ejectable \ dark : Low(p)}
    IN  /\ eject.phase = "idle" /\ low # {}
        /\ eject' = [phase |-> "locking", current |-> NoPool, queue |-> low]
        /\ UNCHANGED <<host, armed, lock, runs>>

\* eject_advance: the next pool, or quiescence and the end of the lock.
Advance(queue) ==
    IF queue = {} THEN eject' = NoEjection /\ lock' = Nobody
    ELSE /\ \E p \in queue :
              eject' = [phase |-> "reconfirm", current |-> p, queue |-> queue \ {p}]
         /\ lock' = Sentinel

\* A fault: what goes wrong with the lock is not told from having it.
LocksOnError ==
    /\ eject.phase = "locking"
    /\ Advance(eject.queue)
    /\ UNCHANGED <<host, armed, runs>>

EjectLock ==
    /\ eject.phase = "locking"
    /\ lock = Nobody
    /\ Advance(eject.queue)
    /\ UNCHANGED <<host, armed, runs>>

\* The lock is held, or cannot be taken: silently until the next tick.
EjectDefers ==
    /\ eject.phase = "locking"
    /\ eject' = NoEjection
    /\ UNCHANGED <<host, armed, lock, runs>>

\* A fault: the sample taken before the lock is good enough.
TrustsSample(readable) ==
    /\ eject.phase = "reconfirm"
    /\ eject' = [eject EXCEPT !.phase = "reclaim"] /\ UNCHANGED lock
    /\ UNCHANGED <<host, armed, runs>>

\* ReconfirmPool, PoolReconfirmed: an unreadable pool is skipped.
Reconfirm(readable) ==
    /\ eject.phase = "reconfirm"
    /\ IF readable /\ Low(eject.current)
       THEN eject' = [eject EXCEPT !.phase = "reclaim"] /\ UNCHANGED lock
       ELSE Advance(eject.queue)
    /\ UNCHANGED <<host, armed, runs>>

\* The next pool follows whatever became of this one.
ReclaimPool(readable) ==
    /\ eject.phase = "reclaim"
    /\ Shed(eject.current, readable)
    /\ Advance(eject.queue)
    /\ UNCHANGED <<armed, runs>>

SentinelKilled ==
    /\ eject.phase # "idle"
    /\ eject' = NoEjection
    /\ lock' = IF lock = Sentinel THEN Nobody ELSE lock
    /\ UNCHANGED <<host, armed, runs>>

\* Ambient writes, cow growth, deletions, the cleaner: to the next level.
SpaceMoves ==
    /\ \E p \in Pools : \E f \in Levels[p] \ {free[p]} :
         /\ \A g \in Levels[p] : ~(f < g /\ g < free[p]) /\ ~(free[p] < g /\ g < f)
         /\ free' = [free EXCEPT ![p] = f]
    /\ UNCHANGED <<sheddable, armed, lock, runs, eject>>

(***************************** the specification ***************************)

Run(r) ==
    \/ \E dark \in SUBSET Unreadable, lost \in BOOLEAN : Gather(r, dark, lost)
    \/ AcquireLock(r) \/ Refused(r) \/ EmptyPlan(r)
    \/ \E dark \in SUBSET Unreadable : ArmWatchdog(r, dark)
    \/ \E p \in Pools : SendFrom(r, p)
    \/ \E p \in Pools : \E readable \in {p \notin Unreadable, TRUE} : WatchdogReclaims(r, p, readable)
    \/ \E failed \in SUBSET Pools : WriteBack(r, failed)
    \/ TailFails(r) \/ RunKilled(r)

Eject ==
    \/ \E dark \in SUBSET Unreadable : Sample(dark)
    \/ EjectLock \/ EjectDefers
    \/ \E readable \in {eject.current \notin Unreadable, TRUE} :
          Reconfirm(readable) \/ ReclaimPool(readable)
    \/ SentinelKilled

Step == (\E r \in Runs : Run(r)) \/ Eject \/ SpaceMoves

\* The history of what the sentinel could have seen under the lock.
Remember ==
    lowSince' = IF lock' # Sentinel THEN {}
                ELSE lowSince \cup {p \in Pools : free'[p] < Floor[p]}

Next == Step /\ Remember

Spec == Init /\ [][Next]_vars

\* Fairness.  A run that holds the lock proceeds, and so does the sentinel; the
\* timer keeps sampling, probes that fail also succeed, and what stops an eject
\* (a lock error, a kill, a failed delete) does not do so every time.
Proceeds(r) ==
    \/ EmptyPlan(r)
    \/ TailFails(r) \/ \E dark \in SUBSET Unreadable : ArmWatchdog(r, dark)

Works == \E readable \in BOOLEAN : Reconfirm(readable) \/ ReclaimPool(readable)

Sheds(p) == eject.current = p /\ ReclaimPool(FALSE) /\ p \notin sheddable'

FairSpec ==
    /\ Spec
    /\ \A r \in Runs : WF_vars(Proceeds(r) /\ Remember)
    /\ WF_vars((EjectDefers \/ Works) /\ Remember)
    /\ SF_vars(Sample({}) /\ Remember)
    /\ \A p \in Ejectable :
         /\ SF_vars(EjectLock /\ eject'.current = p /\ Remember)
         /\ SF_vars(eject.current = p /\ Reconfirm(TRUE) /\ Remember)
         /\ SF_vars(Sheds(p) /\ Remember)

(******************************** properties *******************************)

Holding(r) == pc[r] \in {"locked", "sending"}
Ejecting == eject.phase \in {"reconfirm", "reclaim"}

\* Whoever deletes on a pool is alone: the sentinel never reclaims while a run
\* executes, and no two runs execute, whatever their gathers overlap with.
OneActorOnThePools ==
    /\ Ejecting => \A r \in Runs : ~Holding(r)
    /\ \A r, s \in Runs : Holding(r) /\ Holding(s) => r = s

\* The sentinel sheds a pool only if that pool was below its floor while the
\* sentinel held the lock: relief by the backup it waited for, or by the shed
\* of an earlier pool, is not overlooked.
EjectOnFreshPressure ==
    [][eject.phase = "reclaim" /\ sheddable' # sheddable
          => sheddable \ sheddable' \subseteq lowSince]_vars

\* Does the tier `t` stand while readings stay within a band of `f`: half a
\* floor, or 5% of the capacity, whichever is less?
Stands(p, t, f) ==
    \A g \in Levels[p] :
        2 * g + Floor[p] >= 2 * f /\ 100 * g + 5 * Cap[p] >= 100 * f
            => Resolve(p, t, g) <= t

\* A tier lowered from the recorded one is not raised again by a reading a hair
\* below the one that lowered it: runs whose readings hover about a line, of the
\* ratio or of the headroom gate, do not flap.
LoweredTierStands ==
    [][\A r \in Runs, p \in Pools :
          LET t == arming'[r].tier[p]
          IN  /\ pc[r] = "idle" /\ pc'[r] = "gathered"
              /\ t < armed[p] /\ t = Resolve(p, armed[p], free[p])
              => Stands(p, t, free[p])]_vars

\* Where the floor lies within the critical ratio, a pool a run read below its
\* floor is watched while the run sends: the gate in front of the ratio, a prior
\* tier or a lost record never hide it, and what the sentinel, finding the lock
\* held, leaves to such a run is not left to nobody.
LowPoolIsWatched ==
    \A r \in Runs : pc[r] = "sending" =>
        \A p \in arming[r].low : 100 * Floor[p] <= 15 * Cap[p] =>
            p \in arming[r].watched \cup arming[r].blind

Starved(p) == Low(p) /\ p \in sheddable

\* A pool below its floor with something to shed does not stay so: once no run
\* stands in the way, the sentinel sheds it or finds it recovered.
StarvedPoolIsRelieved == \A p \in Ejectable : Starved(p) ~> ~Starved(p)
=============================================================================
