-------------------------------- MODULE Reclaim --------------------------------
(***************************************************************************)
(* The emergency reclaim of one source pool (executor/reclaim.rs): two      *)
(* tiers of shedding pins and deleting what is then unpinned, for the       *)
(* subvolumes of the pool.  It is called by the watchdog thread and by the  *)
(* teardown of a backup run, with a map of sheddable pins that is as old as *)
(* the run, and by the idle eject of the sentinel, with a fresh one.        *)
(*                                                                         *)
(* One action per system call with a lasting effect.  Drives come and go    *)
(* and free space moves at any time, so the drives a step finds present and *)
(* the space it measures are chosen by the step.  A pin file may become     *)
(* unreadable, every call may fail and the process may be killed.  Nothing  *)
(* else touches the pool meanwhile: the run lock keeps other processes out  *)
(* and WatchdogRun shows that the executor of the same run is elsewhere.    *)
(***************************************************************************)
EXTENDS Integers, FiniteSets

CONSTANTS
    Subvols,     \* send-enabled subvolumes of the pool
    Drives,      \* configured drives
    MaxSnap,     \* bound: snapshots taken of a subvolume
    MaxRotten    \* bound: unreadable pin files at a time

ASSUME SnapAssumption == MaxSnap \in Nat /\ MaxRotten \in Nat

Snaps == 1..MaxSnap
NoSnap == 0

VARIABLES
    local,     \* local[s]: snapshots in the local directory of s
    taken,     \* taken[s]: the last snapshot taken of s
    pin,       \* pin[s][d]: what the pin file names; NoSnap: there is none
    rotten,    \* pin files that cannot be read or parsed
    offsite,   \* offsite[s]: drives a send of s to which completed
    pc,        \* where the run or the reclaim stands
    away,      \* away[s]: pins Tier 1 may shed
    present,   \* history: drives seen present when `away` was last confirmed
    tier,      \* tier of the reclaim
    todo,      \* subvolumes left in the tier
    shedAny,   \* shed_any_away
    sv,        \* the subvolume of the pass
    toShed,    \* pins the pass still has to remove
    doomed,    \* snapshots the pass still has to delete
    releases,  \* broken offsite chains of the pass
    reported,  \* broken offsite chains of the outcome
    chained,   \* history: subvolumes with a pin when the reclaim began
    trouble    \* history: something failed in this reclaim

vars == <<local, taken, pin, rotten, offsite, pc, away, present, tier,
          todo, shedAny, sv, toShed, doomed, releases, reported, chained, trouble>>

disk == <<local, taken, pin, rotten, offsite>>
call == <<away, present, tier, todo, shedAny>>
pass == <<sv, toShed, doomed, releases>>
outcome == <<reported, chained, trouble>>

Release == [subvol : Subvols, drive : Drives, parent : Snaps]

TypeOK ==
    /\ local \in [Subvols -> SUBSET Snaps]
    /\ taken \in [Subvols -> 0..MaxSnap]
    /\ pin \in [Subvols -> [Drives -> Snaps \cup {NoSnap}]]
    /\ rotten \in SUBSET (Subvols \X Drives)
    /\ offsite \in [Subvols -> SUBSET Drives]
    /\ pc \in {"idle", "run", "gate", "pick", "shed", "delete", "done"}
    /\ away \in [Subvols -> SUBSET Drives]
    /\ present \in SUBSET Drives
    /\ tier \in {1, 2}
    /\ todo \in SUBSET Subvols
    /\ shedAny \in BOOLEAN
    /\ sv \in SUBSET Subvols
    /\ toShed \in SUBSET Drives
    /\ doomed \in SUBSET Snaps
    /\ releases \in SUBSET Release
    /\ reported \in SUBSET Release
    /\ chained \in SUBSET Subvols
    /\ trouble \in BOOLEAN

Init ==
    /\ local = [s \in Subvols |-> {}]
    /\ taken = [s \in Subvols |-> 0]
    /\ pin = [s \in Subvols |-> [d \in Drives |-> NoSnap]]
    /\ rotten = {}
    /\ offsite = [s \in Subvols |-> {}]
    /\ pc = "idle"
    /\ away = [s \in Subvols |-> {}]
    /\ present = {}
    /\ tier = 1
    /\ todo = {}
    /\ shedAny = FALSE
    /\ sv = {}
    /\ toShed = {}
    /\ doomed = {}
    /\ releases = {}
    /\ reported = {}
    /\ chained = {}
    /\ trouble = FALSE

(********************************** the pins *******************************)

PinnedIn(s) == {pin[s][d] : d \in Drives} \ {NoSnap}
Readable(s, d) == <<s, d>> \notin rotten

\* find_pinned_snapshots_strict fails when one pin file cannot be read.
StrictReadFails(s) == \E d \in Drives : ~Readable(s, d)

\* away_shed_map over drive_scopes: the pins of absent drives whose snapshot
\* no drive that is `here` is pinned to; an unreadable pin counts as none.
AwaySheddable(s, here) ==
    {d \in Drives \ here :
        /\ Readable(s, d)
        /\ pin[s][d] # NoSnap
        /\ \A e \in here : Readable(s, e) => pin[s][e] # pin[s][d]}

(************************** a run, as far as it matters ********************)

\* RunArming::resolve freezes the sheddable pins for the run.
RunBegins ==
    /\ pc = "idle"
    /\ pc' = "run"
    /\ \E here \in SUBSET Drives : away' = [s \in Subvols |-> AwaySheddable(s, here)]
    /\ UNCHANGED <<disk, present, tier, todo, shedAny, pass, outcome>>

\* execute_create: names only grow.
Create(s) ==
    /\ pc = "run"
    /\ taken[s] < MaxSnap
    /\ taken' = [taken EXCEPT ![s] = @ + 1]
    /\ local' = [local EXCEPT ![s] = @ \cup {taken[s] + 1}]
    /\ UNCHANGED <<pin, rotten, offsite, pc, call, pass, outcome>>

\* execute_send: the newest snapshot reaches the drive and is pinned.
Send(s, d) ==
    /\ pc = "run"
    /\ \E x \in local[s] :
          /\ \A y \in local[s] : y <= x
          /\ pin' = [pin EXCEPT ![s][d] = x]
    /\ rotten' = rotten \ {<<s, d>>}
    /\ offsite' = [offsite EXCEPT ![s] = @ \cup {d}]
    /\ UNCHANGED <<local, taken, pc, call, pass, outcome>>

\* The same, and the pin write fails (or the run is killed before it).
SendUnpinned(s, d) ==
    /\ pc = "run"
    /\ local[s] # {}
    /\ offsite' = [offsite EXCEPT ![s] = @ \cup {d}]
    /\ UNCHANGED <<local, taken, pin, rotten, pc, call, pass, outcome>>

RunEnds ==
    /\ pc = "run"
    /\ pc' = "idle"
    /\ away' = [s \in Subvols |-> {}]
    /\ UNCHANGED <<disk, present, tier, todo, shedAny, pass, outcome>>

(******************************** the reclaim ******************************)

\* A fault: the map of the run is used as it was frozen.
ReclaimStale ==
    /\ pc = "run"
    /\ pc' = "gate"
    /\ present' \in SUBSET Drives
    /\ UNCHANGED <<disk, away, tier, todo, shedAny, pass, outcome>>

\* handle_watchdog_trip (other filesystem) and the teardown: fresh_away_map
\* takes the drives that are back out of the frozen map.  The pool gets no
\* operation of this run any more (WatchdogRun).
ReclaimBegins ==
    /\ pc = "run"
    /\ pc' = "gate"
    /\ \E here \in SUBSET Drives :
          /\ away' = [s \in Subvols |-> away[s] \ here]
          /\ present' = here
    /\ UNCHANGED <<disk, tier, todo, shedAny, pass, outcome>>

\* The idle eject holds the lock and computes the map itself; the re-check of
\* the pressure it makes is the gate below once more.
EjectBegins ==
    /\ pc = "idle"
    /\ pc' = "gate"
    /\ \E here \in SUBSET Drives :
          /\ away' = [s \in Subvols |-> AwaySheddable(s, here)]
          /\ present' = here
    /\ UNCHANGED <<disk, tier, todo, shedAny, pass, outcome>>

StartTier(t, subvols) ==
    /\ pc' = "pick"
    /\ tier' = t
    /\ todo' = subvols

\* The absolute-level gate: measured at or above the floor nothing is shed;
\* below it, or with no answer from statvfs, Tier 1 begins.
Gate ==
    /\ pc = "gate"
    /\ \/ pc' = "done" /\ UNCHANGED <<tier, todo, shedAny>>
       \/ LET some == {s \in Subvols : away[s] # {}}
          IN  StartTier(1, some) /\ shedAny' = (some # {})
    /\ chained' = {s \in Subvols : PinnedIn(s) # {}}
    /\ UNCHANGED <<disk, away, present, pass, reported, trouble>>

\* The pass over a subvolume is over: `found` are the releases it returns.
EndPass(found) ==
    /\ pc' = "pick"
    /\ sv' = {} /\ toShed' = {} /\ doomed' = {} /\ releases' = {}
    /\ reported' = IF tier = 1 THEN reported \cup found ELSE reported

BeginPass(s) ==
    /\ pc' = "shed"
    /\ sv' = {s}
    /\ toShed' = IF tier = 1 THEN away[s] ELSE Drives
    /\ UNCHANGED <<doomed, releases, reported>>

\* A fault: a subvolume without a pin is reclaimed like any other.
PickUnchecked(s) ==
    /\ pc = "pick"
    /\ s \in todo
    /\ todo' = todo \ {s}
    /\ IF StrictReadFails(s)
       THEN EndPass({}) /\ trouble' = TRUE
       ELSE BeginPass(s) /\ UNCHANGED trouble
    /\ UNCHANGED <<disk, away, present, tier, shedAny, chained>>

\* shed_and_delete_unpinned, step 0: an unreadable pin refuses the subvolume,
\* no pin at all keeps it ("never the only copy").
Pick(s) ==
    /\ pc = "pick"
    /\ s \in todo
    /\ todo' = todo \ {s}
    /\ \/ StrictReadFails(s) /\ EndPass({}) /\ trouble' = TRUE
       \/ ~StrictReadFails(s) /\ PinnedIn(s) = {} /\ EndPass({}) /\ UNCHANGED trouble
       \/ ~StrictReadFails(s) /\ PinnedIn(s) # {} /\ BeginPass(s) /\ UNCHANGED trouble
    /\ UNCHANGED <<disk, away, present, tier, shedAny, chained>>

\* A fault: a release is recorded for a pin that was not there.
ShedPhantom(s, d) ==
    /\ pc = "shed"
    /\ sv = {s}
    /\ d \in toShed
    /\ toShed' = toShed \ {d}
    /\ releases' = releases \cup {[subvol |-> s, drive |-> d, parent |-> pin[s][d]]}
    /\ pin' = [pin EXCEPT ![s][d] = NoSnap]
    /\ rotten' = rotten \ {<<s, d>>}
    /\ UNCHANGED <<local, taken, offsite, pc, call, sv, doomed, outcome>>

\* Step 1, one pin file: it is read for the release, then removed.
ShedPin(s, d) ==
    /\ pc = "shed"
    /\ sv = {s}
    /\ d \in toShed
    /\ toShed' = toShed \ {d}
    /\ releases' = IF pin[s][d] # NoSnap /\ Readable(s, d)
                   THEN releases \cup {[subvol |-> s, drive |-> d, parent |-> pin[s][d]]}
                   ELSE releases
    /\ pin' = [pin EXCEPT ![s][d] = NoSnap]
    /\ rotten' = rotten \ {<<s, d>>}
    /\ UNCHANGED <<local, taken, offsite, pc, call, sv, doomed, outcome>>

\* The removal fails: the rest of the pass is refused.
ShedFails(s, d) ==
    /\ pc = "shed"
    /\ sv = {s}
    /\ d \in toShed
    /\ pin[s][d] # NoSnap
    /\ EndPass({})
    /\ trouble' = TRUE
    /\ UNCHANGED <<disk, call, chained>>

\* A fault: the pins are read again leniently.
ReReadLenient(s) ==
    /\ pc = "shed"
    /\ sv = {s}
    /\ toShed = {}
    /\ doomed' = local[s] \ {pin[s][d] : d \in {e \in Drives : Readable(s, e)}}
    /\ pc' = "delete"
    /\ UNCHANGED <<disk, call, sv, toShed, releases, outcome>>

\* Steps 2 and 3: the pins are read again, strictly, and the directory listed.
ReRead(s) ==
    /\ pc = "shed"
    /\ sv = {s}
    /\ toShed = {}
    /\ ~StrictReadFails(s)
    /\ doomed' = local[s] \ PinnedIn(s)
    /\ pc' = "delete"
    /\ UNCHANGED <<disk, call, sv, toShed, releases, outcome>>

\* A pin became unreadable, or the directory cannot be listed: refused.
ReReadFails(s) ==
    /\ pc = "shed"
    /\ sv = {s}
    /\ toShed = {}
    /\ EndPass({})
    /\ trouble' = TRUE
    /\ UNCHANGED <<disk, call, chained>>

DeleteSnapshot(s, x) ==
    /\ pc = "delete"
    /\ sv = {s}
    /\ x \in doomed
    /\ doomed' = doomed \ {x}
    /\ local' = [local EXCEPT ![s] = @ \ {x}]
    /\ UNCHANGED <<taken, pin, rotten, offsite, pc, call, sv, toShed, releases, outcome>>

\* A failed delete does not stop the loop.
DeleteFails(x) ==
    /\ pc = "delete"
    /\ x \in doomed
    /\ doomed' = doomed \ {x}
    /\ trouble' = TRUE
    /\ UNCHANGED <<disk, pc, call, sv, toShed, releases, reported, chained>>

PassEnds ==
    /\ pc = "delete"
    /\ doomed = {}
    /\ EndPass(releases)
    /\ UNCHANGED <<disk, call, chained, trouble>>

\* A fault: Tier 2 leaves out what Tier 1 went through.
TierTwoRest ==
    /\ pc = "pick"
    /\ tier = 1
    /\ todo = {}
    /\ \/ shedAny /\ pc' = "done" /\ UNCHANGED <<tier, todo>>
       \/ StartTier(2, {s \in Subvols : away[s] = {}})
    /\ UNCHANGED <<disk, away, present, shedAny, pass, outcome>>

\* Tier 1 is enough only if it had something to shed and the probe confirms.
TierOneEnds ==
    /\ pc = "pick"
    /\ tier = 1
    /\ todo = {}
    /\ \/ shedAny /\ pc' = "done" /\ UNCHANGED <<tier, todo>>
       \/ StartTier(2, Subvols)
    /\ UNCHANGED <<disk, away, present, shedAny, pass, outcome>>

TierTwoEnds ==
    /\ pc = "pick"
    /\ tier = 2
    /\ todo = {}
    /\ pc' = "done"
    /\ UNCHANGED <<disk, call, pass, outcome>>

Forgotten ==
    /\ pc' = "idle"
    /\ away' = [s \in Subvols |-> {}]
    /\ present' = {} /\ tier' = 1 /\ todo' = {} /\ shedAny' = FALSE
    /\ sv' = {} /\ toShed' = {} /\ doomed' = {} /\ releases' = {}
    /\ reported' = {} /\ chained' = {} /\ trouble' = FALSE

\* The caller records the outcome and is done with the pool.
Return == pc = "done" /\ Forgotten /\ UNCHANGED disk

\* The process is killed.
Crash == pc # "idle" /\ Forgotten /\ UNCHANGED disk

(******************************** the disk ********************************)

PinRots(s, d) ==
    /\ Cardinality(rotten) < MaxRotten
    /\ pin[s][d] # NoSnap
    /\ Readable(s, d)
    /\ rotten' = rotten \cup {<<s, d>>}
    /\ UNCHANGED <<local, taken, pin, offsite, pc, call, pass, outcome>>

Run ==
    \/ RunBegins \/ RunEnds
    \/ \E s \in Subvols : Create(s) \/ \E d \in Drives : Send(s, d) \/ SendUnpinned(s, d)

EmergencyReclaimPool ==
    \/ ReclaimBegins \/ EjectBegins \/ Gate \/ TierOneEnds \/ TierTwoEnds \/ PassEnds
    \/ Return
    \/ \E s \in Subvols :
          \/ Pick(s) \/ ReRead(s) \/ ReReadFails(s)
          \/ \E d \in Drives : ShedPin(s, d) \/ ShedFails(s, d)
          \/ \E x \in Snaps : DeleteSnapshot(s, x)
    \/ \E x \in Snaps : DeleteFails(x)

Rot == \E s \in Subvols, d \in Drives : PinRots(s, d)

Next == Run \/ EmergencyReclaimPool \/ Crash \/ Rot

Spec == Init /\ [][Next]_vars

(******************************** properties *******************************)

\* The reclaim implements ChainStore: a snapshot is dropped only when no drive
\* is pinned to it, readable or not, and only from a subvolume that is stored
\* on a drive (the never-the-only-copy rule of ADR-106/107), through both
\* tiers, crashes and pin files that rot between two steps.
Chain == INSTANCE ChainStore WITH kept <- local, anchor <- pin, stored <- offsite

ImplementsChainStore == Chain!StoreSpec

\* In every state a pin names a snapshot that is still there and a drive that
\* holds a copy: no reclaim leaves a chain half-cut behind.
PinsHold == Chain!AnchorsHold

\* Tier 1 leaves the chain of a drive that was present when the map was
\* confirmed as it was: neither its pin nor its parent goes, although the map
\* was made before the sends of the run ("the connected incremental chains
\* survive").
TierOneSparesConnected ==
    [][\A s \in Subvols, d \in Drives :
          pc \in {"shed", "delete"} /\ tier = 1 /\ d \in present
             /\ pin[s][d] # NoSnap
          => pin'[s][d] = pin[s][d] /\ pin[s][d] \in local'[s]]_vars

\* A reclaim that went through both tiers without a failure leaves nothing of
\* a subvolume that had a chain: what Tier 1 did to its pins never turns the
\* never-the-only-copy rule of Tier 2 against the space it has to free.
BlanketFreesAllChained ==
    pc = "done" /\ tier = 2 /\ ~trouble =>
        \A s \in chained : PinnedIn(s) = {} /\ local[s] = {}

(*************************** inductive invariant ***************************)

\* A pass works on one subvolume, and only on one that is stored elsewhere.
PassIsStored ==
    pc \in {"shed", "delete"} => \E s \in Subvols : sv = {s} /\ offsite[s] # {}

\* What will be deleted is there, and no pin names it.
DoomedUnpinned ==
    pc = "delete" => \A s \in sv : doomed \subseteq local[s] \ PinnedIn(s)

\* Tier 1 has nothing to shed of a drive that was seen present.
ShedOnlyAbsent ==
    /\ pc \in {"gate", "pick", "shed", "delete"} => \A s \in Subvols : away[s] \cap present = {}
    /\ pc = "shed" /\ tier = 1 => toShed \cap present = {}

IInv == TypeOK /\ PinsHold /\ PassIsStored /\ DoomedUnpinned /\ ShedOnlyAbsent
===============================================================================
