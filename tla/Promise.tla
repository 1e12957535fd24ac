------------------------------- MODULE Promise -------------------------------
(***************************************************************************)
(* What a PROTECTED subvolume promises, and what keeps it so.  The planner *)
(* decides by the dates of the snapshots it lists (plan/mod.rs,            *)
(* plan/local.rs, plan/send.rs, plan/transient.rs); awareness judges by    *)
(* the times of recorded sends (awareness/mod.rs, awareness/freshness.rs,  *)
(* rotation.rs).  One subvolume that is sent to drives, many runs.         *)
(*                                                                         *)
(* Times are ages: `newest`, `listed`, `pin` and `sent` are read off the   *)
(* wall clock, which may be set back.  A lag is real time: how long ago    *)
(* the source first changed after the snapshot was taken, that is, how     *)
(* much work a restore from it would lose.                                 *)
(***************************************************************************)
EXTENDS Integers

CONSTANTS
    Drives,          \* the destinations of the subvolume
    Offsite,         \* those with role offsite
    Test,            \* those with role test
    Tiers,           \* the tiers the source pool may arm
    Lifecycles,      \* the declared local retention: "graduated", "transient"
    Fortified,       \* TRUE at the protection level fortified
    SnapInterval, SendInterval,   \* as declared
    WeeklyFloor,     \* the send interval Critical does not go below
    Rotation,        \* the declared rotation interval of the offsite drives
    GraceCap,        \* the most an interval is shortened by
    MaxRun,          \* the longest run
    TimerMax,        \* from the start of a run to the end of the next
    Waits, SetBacks, \* steps of the clock
    Gaps,            \* how much older the local snapshot before the newest may be
    Cap,             \* ages are not told apart beyond it
    MaxSkew,         \* all set-backs together
    MaxMishaps       \* failures, kills, unusual runs, plugs, pools that move

ASSUME IntervalAssumption ==
    /\ SnapInterval \in Nat \ {0} /\ SendInterval \in Nat \ {0}
    /\ WeeklyFloor \in Nat /\ Rotation \in Nat /\ GraceCap \in Nat
    /\ Waits \subseteq Nat \ {0} /\ SetBacks \subseteq Nat \ {0} /\ Gaps \subseteq Nat
    /\ MaxRun \in Nat /\ TimerMax \in Nat /\ MaxSkew \in Nat /\ MaxMishaps \in Nat
    /\ Cap \in Nat

ASSUME RoleAssumption ==
    /\ Offsite \subseteq Drives /\ Test \subseteq Drives
    /\ Tiers \subseteq {"roomy", "tight", "critical"}
    /\ Lifecycles \subseteq {"graduated", "transient"}
    /\ Fortified \in BOOLEAN

Never == Cap + 1     \* the age of what does not exist
Same  == -1          \* the lag of a snapshot the source still equals
Late  == TimerMax + 1

VARIABLES
    declared,   \* the local retention of the configuration
    tier,       \* the armed tier of the source pool
    mounted,    \* the drives that are there
    newest,     \* age of the newest local snapshot, by its date
    newestLag,  \* and its lag
    listed,     \* per drive, age of the newest snapshot it lists
    held,       \* the drives that list the newest local snapshot
    pin,        \* per drive, age of the snapshot its pin names
    pinLag,     \* and its lag
    copyLag,    \* per drive, lag of the newest complete copy
    emptied,    \* drives that lost the copy their pin names
    excused,    \* drives whose copy is older than the record of the last send
                \* says: emptied since, or sent a snapshot overdue itself
    sent,       \* per drive, age of the last recorded successful send
    unrecorded, \* drives that list a snapshot newer than that record
    run,        \* the backup run under way
    since,      \* time since the last good run started
    steady,     \* drives every good run since has served
    skew,       \* the set-backs so far
    mishaps

disk == <<newest, newestLag, listed, held, pin, pinLag, copyLag, emptied>>
vars == <<declared, tier, mounted, disk, excused, sent, unrecorded, run, since,
          steady, skew, mishaps>>

Least(a, b) == IF a <= b THEN a ELSE b
Most(a, b)  == IF a <= b THEN b ELSE a

------------------------------------------------------------------------------
(* Intervals. *)

\* Tight stretches the send interval, Critical floors it.
Effective ==
    CASE tier = "roomy"    -> SendInterval
      [] tier = "tight"    -> (3 * SendInterval) \div 2
      [] tier = "critical" -> Most(SendInterval, WeeklyFloor)

\* A fault: the interval is waited for in full.
NoGrace(interval) == 0

\* A timer that fires a little early still finds the interval over.
Grace(interval) == Least(interval \div 20, GraceCap)

\* A fault: one interval too many.
ElapsedTwice(age, interval) == age \div interval > 1

Elapsed(age, interval) == age >= interval - Grace(interval)

\* How long an offsite drive may be away before it is overdue, and stale.
Overdue == (Rotation * 5) \div 4
Stale == 2 * Overdue

------------------------------------------------------------------------------
(* The judgement.  `known` says whether the generations can be read. *)

Protected == 2
AtRisk == 1
Unprotected == 0

\* Halves, so that 1.5 intervals are a whole number.
Freshness(age, interval, risk, exposed) ==
    IF 2 * age <= interval * risk THEN Protected
    ELSE IF 2 * age <= interval * exposed THEN AtRisk
    ELSE Unprotected

LocalStatus(known) ==
    IF declared = "transient" THEN Protected
    ELSE IF newest = Never THEN Unprotected
    ELSE IF known /\ newestLag = Same THEN Protected
    ELSE Freshness(Most(newest, 0), SnapInterval, 4, 10)

\* A fault: the newest snapshot is compared, whether a drive has it or not.
UnchangedSinceNewest(d, known) == known /\ newestLag = Same

\* The source equals the snapshot the pin names; a drive that is there must
\* list it, of one that is away the pin is believed.
SourceUnchanged(d, known) ==
    /\ known
    /\ pin[d] # Never
    /\ pinLag[d] = Same
    /\ d \in mounted => d \notin emptied

Classify(age) ==
    IF age <= Overdue THEN Protected
    ELSE IF age <= Stale THEN AtRisk
    ELSE Unprotected

\* An offsite drive on its rounds, while another real drive is there.
Relaxed(d) == d \in Offsite /\ d \notin mounted /\ mounted \ Test # {}

CopyStatus(d, known) ==
    IF sent[d] = Never THEN Unprotected
    ELSE IF SourceUnchanged(d, known) THEN Protected
    ELSE IF Relaxed(d) THEN Classify(Most(sent[d], 0))
    ELSE Freshness(Most(sent[d], 0), Effective, 3, 6)

BestOf(ds, known) ==
    IF \E d \in ds : CopyStatus(d, known) = Protected THEN Protected
    ELSE IF \E d \in ds : CopyStatus(d, known) = AtRisk THEN AtRisk
    ELSE Unprotected

\* assess: the worse half, never PROTECTED at Critical.
Assessed(known) ==
    LET overall == Least(LocalStatus(known), BestOf(Drives, known))
    IN  IF tier = "critical" THEN Least(overall, AtRisk) ELSE overall

\* assess_view: at fortified no better than the freshest offsite copy, which
\* counts as AT RISK at worst.
Status(known) ==
    IF Fortified
      THEN Least(Assessed(known), Most(BestOf(Offsite, known), AtRisk))
      ELSE Assessed(known)

------------------------------------------------------------------------------
(* A run: plan and create at its start, then the sends one by one. *)

Kinds == {"auto", "manual", "local", "external"}   \* the filters of a run
Rooms == {"enough", "under floor", "full"}         \* space on the source pool

Idle == [on |-> FALSE, age |-> 0, due |-> {}, served |-> {}, good |-> FALSE,
         whole |-> TRUE, clears |-> FALSE, aged |-> FALSE, drops |-> FALSE]

Init ==
    /\ declared \in Lifecycles
    /\ tier \in Tiers
    /\ mounted \in SUBSET Drives
    /\ newest = Never /\ newestLag = Never
    /\ listed = [d \in Drives |-> Never] /\ held = {}
    /\ pin = [d \in Drives |-> Never] /\ pinLag = pin /\ copyLag = pin
    /\ emptied = {} /\ excused = {}
    /\ sent = [d \in Drives |-> Never] /\ unrecorded = {}
    /\ run = Idle
    /\ since = Late /\ steady = {}
    /\ skew = 0 /\ mishaps = 0

Mishap(n) == mishaps + n <= MaxMishaps /\ mishaps' = mishaps + n
Count(set) == IF set = {} THEN 0 ELSE 1

TransientHere == declared = "transient" \/ tier # "roomy"

\* The newest copy a drive lists is old enough, by its date.
SendDue(d, forced) ==
    forced \/ listed[d] = Never \/ Elapsed(listed[d], Effective)

\* The interval first, then the generation, then the name.
SnapshotDue(forced, known) ==
    /\ forced \/ newest = Never \/ Elapsed(newest, SnapInterval)
    /\ ~(known /\ newestLag = Same)
    /\ newest # 0

\* A fault: that there is a snapshot to send is not looked at.
DueBlindly(wanted, leads, created) ==
    IF leads THEN IF created THEN wanted ELSE {} ELSE wanted \ held

\* The drives the newest snapshot there will be goes to: there is one, and the
\* drive lists nothing of its name.
Due(wanted, leads, created) ==
    IF leads THEN IF created THEN wanted ELSE {}
    ELSE {d \in wanted : newest # Never /\ d \notin held}

\* A pin of a drive that is away and that no drive shares that is there.
AwayPin(d) ==
    /\ d \notin mounted
    /\ pin[d] # Never
    /\ \A m \in mounted : pin[m] # pin[d]

Unpin(ds) ==
    /\ pin' = [d \in Drives |-> IF d \in ds THEN Never ELSE pin[d]]
    /\ pinLag' = [d \in Drives |-> IF d \in ds THEN Never ELSE pinLag[d]]
    /\ emptied' = emptied \ ds

\* What transient retention keeps of the newest snapshot: a pin of it, at
\* Critical of a drive that is there, or an older such pin.
Unsent ==
    \A d \in Drives :
        /\ d \in mounted \/ tier # "critical" => pin[d] # newest
        /\ d \in mounted => pin[d] = Never \/ pin[d] <= newest

\* The run plans at one instant, and the snapshot comes first.
RunBegins(kind, room, blocked, known, created) ==
    LET forced  == kind = "manual"
        targets == mounted \ blocked
        sends   == /\ room = "enough"
                   /\ kind # "local" \/ TransientHere
        wanted  == {d \in targets : sends /\ SendDue(d, forced)}
        makes   == /\ kind # "external" /\ room # "full"
                   /\ SnapshotDue(forced, known)
                   /\ TransientHere => wanted # {}
        \* A snapshot dated before the newest does not become the newest.
        leads   == makes /\ newest >= 0
        made    == leads /\ created
    IN  /\ ~run.on
        /\ blocked \subseteq mounted
        /\ created \/ makes
        /\ Mishap(Count(blocked) + (IF room = "enough" THEN 0 ELSE 1)
                  + (IF created THEN 0 ELSE 1) + (IF known THEN 0 ELSE 1)
                  + (IF kind = "auto" THEN 0 ELSE 1))
        /\ run' = [on |-> TRUE, age |-> 0, due |-> Due(wanted, leads, created), served |-> {},
                   good |-> kind \in {"auto", "manual"} /\ room = "enough" /\ created,
                   whole |-> TRUE,
                   clears |-> tier = "critical" /\ ~\E d \in Drives : AwayPin(d),
                   aged |-> ~makes /\ newestLag # Same /\ Elapsed(newest, SnapInterval),
                   drops |-> TransientHere /\ ~made /\ newest # Never /\ Unsent]
        /\ IF made
             THEN newest' = 0 /\ newestLag' = Same /\ held' = {}
             ELSE UNCHANGED <<newest, newestLag, held>>
        /\ IF tier = "critical" THEN Unpin({d \in Drives : AwayPin(d)})
                               ELSE UNCHANGED <<pin, pinLag, emptied>>
        /\ steady' = steady \ blocked
        /\ UNCHANGED <<declared, tier, mounted, listed, copyLag, excused,
                       sent, unrecorded, since, skew>>

\* The copy, its pin (none where the local side is cleared) and its record,
\* under the time the run started; the latest by date is what is read back.  A
\* pin that cannot be written stays.
SendSucceeds(d, pinned, recorded) ==
    /\ run.on /\ d \in run.due /\ d \in mounted
    /\ run.clears => pinned
    /\ Mishap((IF pinned THEN 0 ELSE 1) + (IF recorded THEN 0 ELSE 1))
    /\ listed' = [listed EXCEPT ![d] = Least(@, newest)]
    /\ held' = held \union {d}
    /\ copyLag' = [copyLag EXCEPT ![d] = Least(@, newestLag)]
    /\ IF pinned /\ ~run.clears
         THEN /\ pin' = [pin EXCEPT ![d] = newest]
              /\ pinLag' = [pinLag EXCEPT ![d] = newestLag]
              /\ emptied' = emptied \ {d}
         ELSE UNCHANGED <<pin, pinLag, emptied>>
    /\ IF recorded
         THEN /\ sent' = [sent EXCEPT ![d] = Least(@, run.age)]
              /\ excused' = IF run.aged \/ d \in emptied' THEN excused \union {d}
                            ELSE IF sent'[d] = run.age THEN excused \ {d}
                            ELSE excused
              /\ unrecorded' = unrecorded \ {d}
         ELSE /\ unrecorded' = unrecorded \union {d}
              /\ UNCHANGED <<sent, excused>>
    /\ run' = [run EXCEPT !.due = @ \ {d}, !.served = @ \union {d},
                          !.good = @ /\ pinned /\ recorded,
                          !.whole = @ /\ pinned]
    /\ steady' = IF pinned /\ recorded THEN steady ELSE steady \ {d}
    /\ UNCHANGED <<declared, tier, mounted, newest, newestLag, since, skew>>

\* A send fails, and may leave a partial copy that bears the name.
SendFails(d, partial) ==
    /\ run.on /\ d \in run.due
    /\ partial => d \in mounted
    /\ Mishap(1)
    /\ IF partial
         THEN /\ listed' = [listed EXCEPT ![d] = Least(@, newest)]
              /\ held' = held \union {d}
              /\ unrecorded' = unrecorded \union {d}
         ELSE UNCHANGED <<listed, held, unrecorded>>
    /\ run' = [run EXCEPT !.due = @ \ {d}, !.whole = FALSE]
    /\ steady' = steady \ {d}
    /\ UNCHANGED <<declared, tier, mounted, newest, newestLag, pin, pinLag,
                   copyLag, emptied, excused, sent, since, skew>>

\* A run told to stop leaves the operations that remain, not the cleanup.
ShutDown ==
    /\ run.on
    /\ Mishap(1)
    /\ run' = [run EXCEPT !.due = {}, !.good = FALSE, !.drops = FALSE]
    /\ UNCHANGED <<declared, tier, mounted, disk, excused, sent, unrecorded, since,
                   steady, skew>>

\* The planned deletions come first, and none takes what a pin names.
Drops == run.drops /\ \A d \in Drives : pin[d] # newest

\* Then a clear-all gives up the pins of the drives it served, and only when
\* all of them are gone deletes what it sent, unless a pin still names it.
Clears == run.clears /\ run.whole /\ run.served # {}

NewestGoes ==
    /\ newest # Never
    /\ \/ Drops
       \/ /\ Clears
          /\ \A d \in run.served : pin'[d] = Never
          /\ \A d \in Drives : pin'[d] # newest

\* What is the newest then: nothing; a snapshot a pin names or named, where the
\* deletion failed or a full send left its parent; or one in between that the
\* planner kept as unsent, being newer than a pin.
NextNewest(deleted, lost) ==
    /\ \/ newest' = Never /\ newestLag' = Never /\ held' = {}
       \/ \E d \in Drives, others \in SUBSET Drives :
            /\ pin[d] # Never
            /\ d \in lost => ~deleted \/ d \in emptied
            /\ newest' = pin[d] /\ newestLag' = pinLag[d]
            /\ \A e \in others : listed[e] <= pin[d]
            /\ held' = others \union {e \in Drives \ emptied : pin[e] = pin[d]}
       \/ \E g \in Gaps, others \in SUBSET Drives :
            /\ newest' = Least(newest + g, Cap)
            /\ deleted => Clears /\ \E d \in Drives : pin[d] # Never /\ newest' < pin[d]
            /\ newestLag' \in {newestLag, Least(newest' + skew, Cap)}
            /\ \A e \in others : listed[e] <= newest'
            /\ held' = others
    /\ \A d \in Drives : newest' <= pin'[d]

\* Removing a pin and deleting may fail, each time for some of them.
RunEnds(deleted) ==
    /\ run.on /\ run.due = {}
    /\ deleted \/ Clears \/ Drops
    /\ Mishap(IF deleted THEN 0 ELSE 1)
    /\ \E lost \in SUBSET run.served :
         /\ IF Clears THEN deleted => lost = run.served ELSE lost = {}
         /\ Unpin(lost)
         /\ \/ NewestGoes /\ NextNewest(deleted, lost)
            \/ (deleted => ~NewestGoes) /\ UNCHANGED <<newest, newestLag, held>>
    /\ run' = Idle
    /\ since' = IF run.good THEN Least(Most(run.age, 0), Late) ELSE since
    /\ steady' = IF since' > TimerMax THEN {}
                 ELSE IF run.good THEN steady \union (run.served \intersect mounted)
                 ELSE steady
    /\ UNCHANGED <<declared, tier, mounted, listed, copyLag, excused, sent, unrecorded,
                   skew>>

\* The run is killed, perhaps in the middle of a receive.
Killed(partial) ==
    /\ run.on
    /\ partial \subseteq run.due \intersect mounted
    /\ Mishap(1)
    /\ listed' = [d \in Drives |-> IF d \in partial THEN Least(listed[d], newest)
                                   ELSE listed[d]]
    /\ held' = held \union partial
    /\ unrecorded' = unrecorded \union partial
    /\ run' = Idle
    /\ steady' = steady \ partial
    /\ UNCHANGED <<declared, tier, mounted, newest, newestLag, pin, pinLag,
                   copyLag, emptied, excused, sent, since, skew>>

------------------------------------------------------------------------------
(* The world. *)

Older(age, k) == IF age = Never THEN Never ELSE Least(age + k, Cap)
Staler(lag, k) == IF lag = Same THEN Same ELSE Older(lag, k)

Wait(k) ==
    /\ run.on => run.age + k <= MaxRun
    /\ newest' = Older(newest, k) /\ newestLag' = Staler(newestLag, k)
    /\ listed' = [d \in Drives |-> Older(listed[d], k)]
    /\ pin' = [d \in Drives |-> Older(pin[d], k)]
    /\ pinLag' = [d \in Drives |-> Staler(pinLag[d], k)]
    /\ copyLag' = [d \in Drives |-> Staler(copyLag[d], k)]
    /\ sent' = [d \in Drives |-> Older(sent[d], k)]
    /\ run' = IF run.on THEN [run EXCEPT !.age = Older(@, k)] ELSE run
    /\ since' = Least(since + k, Late)
    /\ steady' = IF since' > TimerMax THEN {} ELSE steady
    /\ UNCHANGED <<declared, tier, mounted, held, emptied, excused, unrecorded, skew,
                   mishaps>>

Younger(age, k) == IF age = Never THEN Never ELSE age - k

ClockSetBack(k) ==
    /\ skew + k <= MaxSkew /\ skew' = skew + k
    /\ Mishap(1)
    /\ newest' = Younger(newest, k)
    /\ listed' = [d \in Drives |-> Younger(listed[d], k)]
    /\ pin' = [d \in Drives |-> Younger(pin[d], k)]
    /\ sent' = [d \in Drives |-> Younger(sent[d], k)]
    /\ run' = IF run.on THEN [run EXCEPT !.age = @ - k] ELSE run
    /\ UNCHANGED <<declared, tier, mounted, newestLag, held, pinLag, copyLag,
                   emptied, excused, unrecorded, since, steady>>

\* The source changes.  The runs found nothing to do while it did not: what
\* it equals was already due at the start of the last one.
LastStart == IF run.on THEN run.age ELSE since

WasIdle ==
    \/ newestLag = Same /\ Elapsed(newest - LastStart, SnapInterval)
    \/ \E d \in Drives : copyLag[d] = Same /\ Elapsed(listed[d] - LastStart, Effective)

SourceChanges ==
    /\ newestLag' = IF newestLag = Same THEN 0 ELSE newestLag
    /\ pinLag' = [d \in Drives |-> IF pinLag[d] = Same THEN 0 ELSE pinLag[d]]
    /\ copyLag' = [d \in Drives |-> IF copyLag[d] = Same THEN 0 ELSE copyLag[d]]
    /\ steady' = IF WasIdle THEN {} ELSE steady
    /\ run' = [run EXCEPT !.good = @ /\ ~WasIdle]
    /\ UNCHANGED <<declared, tier, mounted, newest, listed, held, pin, emptied,
                   excused, sent, unrecorded, since, skew, mishaps>>

Plug(d) ==
    /\ d \notin mounted /\ mounted' = mounted \union {d}
    /\ Mishap(1)
    /\ UNCHANGED <<declared, tier, disk, excused, sent, unrecorded, run, since, steady,
                   skew>>

Unplug(d) ==
    /\ d \in mounted /\ mounted' = mounted \ {d}
    /\ Mishap(1)
    /\ steady' = steady \ {d}
    /\ UNCHANGED <<declared, tier, disk, excused, sent, unrecorded, run, since, skew>>

\* The operator empties a drive, or puts a new one under its label.
Emptied(d) ==
    /\ Mishap(1)
    /\ listed' = [listed EXCEPT ![d] = Never]
    /\ held' = held \ {d}
    /\ copyLag' = [copyLag EXCEPT ![d] = Never]
    /\ emptied' = IF pin[d] = Never THEN emptied ELSE emptied \union {d}
    /\ excused' = excused \union {d}
    /\ steady' = steady \ {d}
    /\ UNCHANGED <<declared, tier, mounted, newest, newestLag, pin, pinLag, sent,
                   unrecorded, run, since, skew>>

PoolMoves(t) ==
    /\ t # tier /\ tier' = t
    /\ Mishap(1)
    /\ steady' = {}
    /\ run' = [run EXCEPT !.good = FALSE]
    /\ UNCHANGED <<declared, mounted, disk, excused, sent, unrecorded, since, skew>>

Run ==
    \/ \E kind \in Kinds, room \in Rooms, blocked \in SUBSET Drives,
          known, created \in BOOLEAN : RunBegins(kind, room, blocked, known, created)
    \/ \E d \in Drives, pinned, recorded \in BOOLEAN : SendSucceeds(d, pinned, recorded)
    \/ \E d \in Drives, partial \in BOOLEAN : SendFails(d, partial)
    \/ ShutDown
    \/ \E deleted \in BOOLEAN : RunEnds(deleted)
    \/ \E partial \in SUBSET Drives : Killed(partial)

World ==
    \/ \E k \in Waits : Wait(k)
    \/ \E k \in SetBacks : ClockSetBack(k)
    \/ SourceChanges
    \/ \E d \in Drives : Plug(d) \/ Unplug(d) \/ Emptied(d)
    \/ \E t \in Tiers : PoolMoves(t)

Next == Run \/ World

Spec == Init /\ [][Next]_vars

------------------------------------------------------------------------------
(* Properties. *)

Ages == (-MaxSkew)..Never
Lags == Same..Never

\* Every age and lag is in range, and what there is none of is nowhere: with no
\* local snapshot no drive lists it and no run sends it.
TypeOK ==
    /\ declared \in Lifecycles /\ tier \in Tiers
    /\ mounted \subseteq Drives /\ held \subseteq Drives
    /\ emptied \subseteq Drives /\ excused \subseteq Drives
    /\ unrecorded \subseteq Drives /\ steady \subseteq Drives
    /\ newest \in Ages /\ newestLag \in Lags
    /\ newest = Never <=> newestLag = Never
    /\ newest = Never => held = {} /\ run.due = {}
    /\ listed \in [Drives -> Ages] /\ pin \in [Drives -> Ages]
    /\ pinLag \in [Drives -> Lags] /\ copyLag \in [Drives -> Lags]
    /\ sent \in [Drives -> Ages]
    /\ run \in [on : BOOLEAN, age : Ages, due : SUBSET Drives,
                served : SUBSET Drives, good : BOOLEAN, whole : BOOLEAN,
                clears : BOOLEAN, aged : BOOLEAN, drops : BOOLEAN]
    /\ since \in 0..Late
    /\ skew \in 0..MaxSkew /\ mishaps \in 0..MaxMishaps

\* How old a send may be before its drive stops being PROTECTED, in halves.
Allowed(d) == IF Relaxed(d) THEN Most(2 * Overdue, 3 * Effective) ELSE 3 * Effective

\* The work a restore from the drive loses.
LossBounded(d) == 2 * copyLag[d] <= Allowed(d) + 2 * SnapInterval + 2 * skew

\* PROTECTED says that a restore loses no more than the age awareness allows a
\* send, one snapshot interval, and what the clock was set back by, whatever
\* failed since; at fortified an offsite copy says so too.  Excepted is a
\* drive emptied behind urd's back, and one an `--external-only` run sent a
\* snapshot that was overdue, until the next recorded send.
ProtectedBoundsLoss ==
    \A known \in BOOLEAN :
        /\ \A d \in Drives \ excused :
             CopyStatus(d, known) = Protected => LossBounded(d)
        /\ LocalStatus(known) = Protected =>
             declared = "transient" \/ newestLag <= 2 * SnapInterval + skew
        /\ Fortified /\ Status(known) = Protected =>
             \E d \in Offsite : d \in excused \/ LossBounded(d)

\* As long as good runs follow each other within TimerMax and one drive is
\* served by each, a roomy subvolume reads PROTECTED, between the runs and
\* during them.
TimelyRunsKeepProtected ==
    steady # {} /\ tier = "roomy" /\ skew = 0 => Assessed(TRUE) = Protected

\* Whatever awareness warns of the planner acts on: a drive that is there and
\* is not PROTECTED is due, unless it lists a snapshot no send was recorded for.
AlarmMeansDue ==
    \A d \in mounted \ unrecorded :
        CopyStatus(d, TRUE) # Protected =>
            SendDue(d, FALSE) \/ 2 * skew > Effective
==============================================================================
