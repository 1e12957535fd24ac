--------------------------- MODULE RetentionHistory ---------------------------
(***************************************************************************)
(* One location of a subvolume over time: its local snapshot directory, or *)
(* its directory on a drive.  Runs of the backup take or receive a         *)
(* snapshot and thin what is there; the operator edits the retention, and  *)
(* the retention-change gate (ADR-110) holds what a tightening would       *)
(* delete until it is confirmed.  A retention shape has a local and an     *)
(* external half: `this' is the half that rules the location, `other' the  *)
(* second one, a number that is larger the more it keeps.                  *)
(***************************************************************************)
EXTENDS Retention

CONSTANTS Policies,    \* what `this' may be: shapes, and Transient
          Others,      \* what `other' may be
          Starts,      \* the places and configurations a behaviour starts with
          Menu,        \* the configurations the operator edits it to
          Interval, Grace,
          NoRow,       \* a half that has no record
          MaxEdits, MaxSetBacks, MaxFaults,   \* bounds
          Pinning       \* bound: whether a snapshot may be pinned

ASSUME HistoryAssumption ==
  /\ Policies \subseteq Shape \cup {Transient}
  /\ Others \subseteq Nat
  /\ Transient \notin Shape /\ NoRow \notin Shape \cup {Transient} /\ NoRow \notin Nat
  /\ Interval \in Nat /\ Grace \in Nat
  /\ MaxEdits \in Nat /\ MaxSetBacks \in Nat /\ MaxFaults \in Nat /\ Pinning \in BOOLEAN

Configs == [this : Policies, other : Others, promise : BOOLEAN, sends : BOOLEAN]

ASSUME StartsAssumption ==
  /\ Starts \subseteq [place : {"local", "drive"}, config : Configs]
  /\ Menu \subseteq Configs

Rows == [this : Policies \cup {NoRow}, other : Others \cup {NoRow}]

VARIABLES now,        \* the clock
          place,      \* "local" or "drive"
          snaps,      \* the snapshots of the location
          config,     \* the subvolume as configured
          row,        \* its row of the table retention_shapes
          run,        \* the backup run under way
          under,      \* history: the policy `this' was last applied as
          mark,       \* history: a snapshot the location kept under a shape
          settled,    \* history: confirmed, and not edited since
          edits, setBacks, faults   \* counted for their bounds

vars == <<now, place, snaps, config, row, run, under, mark, settled, edits, setBacks, faults>>

NoRun == [active |-> FALSE, adds |-> {}, dels |-> {}, row |-> [this |-> NoRow, other |-> NoRow],
          gated |-> FALSE, holds |-> FALSE, applies |-> FALSE, settles |-> FALSE]
NoMark == [on |-> FALSE, at |-> 0, by |-> NoTiers, pressed |-> FALSE]

TypeOK ==
  /\ now \in Instants
  /\ place \in {"local", "drive"}
  /\ snaps \subseteq Instants
  /\ config \in Configs
  /\ row \in Rows
  /\ run \in [active : BOOLEAN, adds : SUBSET Instants, dels : SUBSET Instants, row : Rows,
              gated : BOOLEAN, holds : BOOLEAN, applies : BOOLEAN, settles : BOOLEAN]
  /\ under \in Policies \cup {NoRow}
  /\ mark \in [on : BOOLEAN, at : Instants, by : Shape, pressed : BOOLEAN]
  /\ settled \in BOOLEAN
  /\ edits \in 0 .. MaxEdits
  /\ setBacks \in 0 .. MaxSetBacks
  /\ faults \in 0 .. MaxFaults

Init ==
  /\ now = 0
  /\ \E s \in Starts : place = s.place /\ config = s.config
  /\ snaps = {}
  /\ row = [this |-> NoRow, other |-> NoRow]
  /\ run = NoRun
  /\ under = NoRow
  /\ mark = NoMark
  /\ settled = FALSE
  /\ edits = 0
  /\ setBacks = 0
  /\ faults = 0

------------------------------------------------------------------------------
(* The gate.                                                               *)

\* External retention never runs with sends off: the half reads as absent.
ThisTightened ==
  /\ row.this # NoRow
  /\ place = "drive" => config.sends
  /\ TiersTightened(TierCounts(row.this), TierCounts(config.this))

\* A fault: an external half that cannot run is judged all the same.
JudgesDisabledExternal == row.other # NoRow /\ config.other < row.other

OtherTightened ==
  /\ row.other # NoRow
  /\ place = "local" => config.sends
  /\ config.other < row.other

\* pending_retention_changes
Pending == config.promise /\ (ThisTightened \/ OtherTightened)

Held(confirmed, readable) == Pending /\ readable /\ ~confirmed

\* RecordScope::halves, per half of the location.
ThisRan(scope) ==
  IF place = "local" THEN scope # "external_only" ELSE scope # "local_only" /\ config.sends
OtherRan(scope) ==
  IF place = "drive" THEN scope # "external_only" ELSE scope # "local_only" /\ config.sends

\* A fault: a held subvolume records what it was not thinned to.
RecordsHeld(scope, confirmed, readable) ==
  IF ~readable THEN row
  ELSE [this |-> IF ThisRan(scope) THEN config.this ELSE row.this,
        other |-> IF OtherRan(scope) THEN config.other ELSE row.other]

\* A fault: the tiers are recorded, and that they were a transient's is lost.
RecordsTiers(scope, confirmed, readable) ==
  IF Held(confirmed, readable) \/ ~readable THEN row
  ELSE [this |-> IF ThisRan(scope) THEN TierCounts(config.this) ELSE row.this,
        other |-> IF OtherRan(scope) THEN config.other ELSE row.other]

\* RecordedRetention::merged, and record_retention_shapes: a held subvolume
\* records nothing, nor does a run that could not read the table.
Recorded(scope, confirmed, readable) ==
  IF Held(confirmed, readable) \/ ~readable THEN row
  ELSE [this |-> IF ThisRan(scope) THEN config.this ELSE row.this,
        other |-> IF OtherRan(scope) THEN config.other ELSE row.other]

------------------------------------------------------------------------------
(* The plan.                                                               *)

\* plan_local_snapshot: the space guard; the interval from the newest
\* snapshot, however dated; an unchanged source; a name that is taken.
CreateAllowed(low, forced, changed) ==
  /\ ~low
  /\ forced \/ \A s \in snaps : now - s >= Interval - Grace
  /\ forced \/ changed \/ snaps = {}
  /\ now \notin snaps

\* What the transient route protects: pins, or only those of mounted drives
\* when the pool is critical, and what is newer than a mounted one.
TransientProtected(pins, mounted, critical) ==
  IF config.sends
  THEN (IF critical THEN mounted ELSE pins)
         \cup {s \in snaps : \E p \in mounted : s > p}
  ELSE pins

Protected(pins) ==
  IF place = "local" THEN GraduatedProtected(snaps, pins, config.sends) ELSE pins

\* withholds: the policy deletes the recorded shape would not make.
Withheld(policy, pins, held, adapted, listed) ==
  IF ~held THEN {}
  ELSE IF ~listed THEN policy
  ELSE IF ~ThisTightened \/ adapted THEN {}
  ELSE policy \cap Kept(Windows(snaps, TierCounts(row.this), now), Protected(pins), FALSE)

\* A cutoff of c lies later than the same cutoff of p: c promises less.  A
\* cutoff before the first instant cuts nothing off.
LaterCutoff(p, c) ==
  \/ HourlyCutoff(c, now) > HourlyCutoff(p, now)
  \/ DailyCutoff(c, now) > DailyCutoff(p, now)
  \/ WeeklyCutoff(c, now) > WeeklyCutoff(p, now)
  \/ MonthlyCutoff(c, now) > 0 /\ MonthlyCutoff(c, now) > MonthlyCutoff(p, now)
  \/ YearlyCutoff(c, now) > 0 /\ YearlyCutoff(c, now) > YearlyCutoff(p, now)

\* The mark is given up when the operator agreed to another policy (by the
\* flag, by spelling retention out, by loosening), when no record could be
\* read, and when the host's space comes first.
Released(confirmed, readable, low, extras, adapted) ==
  \/ ~mark.on
  \/ adapted
  \/ extras # {}
  \/ /\ config.this # mark.by
     /\ \/ low \/ confirmed \/ ~readable \/ ~config.promise
        \/ ~LaterCutoff(mark.by, TierCounts(config.this))

\* The flag is given when it is asked for.
Flags == {c \in BOOLEAN : c => Pending}

\* A table that cannot be read is a fault.
Reads(readable) ==
  IF readable THEN UNCHANGED faults ELSE faults < MaxFaults /\ faults' = faults + 1

\* A run whose filters leave this half alone.
RunOfOtherHalf ==
  \E scope \in {"local_only", "external_only"}, confirmed \in Flags, readable \in BOOLEAN :
    /\ ~run.active
    /\ Reads(readable)
    /\ ~ThisRan(scope)
    /\ run' = [NoRun EXCEPT !.active = TRUE, !.row = Recorded(scope, confirmed, readable)]
    /\ UNCHANGED <<now, place, snaps, config, row, under, mark, settled, edits, setBacks>>

\* The gate lists a location it holds again; that may fail.
Listings(held) == {l \in BOOLEAN : held \/ l}

Additions(low) ==
  {{}} \cup {a \in {{now}} : IF place = "local"
                           THEN \E forced, changed \in BOOLEAN : CreateAllowed(low, forced, changed)
                           ELSE now \notin snaps}

\* plan_local_retention at a graduated shape or plan_external_retention, and
\* apply_retention_gate, over the location.
Prune(scope, confirmed, readable, pins, low) ==
  LET held == Held(confirmed, readable)
      window == Windows(snaps, config.this, now)
      thinned == Thinned(window, Protected(pins), low)
      extras == IF low /\ place = "drive" THEN Extras(snaps \ thinned, pins) ELSE {}
      space == extras \cup (IF low THEN PressureThinned(window, Protected(pins)) ELSE {})
      policy == thinned \ space
  IN \E listed \in Listings(held), adds \in Additions(low) :
       /\ run' = [active |-> TRUE, adds |-> adds,
                  dels |-> space \cup (policy \ Withheld(policy, pins, held, FALSE, listed)),
                  row |-> Recorded(scope, confirmed, readable),
                  gated |-> config.promise /\ readable /\ ~confirmed /\ ~low,
                  holds |-> held /\ ThisTightened,
                  applies |-> readable,
                  settles |-> scope = "full" /\ confirmed /\ readable]
       /\ mark' = IF Released(confirmed, readable, low, extras, FALSE) THEN NoMark
                  ELSE [mark EXCEPT !.pressed = @ \/ low]

\* The same where the local policy is in effect transient, as declared or
\* because the pool is armed (`adapted'); the gate lets the host's deletes be.
\* Whether the transient route creates is left open.
PruneTransient(scope, confirmed, readable, pins, adapted) ==
  LET held == Held(confirmed, readable)
  IN \E mounted \in SUBSET pins, critical \in {c \in BOOLEAN : c => adapted},
        listed \in Listings(held), adds \in {{}} \cup {a \in {{now}} : now \notin snaps} :
       LET policy == snaps \ TransientProtected(pins, mounted, critical)
       IN /\ run' = [active |-> TRUE, adds |-> adds,
                     dels |-> policy \ Withheld(policy, pins, held, adapted, listed),
                     row |-> Recorded(scope, confirmed, readable),
                     gated |-> config.promise /\ readable /\ ~confirmed /\ ~adapted,
                     holds |-> held /\ ThisTightened,
                     applies |-> readable,
                     settles |-> scope = "full" /\ confirmed /\ readable]
          /\ mark' = IF Released(confirmed, readable, FALSE, {}, adapted)
                     THEN NoMark ELSE mark

\* bound: one pin, of the oldest snapshot or the newest
PinSets ==
  {{}} \cup {{s} : s \in {t \in snaps : /\ Pinning
                                     /\ \/ \A u \in snaps : u <= t
                                        \/ \A u \in snaps : t <= u}}

RunBegins ==
  /\ ~run.active
  /\ \E scope \in {"full", "local_only", "external_only"},
        confirmed \in Flags, readable \in BOOLEAN, pins \in PinSets :
       /\ Reads(readable)
       /\ ThisRan(scope)
       /\ \/ /\ config.this # Transient
             /\ \E low \in BOOLEAN : Prune(scope, confirmed, readable, pins, low)
          \/ /\ place = "local"
             /\ \E adapted \in BOOLEAN :
                  /\ IF adapted THEN config.sends ELSE config.this = Transient
                  /\ PruneTransient(scope, confirmed, readable, pins, adapted)
  /\ UNCHANGED <<now, place, snaps, config, row, under, settled, edits, setBacks>>

------------------------------------------------------------------------------
(* The execution, under the lock: create or receive first, then the        *)
(* deletes.  Each may fail, be skipped or never be reached, alone; the     *)
(* record comes last.                                                      *)

Leaves == {(snaps \cup added) \ gone : added \in {{}, run.adds}, gone \in SUBSET run.dels}

\* Once marked, a snapshot stays marked until it is released.
Marked ==
  IF mark.on \/ row'.this \in {NoRow, Transient} THEN {mark}
  ELSE {NoMark} \cup {[on |-> TRUE, at |-> s, by |-> row'.this, pressed |-> FALSE] : s \in snaps'}

RunEnds ==
  /\ run.active
  /\ \/ snaps' = (snaps \cup run.adds) \ run.dels /\ UNCHANGED faults
     \/ snaps' \in Leaves /\ faults < MaxFaults /\ faults' = faults + 1
  /\ run' = NoRun
  /\ row' = run.row
  /\ under' = IF ~run.applies THEN under
              ELSE IF run.holds THEN row.this ELSE config.this
  /\ settled' = (settled \/ run.settles)
  /\ mark' \in Marked
  /\ UNCHANGED <<now, place, config, edits, setBacks>>

Killed ==
  /\ run.active /\ faults < MaxFaults
  /\ snaps' \in Leaves
  /\ run' = NoRun
  /\ faults' = faults + 1
  /\ UNCHANGED <<now, place, config, row, under, mark, settled, edits, setBacks>>

------------------------------------------------------------------------------
(* The operator and the clock.                                             *)

\* An edit of the configuration, between runs.
Edit ==
  /\ ~run.active /\ edits < MaxEdits
  /\ config' \in Menu
  /\ place = "drive" => config'.this # Transient
  /\ edits' = edits + 1
  /\ settled' = FALSE
  /\ UNCHANGED <<now, place, snaps, row, run, under, mark, setBacks, faults>>

ClockTicks ==
  /\ ~run.active /\ now < Horizon
  /\ now' = now + 1
  /\ UNCHANGED <<place, snaps, config, row, run, under, mark, settled, edits, setBacks, faults>>

\* By one tick at a time; what is dated later is then in the future.
ClockSetBack ==
  /\ ~run.active /\ setBacks < MaxSetBacks
  /\ now > 0
  /\ now' = now - 1
  /\ mark' = NoMark
  /\ setBacks' = setBacks + 1
  /\ UNCHANGED <<place, snaps, config, row, run, under, settled, edits, faults>>

Next == \/ RunBegins \/ RunOfOtherHalf \/ RunEnds \/ Killed
        \/ Edit \/ ClockTicks \/ ClockSetBack

Spec == Init /\ [][Next]_vars

------------------------------------------------------------------------------
(* What must hold.                                                         *)

\* At time n, r stands for s under c: it is s, or it is newer and as near as
\* the window r has left asks.  In the month and year windows the nearness goes
\* through an instant t of the week of s, since the weekly thinning came first.
StandsFor(c, n, pressed, r, s) ==
  \/ r = s
  \/ pressed /\ SameSlot("hour", s, r)
  \/ r < HourlyCutoff(c, n) /\ SameSlot("day", s, r)
  \/ r < DailyCutoff(c, n) /\ SameSlot("week", s, r)
  \/ r < WeeklyCutoff(c, n)
     /\ \E t \in s .. r : SameSlot("week", s, t) /\ SameSlot("month", t, r)
  \/ r < MonthlyCutoff(c, n)
     /\ \E t \in s .. r : SameSlot("week", s, t) /\ SameSlot("year", t, r)

Covered(S, m, n) ==
  \/ m.at < YearlyCutoff(m.by, n)
  \/ \E r \in S : r >= m.at /\ StandsFor(m.by, n, m.pressed, r, m.at)

\* A snapshot the location once kept is still represented as the retention
\* recorded then asks, until the last window of that retention is over:
\* through thinnings of every kind, failed deletes and killed runs, and under
\* a tightened configuration that was not confirmed.
HistoryIsCovered == mark.on => Covered(snaps, mark, now)

\* After a run over the whole subvolume with --confirm-retention-change
\* nothing is held until the next edit: one confirmation is enough.
ConfirmationSettles == settled => ~Pending

\* When the configured policy is tighter than the one this half was last
\* applied as, a run that was not confirmed deletes nothing the latter keeps.
AppliedPolicyIsKept ==
  run.gated /\ under \notin {NoRow, Transient}
    /\ TiersTightened(under, TierCounts(config.this))
  => run.dels \cap Kept(Windows(snaps, under, now), {}, FALSE) = {}
==============================================================================
