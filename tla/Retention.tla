------------------------------ MODULE Retention ------------------------------
(***************************************************************************)
(* The thinning of one location's snapshots (src/src/retention.rs), as     *)
(* functions over sets.  A snapshot is the instant in its name.  The       *)
(* calendar is a parameter: Slot[g][t] is the calendar hour, day, ISO      *)
(* week, month or year of t, and Ticks[g] the length one unit of a window  *)
(* takes off a cutoff.  Months and years are of even length here; the code *)
(* subtracts calendar months.                                              *)
(***************************************************************************)
EXTENDS Integers

CONSTANTS Horizon,    \* bound: the last instant
          Slot,       \* the calendar
          Ticks,      \* the length of a unit of each grain
          Unlimited,  \* MonthlyCount::Unlimited
          Transient   \* LocalRetentionPolicy::Transient

Instants == 0 .. Horizon
Grains == {"hour", "day", "week", "month", "year"}
SameSlot(g, s, t) == Slot[g][s] = Slot[g][t]

\* A week is not nested in a month, nor in a year; everything else nests.
ASSUME CalendarAssumption ==
  /\ Horizon \in Nat
  /\ Ticks \in [Grains -> Nat]
  /\ Slot \in [Grains -> [Instants -> Nat]]
  /\ \A g \in Grains, s, t \in Instants : s <= t => Slot[g][s] <= Slot[g][t]
  /\ \A s, t \in Instants :
       /\ SameSlot("hour", s, t) => SameSlot("day", s, t)
       /\ SameSlot("day", s, t) => SameSlot("week", s, t) /\ SameSlot("month", s, t)
       /\ SameSlot("month", s, t) => SameSlot("year", s, t)
  /\ Unlimited \notin Nat

Shape == [hourly : Nat, daily : Nat, weekly : Nat,
          monthly : Nat \cup {Unlimited}, yearly : Nat]
NoTiers == [hourly |-> 0, daily |-> 0, weekly |-> 0, monthly |-> 0, yearly |-> 0]

------------------------------------------------------------------------------
(* cascade_cutoffs.  Each window starts where the one before it ends.  No  *)
(* instant lies before 0, so 0 is the cutoff of unlimited months.          *)
HourlyCutoff(c, now) == now - c.hourly * Ticks["hour"]
DailyCutoff(c, now) == HourlyCutoff(c, now) - c.daily * Ticks["day"]
WeeklyCutoff(c, now) == DailyCutoff(c, now) - c.weekly * Ticks["week"]
MonthlyCutoff(c, now) ==
  IF c.monthly = Unlimited THEN 0
  ELSE WeeklyCutoff(c, now) - c.monthly * Ticks["month"]
YearlyCutoff(c, now) ==
  IF c.monthly = Unlimited THEN 0
  ELSE MonthlyCutoff(c, now) - c.yearly * Ticks["year"]

\* The branch of graduated_retention each snapshot falls in: its window.
Windows(S, c, now) ==
  LET hour == HourlyCutoff(c, now)
      day == DailyCutoff(c, now)
      week == WeeklyCutoff(c, now)
      month == MonthlyCutoff(c, now)
      year == YearlyCutoff(c, now)
  IN [t \in S |-> IF t > now THEN "future"
                  ELSE IF t >= hour THEN "hour"
                  ELSE IF t >= day THEN "day"
                  ELSE IF t >= week THEN "week"
                  ELSE IF t >= month THEN "month"
                  ELSE IF t >= year THEN "year"
                  ELSE "beyond"]

\* u is newer than t in the same slot of the same window: the walk, newest
\* first, finds the slot of t taken.
Outdoes(window, u, t) ==
  u > t /\ window[u] = window[t] /\ SameSlot(window[t], t, u)

\* graduated_retention: what it deletes.  Without pressure the hourly window
\* keeps everything; future snapshots take no slot.
Thinned(window, protected, pressed) ==
  {t \in DOMAIN window \ protected :
     \/ window[t] = "beyond"
     \/ window[t] \in Grains /\ (pressed \/ window[t] # "hour")
        /\ \E u \in DOMAIN window : Outdoes(window, u, t)}

Kept(window, protected, pressed) == DOMAIN window \ Thinned(window, protected, pressed)

\* The deletes graduated_retention marks SpacePressure.
PressureThinned(window, protected) ==
  {t \in DOMAIN window \ protected :
     window[t] = "hour" /\ \E u \in DOMAIN window : Outdoes(window, u, t)}

\* The second pass of space_governed_retention: oldest first, pins skipped,
\* until one snapshot is left.
Extras(K, pins) == {t \in K \ pins : K \cap pins # {} \/ \E u \in K : u > t}

\* graduated_protected: the pins, and what is not yet on every drive.
GraduatedProtected(S, pins, sends) ==
  pins \cup {s \in S : sends /\ (pins = {} \/ \E p \in pins : s > p)}

------------------------------------------------------------------------------
\* local_tiers
TierCounts(policy) == IF policy = Transient THEN NoTiers ELSE policy

WeakerMonthly(c, p) == c # Unlimited /\ (p = Unlimited \/ c < p)

\* tiers_tightened: under unlimited months the yearly count is inert.
TiersTightened(p, c) ==
  \/ c.hourly < p.hourly
  \/ c.daily < p.daily
  \/ c.weekly < p.weekly
  \/ WeakerMonthly(c.monthly, p.monthly)
  \/ c.monthly # Unlimited /\ (p.monthly = Unlimited \/ c.yearly < p.yearly)
==============================================================================
