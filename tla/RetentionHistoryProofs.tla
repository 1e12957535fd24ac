------------------------ MODULE RetentionHistoryProofs ------------------------
(***************************************************************************)
(* The history of a location under retention, for any calendar in which    *)
(* hours nest in days, days in weeks and in months, months in years, for   *)
(* any shapes, edits, pins and any number of faults: what the location     *)
(* kept stays covered by what the recorded retention asks, and one         *)
(* confirmation settles the gate.                                          *)
(***************************************************************************)
EXTENDS RetentionHistory, FiniteSetTheorems, TLAPS

(******************************* the cutoffs *******************************)

\* A larger count takes at least as much off.
LEMMA CountsScale ==
    ASSUME NEW a \in Nat, NEW b \in Nat, NEW k \in Nat, a >= b
    PROVE  a * k >= b * k /\ a * k \in Nat /\ b * k \in Nat
<1>1. PICK d \in Nat : a = b + d
  BY a - b \in Nat
<1>2. a * k = b * k + d * k /\ d * k \in Nat /\ b * k \in Nat
  BY <1>1
<1> QED
  BY <1>2

\* What one window takes off a cutoff.
LEMMA WindowsTyped ==
    ASSUME NEW c \in Shape
    PROVE  /\ c.hourly \in Nat /\ c.daily \in Nat /\ c.weekly \in Nat /\ c.yearly \in Nat
           /\ c.monthly = Unlimited \/ c.monthly \in Nat
           /\ \A g \in Grains : Ticks[g] \in Nat
BY CalendarAssumption DEF Shape

\* The windows follow one another into the past.
LEMMA CutoffsOrdered ==
    ASSUME NEW c \in Shape, NEW n \in Instants
    PROVE  /\ HourlyCutoff(c, n) \in Int /\ DailyCutoff(c, n) \in Int
           /\ WeeklyCutoff(c, n) \in Int /\ MonthlyCutoff(c, n) \in Int
           /\ YearlyCutoff(c, n) \in Int
           /\ HourlyCutoff(c, n) <= n
           /\ DailyCutoff(c, n) <= HourlyCutoff(c, n)
           /\ WeeklyCutoff(c, n) <= DailyCutoff(c, n)
           /\ c.monthly # Unlimited => /\ MonthlyCutoff(c, n) <= WeeklyCutoff(c, n)
                                       /\ YearlyCutoff(c, n) <= MonthlyCutoff(c, n)
           /\ c.monthly = Unlimited => MonthlyCutoff(c, n) = 0 /\ YearlyCutoff(c, n) = 0
<1> n \in Int
  BY CalendarAssumption DEF Instants
<1>1. /\ c.hourly * Ticks["hour"] \in Nat /\ c.daily * Ticks["day"] \in Nat
      /\ c.weekly * Ticks["week"] \in Nat /\ c.yearly * Ticks["year"] \in Nat
      /\ c.monthly # Unlimited => c.monthly * Ticks["month"] \in Nat
  BY WindowsTyped, CountsScale DEF Grains
<1>2. HourlyCutoff(c, n) \in Int /\ HourlyCutoff(c, n) <= n
  BY <1>1 DEF HourlyCutoff
<1>3. DailyCutoff(c, n) \in Int /\ DailyCutoff(c, n) <= HourlyCutoff(c, n)
  BY <1>1, <1>2 DEF DailyCutoff
<1>4. WeeklyCutoff(c, n) \in Int /\ WeeklyCutoff(c, n) <= DailyCutoff(c, n)
  BY <1>1, <1>3 DEF WeeklyCutoff
<1>5. /\ MonthlyCutoff(c, n) \in Int
      /\ c.monthly # Unlimited => MonthlyCutoff(c, n) <= WeeklyCutoff(c, n)
      /\ c.monthly = Unlimited => MonthlyCutoff(c, n) = 0
  BY <1>1, <1>4 DEF MonthlyCutoff
<1>6. /\ YearlyCutoff(c, n) \in Int
      /\ c.monthly # Unlimited => YearlyCutoff(c, n) <= MonthlyCutoff(c, n)
      /\ c.monthly = Unlimited => YearlyCutoff(c, n) = 0
  BY <1>1, <1>5 DEF YearlyCutoff
<1> QED
  BY <1>2, <1>3, <1>4, <1>5, <1>6

\* As the clock moves on, no cutoff moves back.
LEMMA CutoffsAdvance ==
    ASSUME NEW c \in Shape, NEW n \in Instants, NEW k \in Instants, n <= k
    PROVE  /\ HourlyCutoff(c, n) <= HourlyCutoff(c, k)
           /\ DailyCutoff(c, n) <= DailyCutoff(c, k)
           /\ WeeklyCutoff(c, n) <= WeeklyCutoff(c, k)
           /\ MonthlyCutoff(c, n) <= MonthlyCutoff(c, k)
           /\ YearlyCutoff(c, n) <= YearlyCutoff(c, k)
<1> n \in Int /\ k \in Int
  BY CalendarAssumption DEF Instants
<1>1. /\ c.hourly * Ticks["hour"] \in Nat /\ c.daily * Ticks["day"] \in Nat
      /\ c.weekly * Ticks["week"] \in Nat /\ c.yearly * Ticks["year"] \in Nat
      /\ c.monthly # Unlimited => c.monthly * Ticks["month"] \in Nat
  BY WindowsTyped, CountsScale DEF Grains
<1>2. HourlyCutoff(c, n) <= HourlyCutoff(c, k)
  BY <1>1 DEF HourlyCutoff
<1>3. DailyCutoff(c, n) <= DailyCutoff(c, k)
  BY <1>1, <1>2, CutoffsOrdered DEF DailyCutoff
<1>4. WeeklyCutoff(c, n) <= WeeklyCutoff(c, k)
  BY <1>1, <1>3, CutoffsOrdered DEF WeeklyCutoff
<1>5. MonthlyCutoff(c, n) <= MonthlyCutoff(c, k)
  BY <1>1, <1>4, CutoffsOrdered DEF MonthlyCutoff
<1>6. YearlyCutoff(c, n) <= YearlyCutoff(c, k)
  BY <1>1, <1>5, CutoffsOrdered DEF YearlyCutoff
<1> QED
  BY <1>2, <1>3, <1>4, <1>5, <1>6

\* tiers_tightened sees every tightening: a window that begins later has a
\* smaller count in it or in one before it.
LEMMA LaterIsTighter ==
    ASSUME NEW p \in Shape, NEW c \in Shape, now \in Instants, LaterCutoff(p, c)
    PROVE  TiersTightened(p, c)
<1> SUFFICES ASSUME ~TiersTightened(p, c)
             PROVE  FALSE
  OBVIOUS
<1> now \in Int /\ now >= 0
  BY CalendarAssumption DEF Instants
<1>0. /\ \A g \in Grains : Ticks[g] \in Nat
      /\ p.hourly \in Nat /\ p.daily \in Nat /\ p.weekly \in Nat /\ p.yearly \in Nat
      /\ c.hourly \in Nat /\ c.daily \in Nat /\ c.weekly \in Nat /\ c.yearly \in Nat
      /\ c.monthly = Unlimited \/ c.monthly \in Nat
      /\ p.monthly = Unlimited \/ p.monthly \in Nat
  BY WindowsTyped
<1>1. /\ c.hourly >= p.hourly /\ c.daily >= p.daily /\ c.weekly >= p.weekly
      /\ c.monthly # Unlimited => /\ p.monthly # Unlimited /\ c.monthly >= p.monthly
                                  /\ c.yearly >= p.yearly
  BY <1>0 DEF TiersTightened, WeakerMonthly
<1>2. c.hourly * Ticks["hour"] >= p.hourly * Ticks["hour"]
      /\ c.hourly * Ticks["hour"] \in Nat /\ p.hourly * Ticks["hour"] \in Nat
  BY <1>0, <1>1, CountsScale DEF Grains
<1>3. c.daily * Ticks["day"] >= p.daily * Ticks["day"]
      /\ c.daily * Ticks["day"] \in Nat /\ p.daily * Ticks["day"] \in Nat
  BY <1>0, <1>1, CountsScale DEF Grains
<1>4. c.weekly * Ticks["week"] >= p.weekly * Ticks["week"]
      /\ c.weekly * Ticks["week"] \in Nat /\ p.weekly * Ticks["week"] \in Nat
  BY <1>0, <1>1, CountsScale DEF Grains
<1>5. HourlyCutoff(c, now) <= HourlyCutoff(p, now)
  BY <1>2 DEF HourlyCutoff
<1>6. DailyCutoff(c, now) <= DailyCutoff(p, now)
  BY <1>3, <1>5, CutoffsOrdered DEF DailyCutoff
<1>7. WeeklyCutoff(c, now) <= WeeklyCutoff(p, now)
  BY <1>4, <1>6, CutoffsOrdered DEF WeeklyCutoff
<1>8. CASE c.monthly = Unlimited
  <2>1. MonthlyCutoff(c, now) = 0 /\ YearlyCutoff(c, now) = 0
    BY <1>8, CutoffsOrdered
  <2> QED
    BY <1>5, <1>6, <1>7, <2>1, CutoffsOrdered DEF LaterCutoff
<1>9. CASE c.monthly # Unlimited
  <2>1. c.monthly * Ticks["month"] >= p.monthly * Ticks["month"]
        /\ c.monthly * Ticks["month"] \in Nat /\ p.monthly * Ticks["month"] \in Nat
    BY <1>0, <1>1, <1>9, CountsScale DEF Grains
  <2>2. c.yearly * Ticks["year"] >= p.yearly * Ticks["year"]
        /\ c.yearly * Ticks["year"] \in Nat /\ p.yearly * Ticks["year"] \in Nat
    BY <1>0, <1>1, <1>9, CountsScale DEF Grains
  <2>3. MonthlyCutoff(c, now) <= MonthlyCutoff(p, now)
    BY <1>1, <1>7, <1>9, <2>1, CutoffsOrdered DEF MonthlyCutoff
  <2>4. YearlyCutoff(c, now) <= YearlyCutoff(p, now)
    BY <1>1, <1>9, <2>2, <2>3, CutoffsOrdered DEF YearlyCutoff
  <2> QED
    BY <1>5, <1>6, <1>7, <2>3, <2>4, CutoffsOrdered DEF LaterCutoff
<1> QED
  BY <1>8, <1>9

(****************************** the thinning *******************************)

\* A set of instants with a member has a newest one: of the sets of what is
\* newer than a member, ordered by inclusion, a least one is empty.
LEMMA Newest ==
    ASSUME NEW T \in SUBSET Instants, NEW t \in T
    PROVE  \E u \in T : u >= t /\ \A v \in T : v <= u
<1> DEFINE Later(u) == {v \in T : v > u}
           Laters == {Later(u) : u \in {x \in T : x >= t}}
<1>1. Horizon \in Nat /\ t \in Int /\ \A u \in T : u \in Int
  BY CalendarAssumption DEF Instants
<1>2. IsFiniteSet(T)
  <2>1. IsFiniteSet(Instants)
    BY <1>1, FS_Interval DEF Instants
  <2> QED
    BY <2>1, FS_Subset
<1>3. Laters \subseteq SUBSET T /\ Later(t) \in Laters
  BY <1>1
<1>4. PICK L \in Laters : \A K \in Laters : ~ (<<K, L>> \in StrictSubsetOrdering(T))
  <2> HIDE DEF Laters, Later
  <2>1. FiniteSubsetsOf(T) = SUBSET T
    BY <1>2, FS_FiniteSubsetsOfFinite
  <2>2. IsWellFoundedOn(StrictSubsetOrdering(T), SUBSET T)
    BY <2>1, FS_StrictSubsetOrderingWellFounded
  <2> QED
    BY <1>3, <2>2, WFMin
<1>5. PICK u \in T : u >= t /\ L = Later(u)
  OBVIOUS
<1>6. \A v \in T : v <= u
  <2> SUFFICES ASSUME NEW v \in T, v > u
               PROVE  FALSE
    BY <1>1
  <2>1. Later(v) \in Laters
    BY <1>1, <1>5
  <2>2. Later(v) \subseteq Later(u) /\ v \in Later(u) /\ v \notin Later(v)
    <3> HIDE DEF Laters
    <3>1. v \in Later(u) /\ v \notin Later(v)
      BY <1>1
    <3>2. ASSUME NEW x \in Later(v) PROVE x \in Later(u)
      <4>1. x \in T /\ x > v /\ v > u
        OBVIOUS
      <4>2. x \in Int /\ v \in Int /\ u \in Int
        BY <1>1, <4>1
      <4> QED
        BY <4>1, <4>2
    <3> HIDE DEF Later
    <3> QED
      BY <3>1, <3>2
  <2> QED
    BY <1>3, <1>4, <1>5, <2>1, <2>2 DEF StrictSubsetOrdering
<1> QED
  BY <1>5, <1>6

\* The five grains nest as the calendar assumption says, and sharing a slot
\* carries over.
LEMMA SlotsNest ==
    ASSUME NEW r \in Instants, NEW s \in Instants, NEW t \in Instants
    PROVE  /\ \A g \in Grains : /\ SameSlot(g, r, r)
                                /\ SameSlot(g, r, s) /\ SameSlot(g, s, t) => SameSlot(g, r, t)
           /\ SameSlot("hour", s, t) => SameSlot("day", s, t)
           /\ SameSlot("day", s, t) => SameSlot("week", s, t) /\ SameSlot("month", s, t)
           /\ SameSlot("month", s, t) => SameSlot("year", s, t)
<1>1. \A g \in Grains : /\ SameSlot(g, r, r)
                        /\ SameSlot(g, r, s) /\ SameSlot(g, s, t) => SameSlot(g, r, t)
  BY DEF SameSlot
<1> QED
  BY <1>1, CalendarAssumption

\* Where a snapshot's window puts it.
LEMMA WindowBounds ==
    ASSUME NEW S \in SUBSET Instants, NEW c \in Shape, NEW n \in Instants, NEW t \in S
    PROVE  LET w == Windows(S, c, n)[t]
           IN /\ w \in Grains \cup {"future", "beyond"}
              /\ w = "hour" => t >= HourlyCutoff(c, n)
              /\ w = "day" => t >= DailyCutoff(c, n) /\ t < HourlyCutoff(c, n)
              /\ w = "week" => t >= WeeklyCutoff(c, n) /\ t < DailyCutoff(c, n)
              /\ w = "month" => t >= MonthlyCutoff(c, n) /\ t < WeeklyCutoff(c, n)
              /\ w = "year" => t >= YearlyCutoff(c, n) /\ t < MonthlyCutoff(c, n)
              /\ w = "beyond" => t < YearlyCutoff(c, n)
<1> t \in Int /\ n \in Int
  BY CalendarAssumption DEF Instants
<1> QED
  BY CutoffsOrdered DEF Windows, Grains

\* What a thinning deletes as outdone gives way to a newer one of its slot
\* and window that the thinning keeps.
LEMMA SuccessorKept ==
    ASSUME NEW S \in SUBSET Instants, NEW c \in Shape, NEW n \in Instants,
           NEW protected, NEW pressed \in BOOLEAN,
           NEW r \in Thinned(Windows(S, c, n), protected, pressed),
           Windows(S, c, n)[r] # "beyond"
    PROVE  \E v \in S \ Thinned(Windows(S, c, n), protected, pressed) :
             /\ v > r
             /\ Windows(S, c, n)[v] = Windows(S, c, n)[r]
             /\ SameSlot(Windows(S, c, n)[r], r, v)
<1> DEFINE w == Windows(S, c, n)
           g == w[r]
           T == {u \in S : w[u] = g /\ SameSlot(g, r, u)}
<1>1. DOMAIN w = S
  BY DEF Windows
<1> HIDE DEF w
<1>2. /\ r \in S /\ g \in Grains
      /\ \E u \in S : Outdoes(w, u, r)
  BY <1>1 DEF Thinned, w
<1>3. PICK u \in S : u > r /\ w[r] = w[u] /\ SameSlot(w[r], r, u)
  BY <1>2 DEF Outdoes
<1>4. T \in SUBSET Instants /\ u \in T
  BY <1>3
<1>5. PICK v \in T : v >= u /\ \A x \in T : x <= v
  BY <1>4, Newest
<1>6. r \in Int /\ u \in Int /\ v \in Int /\ \A x \in T : x \in Int
  BY <1>2, <1>4, CalendarAssumption DEF Instants
<1>7. \A x \in S : ~Outdoes(w, x, v)
  <2> SUFFICES ASSUME NEW x \in S, Outdoes(w, x, v)
               PROVE  FALSE
    OBVIOUS
  <2>1. x > v /\ w[x] = g /\ SameSlot(g, v, x)
    BY DEF Outdoes
  <2>2. SameSlot(g, r, x)
    BY <1>2, <2>1, SlotsNest
  <2> QED
    BY <1>5, <1>6, <2>1, <2>2
<1>8. v \notin Thinned(w, protected, pressed)
  BY <1>1, <1>7 DEF Thinned, Grains, w
<1> QED
  BY <1>3, <1>5, <1>6, <1>8 DEF w

\* What a mark is made of.
MarkRecord == [on : BOOLEAN, at : Instants, by : Shape, pressed : BOOLEAN]

\* A thinning under the shape of a mark leaves what the mark asks: whichever
\* snapshot stood for the instant, one that still does is left, unless the last
\* window is over.  k is the mark afterwards, which knows of the pressure.
LEMMA ThinningCovers ==
    ASSUME NEW S \in SUBSET Instants, NEW n \in Instants, NEW D,
           NEW m \in MarkRecord, NEW k \in MarkRecord,
           k.at = m.at, k.by = m.by, m.pressed => k.pressed,
           \E protected \in SUBSET Instants, pressed \in BOOLEAN :
             /\ pressed => k.pressed
             /\ D \subseteq Thinned(Windows(S, m.by, n), protected, pressed),
           Covered(S, m, n)
    PROVE  Covered(S \ D, k, n)
<1>0. m.by \in Shape /\ m.at \in Instants
  BY DEF MarkRecord
<1> PICK c \in Shape : c = m.by
  BY <1>0
<1> PICK at \in Instants : at = m.at
  BY <1>0
<1>1. PICK protected \in SUBSET Instants, pressed \in BOOLEAN :
         /\ pressed => k.pressed
         /\ D \subseteq Thinned(Windows(S, c, n), protected, pressed)
  OBVIOUS
<1> SUFFICES ASSUME NEW r \in S, r >= at, StandsFor(c, n, m.pressed, r, at)
             PROVE  \/ at < YearlyCutoff(c, n)
                    \/ \E u \in S \ D : u >= at /\ StandsFor(c, n, k.pressed, u, at)
  BY DEF Covered
<1> DEFINE w == Windows(S, c, n)
<1>2. StandsFor(c, n, k.pressed, r, at)
  BY DEF StandsFor
<1>3. CASE r \notin D
  BY <1>2, <1>3
<1>4. CASE r \in D
  <2> r \in Thinned(w, protected, pressed)
    BY <1>1, <1>4
  <2>1. /\ at \in Int /\ r \in Int /\ n \in Int
        /\ r \in Instants
        /\ HourlyCutoff(c, n) \in Int /\ DailyCutoff(c, n) \in Int
        /\ WeeklyCutoff(c, n) \in Int /\ MonthlyCutoff(c, n) \in Int
        /\ YearlyCutoff(c, n) \in Int
    BY CalendarAssumption, CutoffsOrdered DEF Instants
  <2>2. CASE w[r] = "beyond"
    BY <2>1, <2>2, WindowBounds
  <2>3. CASE w[r] # "beyond"
    <3>1. PICK v \in S \ D : v > r /\ w[v] = w[r] /\ SameSlot(w[r], r, v)
      BY <1>1, <2>3, SuccessorKept
    <3>2. v \in Instants /\ v \in Int /\ v >= at
      BY <2>1, <3>1, CalendarAssumption DEF Instants
    <3>3. w[r] \in Grains /\ (w[r] = "hour" => pressed)
      BY <2>3 DEF Thinned
    <3>4. /\ \A g \in Grains : SameSlot(g, at, r) /\ SameSlot(g, r, v) => SameSlot(g, at, v)
          /\ \A g \in Grains : SameSlot(g, at, at) /\ SameSlot(g, r, r)
      BY <2>1, <3>2, SlotsNest
    <3>5. /\ SameSlot("hour", at, r) => SameSlot("day", at, r)
          /\ SameSlot("day", at, r) => SameSlot("week", at, r) /\ SameSlot("month", at, r)
          /\ SameSlot("month", at, r) => SameSlot("year", at, r)
      BY <2>1, SlotsNest
    <3>6. \A t \in at .. r : SameSlot("month", t, r) => SameSlot("year", t, r)
      <4>1. at .. r \subseteq Instants
        BY <2>1, CalendarAssumption DEF Instants
      <4> QED
        BY <2>1, <4>1, SlotsNest
    <3>7. /\ r >= HourlyCutoff(c, n) => r >= DailyCutoff(c, n)
          /\ r >= DailyCutoff(c, n) => r >= WeeklyCutoff(c, n)
          /\ r >= WeeklyCutoff(c, n) => r >= MonthlyCutoff(c, n)
      <4>1. r >= 0
        BY <2>1, CalendarAssumption DEF Instants
      <4>2. /\ DailyCutoff(c, n) <= HourlyCutoff(c, n)
            /\ WeeklyCutoff(c, n) <= DailyCutoff(c, n)
            /\ MonthlyCutoff(c, n) = 0 \/ MonthlyCutoff(c, n) <= WeeklyCutoff(c, n)
        BY CutoffsOrdered
      <4> QED
        BY <2>1, <4>1, <4>2
    <3>8. StandsFor(c, n, k.pressed, v, at)
      <4>1. CASE w[r] = "hour"
        <5>1. k.pressed /\ r >= HourlyCutoff(c, n) /\ SameSlot("hour", r, v)
          BY <1>1, <3>1, <3>3, <4>1, WindowBounds
        <5>2. r = at \/ SameSlot("hour", at, r)
          BY <1>2, <2>1, <3>7, <5>1 DEF StandsFor
        <5> QED
          BY <3>4, <5>1, <5>2 DEF StandsFor, Grains
      <4>2. CASE w[r] = "day"
        <5>1. r >= DailyCutoff(c, n) /\ v < HourlyCutoff(c, n) /\ SameSlot("day", r, v)
          BY <3>1, <4>2, WindowBounds
        <5>2. r = at \/ SameSlot("day", at, r)
          BY <1>2, <2>1, <3>5, <3>7, <5>1 DEF StandsFor
        <5> QED
          BY <3>4, <5>1, <5>2 DEF StandsFor, Grains
      <4>3. CASE w[r] = "week"
        <5>1. r >= WeeklyCutoff(c, n) /\ v < DailyCutoff(c, n) /\ SameSlot("week", r, v)
          BY <3>1, <4>3, WindowBounds
        <5>2. r = at \/ SameSlot("week", at, r)
          BY <1>2, <2>1, <3>5, <3>7, <5>1 DEF StandsFor
        <5> QED
          BY <3>4, <5>1, <5>2 DEF StandsFor, Grains
      <4>4. CASE w[r] = "month"
        <5>1. r >= MonthlyCutoff(c, n) /\ v < WeeklyCutoff(c, n) /\ SameSlot("month", r, v)
          BY <3>1, <4>4, WindowBounds
        <5>2. \E t \in at .. r : SameSlot("week", at, t) /\ SameSlot("month", t, r)
          <6>1. \/ SameSlot("week", at, r)
                \/ SameSlot("month", at, r)
                \/ \E t \in at .. r : SameSlot("week", at, t) /\ SameSlot("month", t, r)
            BY <1>2, <2>1, <3>4, <3>5, <3>7, <5>1 DEF StandsFor, Grains
          <6>2. at \in at .. r /\ r \in at .. r
            BY <2>1
          <6> QED
            BY <3>4, <6>1, <6>2 DEF Grains
        <5>3. PICK t \in at .. r : SameSlot("week", at, t) /\ SameSlot("month", t, r)
          BY <5>2
        <5>4. t \in at .. v /\ SameSlot("month", t, v)
          BY <2>1, <3>1, <3>2, <5>1, <5>3 DEF SameSlot
        <5> QED
          BY <5>1, <5>3, <5>4 DEF StandsFor
      <4>5. CASE w[r] = "year"
        <5>1. v < MonthlyCutoff(c, n) /\ SameSlot("year", r, v)
          BY <3>1, <4>5, WindowBounds
        <5>2. \E t \in at .. r : SameSlot("week", at, t) /\ SameSlot("year", t, r)
          <6>1. \/ SameSlot("week", at, r)
                \/ SameSlot("year", at, r)
                \/ \E t \in at .. r : SameSlot("week", at, t) /\ SameSlot("year", t, r)
            BY <1>2, <2>1, <3>4, <3>5, <3>6, <5>1 DEF StandsFor, Grains
          <6>2. at \in at .. r /\ r \in at .. r
            BY <2>1
          <6> QED
            BY <3>4, <6>1, <6>2 DEF Grains
        <5>3. PICK t \in at .. r : SameSlot("week", at, t) /\ SameSlot("year", t, r)
          BY <5>2
        <5>4. t \in at .. v /\ SameSlot("year", t, v)
          BY <2>1, <3>1, <3>2, <5>1, <5>3 DEF SameSlot
        <5> QED
          BY <5>1, <5>3, <5>4 DEF StandsFor
      <4> QED
        BY <3>3, <4>1, <4>2, <4>3, <4>4, <4>5 DEF Grains
    <3> QED
      BY <3>2, <3>8
  <2> QED
    BY <2>2, <2>3
<1> QED
  BY <1>3, <1>4

(****************************** the invariant ******************************)

\* Between runs nothing of a run is left; while the mark is on, the record is
\* the policy it was made under, and so will be what the run records.
Idle == ~run.active => run = NoRun
MarkRecorded == mark.on => row.this = mark.by /\ (run.active => run.row.this = mark.by)

\* Stronger than HistoryIsCovered: whatever of its deletes a run carries out.
MarkCovered == mark.on => Covered(snaps \ run.dels, mark, now)

\* Pending, of a row that is not recorded yet.
PendingOf(rw) ==
  /\ config.promise
  /\ \/ /\ rw.this # NoRow
        /\ place = "drive" => config.sends
        /\ TiersTightened(TierCounts(rw.this), TierCounts(config.this))
     \/ /\ rw.other # NoRow
        /\ place = "local" => config.sends
        /\ config.other < rw.other

\* Once settled, neither the row nor what the run will record is pending.
RowSettled ==
  /\ settled => ~PendingOf(row)
  /\ run.active /\ (settled \/ run.settles) => ~PendingOf(run.row)

IInv == TypeOK /\ Idle /\ MarkRecorded /\ MarkCovered /\ RowSettled

RunRecord ==
  [active : BOOLEAN, adds : SUBSET Instants, dels : SUBSET Instants, row : Rows,
   gated : BOOLEAN, holds : BOOLEAN, applies : BOOLEAN, settles : BOOLEAN]

\* The empty run, the mark that is off and the shape of a transient are typed.
LEMMA RecordsTyped ==
    /\ NoRun \in RunRecord /\ ~NoRun.active /\ NoRun.dels = {} /\ NoRun.adds = {}
    /\ NoMark \in MarkRecord /\ ~NoMark.on
    /\ NoTiers \in Shape
<1>1. NoTiers \in Shape
  BY DEF NoTiers, Shape
<1>2. 0 \in Instants
  BY CalendarAssumption DEF Instants
<1>3. [this |-> NoRow, other |-> NoRow] \in Rows
  BY DEF Rows
<1> QED
  BY <1>1, <1>2, <1>3 DEF NoRun, RunRecord, NoMark, MarkRecord

\* A configured or recorded policy counts as a shape.
LEMMA CountsTyped ==
    ASSUME NEW p \in Policies
    PROVE  TierCounts(p) \in Shape /\ (p # Transient => p \in Shape /\ TierCounts(p) = p)
BY HistoryAssumption, RecordsTyped DEF TierCounts

\* What a run records is a row.
LEMMA RecordedTyped ==
    ASSUME TypeOK, NEW scope, NEW confirmed, NEW readable
    PROVE  Recorded(scope, confirmed, readable) \in Rows
<1>1. config.this \in Policies /\ config.other \in Others
  BY DEF TypeOK, Configs
<1>2. row \in Rows /\ row.this \in Policies \cup {NoRow} /\ row.other \in Others \cup {NoRow}
  BY DEF TypeOK, Rows
<1> QED
  BY <1>1, <1>2 DEF Recorded, Rows

(*************************** the start of a run ****************************)

\* A run that starts, as far as the invariant goes.  With the mark kept, its
\* deletes are a thinning under the marked policy.
Begun(scope, confirmed, readable) ==
  /\ run' \in RunRecord /\ run'.active
  /\ run'.dels \subseteq snaps
  /\ run'.row = Recorded(scope, confirmed, readable)
  /\ run'.settles => scope = "full" /\ confirmed /\ readable
  /\ mark' \in MarkRecord
  /\ mark'.on => /\ mark.on /\ mark'.at = mark.at /\ mark'.by = mark.by
                 /\ mark.pressed => mark'.pressed
                 /\ run'.row.this = mark.by
                 /\ \E protected \in SUBSET Instants, pressed \in BOOLEAN :
                      /\ pressed => mark'.pressed
                      /\ run'.dels \subseteq
                           Thinned(Windows(snaps, mark.by, now), protected, pressed)

\* A run of the half under the marked policy records it; one under another
\* policy that keeps the mark is held.
LEMMA KeptMarkIsHeld ==
    ASSUME TypeOK, MarkRecorded, mark.on, NEW scope, ThisRan(scope),
           NEW confirmed \in BOOLEAN, NEW readable \in BOOLEAN,
           config.this # mark.by =>
             /\ ~confirmed /\ readable /\ config.promise
             /\ LaterCutoff(mark.by, TierCounts(config.this))
    PROVE  /\ mark.by \in Shape /\ row.this = mark.by /\ TierCounts(mark.by) = mark.by
           /\ Recorded(scope, confirmed, readable).this = mark.by
           /\ config.this # mark.by => ThisTightened /\ Held(confirmed, readable)
<1>1. /\ config.this \in Policies /\ row \in Rows /\ mark.by \in Shape /\ now \in Instants
      /\ config.promise \in BOOLEAN
      /\ row.this = mark.by
  BY DEF TypeOK, Configs, MarkRecorded
<1>2. TierCounts(config.this) \in Shape /\ TierCounts(mark.by) = mark.by /\ mark.by # NoRow
  BY <1>1, CountsTyped, HistoryAssumption DEF TierCounts
<1>3. ASSUME config.this # mark.by
      PROVE  ThisTightened /\ Held(confirmed, readable)
  <2>1. /\ ~confirmed /\ readable /\ config.promise
        /\ LaterCutoff(mark.by, TierCounts(config.this))
    BY <1>3
  <2>2. TiersTightened(mark.by, TierCounts(config.this))
    BY <1>1, <1>2, <2>1, LaterIsTighter
  <2>3. place = "drive" => config.sends
    BY DEF ThisRan
  <2>4. ThisTightened
    BY <1>1, <1>2, <2>2, <2>3 DEF ThisTightened
  <2> QED
    BY <2>1, <2>4 DEF Held, Pending
<1>4. Recorded(scope, confirmed, readable).this = mark.by
  <2>1. CASE Held(confirmed, readable) \/ ~readable
    BY <1>1, <2>1 DEF Recorded
  <2>2. CASE ~(Held(confirmed, readable) \/ ~readable)
    <3>1. config.this = mark.by
      BY <1>3, <2>2
    <3> QED
      BY <2>2, <3>1 DEF Recorded
  <2> QED
    BY <2>1, <2>2
<1> QED
  BY <1>1, <1>2, <1>3, <1>4

\* What a held run still deletes, the recorded policy deletes as well.
LEMMA HeldDeletesAsRecorded ==
    ASSUME TypeOK, ThisTightened, row.this \in Shape, TierCounts(row.this) = row.this,
           NEW policy \in SUBSET snaps, NEW pins, NEW listed \in BOOLEAN
    PROVE  policy \ Withheld(policy, pins, TRUE, FALSE, listed)
             \subseteq Thinned(Windows(snaps, row.this, now), Protected(pins), FALSE)
<1>1. DOMAIN Windows(snaps, row.this, now) = snaps
  BY DEF Windows
<1>2. CASE listed
  BY <1>1, <1>2 DEF Withheld, Kept
<1>3. CASE ~listed
  BY <1>3 DEF Withheld
<1> QED
  BY <1>2, <1>3

\* A pin is a snapshot, and what it protects lies in time.
LEMMA PinsTyped ==
    ASSUME TypeOK, NEW pins \in PinSets
    PROVE  /\ pins \subseteq snaps /\ Protected(pins) \in SUBSET Instants
           /\ snaps \in SUBSET Instants /\ now \in Instants /\ mark \in MarkRecord
<1>1. snaps \subseteq Instants /\ now \in Instants /\ mark \in MarkRecord
  BY DEF TypeOK, MarkRecord
<1>2. pins \subseteq snaps
  BY DEF PinSets
<1> QED
  BY <1>1, <1>2 DEF Protected, GraduatedProtected

\* plan_local_retention at a graduated shape, and plan_external_retention.
LEMMA PruneBegins ==
    ASSUME TypeOK, MarkRecorded, NEW scope, ThisRan(scope), config.this # Transient,
           NEW confirmed \in BOOLEAN, NEW readable \in BOOLEAN, NEW pins \in PinSets,
           NEW low \in BOOLEAN, Prune(scope, confirmed, readable, pins, low)
    PROVE  Begun(scope, confirmed, readable)
<1> DEFINE held == Held(confirmed, readable)
           window == Windows(snaps, config.this, now)
           thinned == Thinned(window, Protected(pins), low)
           extras == IF low /\ place = "drive" THEN Extras(snaps \ thinned, pins) ELSE {}
           space == extras \cup (IF low THEN PressureThinned(window, Protected(pins)) ELSE {})
           policy == thinned \ space
<1>1. PICK listed \in Listings(held), adds \in Additions(low) :
        /\ run' = [active |-> TRUE, adds |-> adds,
                   dels |-> space \cup (policy \ Withheld(policy, pins, held, FALSE, listed)),
                   row |-> Recorded(scope, confirmed, readable),
                   gated |-> config.promise /\ readable /\ ~confirmed /\ ~low,
                   holds |-> held /\ ThisTightened,
                   applies |-> readable,
                   settles |-> scope = "full" /\ confirmed /\ readable]
        /\ mark' = IF Released(confirmed, readable, low, extras, FALSE) THEN NoMark
                   ELSE [mark EXCEPT !.pressed = @ \/ low]
  BY DEF Prune
<1>2. /\ pins \subseteq snaps /\ Protected(pins) \in SUBSET Instants
      /\ snaps \in SUBSET Instants /\ now \in Instants /\ mark \in MarkRecord
  BY PinsTyped
<1>3. DOMAIN window = snaps
  BY DEF Windows
<1> HIDE DEF window
<1>4. thinned \subseteq snaps /\ space \subseteq snaps /\ policy \subseteq thinned
  BY <1>3 DEF Thinned, Extras, PressureThinned
<1>5. low => PressureThinned(window, Protected(pins)) \subseteq thinned
  BY DEF Thinned, PressureThinned, Grains
<1>6. listed \in BOOLEAN /\ adds \in SUBSET Instants
  <2>1. listed \in BOOLEAN
    BY DEF Listings
  <2>2. adds \subseteq {now}
    BY DEF Additions
  <2> QED
    BY <1>2, <2>1, <2>2
<1> HIDE DEF held, thinned, extras, space, policy
<1>7. /\ run'.active /\ run'.row = Recorded(scope, confirmed, readable)
      /\ run'.dels = space \cup (policy \ Withheld(policy, pins, held, FALSE, listed))
      /\ run'.settles = (scope = "full" /\ confirmed /\ readable)
  BY <1>1
<1>8. run' \in RunRecord /\ run'.dels \subseteq snaps
  <2>1. Recorded(scope, confirmed, readable) \in Rows
    BY RecordedTyped
  <2>2. run'.dels \subseteq snaps
    BY <1>4, <1>7
  <2>3. run'.dels \in SUBSET Instants
    BY <1>2, <2>2
  <2> QED
    BY <1>1, <1>6, <1>7, <2>1, <2>2, <2>3 DEF RunRecord
<1>9. CASE Released(confirmed, readable, low, extras, FALSE)
  <2>1. mark' = NoMark
    BY <1>1, <1>9
  <2> QED
    BY <1>7, <1>8, <2>1, RecordsTyped DEF Begun
<1>10. CASE ~Released(confirmed, readable, low, extras, FALSE)
  <2>1. mark' = [mark EXCEPT !.pressed = @ \/ low]
    BY <1>1, <1>10
  <2>2. /\ mark' \in MarkRecord /\ mark'.on = mark.on /\ mark'.at = mark.at
        /\ mark'.by = mark.by /\ mark'.pressed = (mark.pressed \/ low)
    BY <1>2, <2>1 DEF MarkRecord
  <2>3. mark.on
    BY <1>10 DEF Released
  <2>4. /\ extras = {}
        /\ mark.by \in Shape /\ row.this = mark.by /\ TierCounts(mark.by) = mark.by
        /\ run'.row.this = mark.by
        /\ config.this # mark.by => ~low /\ ThisTightened /\ Held(confirmed, readable)
    <3>1. extras = {} /\ (config.this # mark.by =>
                             /\ ~low /\ ~confirmed /\ readable /\ config.promise
                             /\ LaterCutoff(mark.by, TierCounts(config.this)))
      BY <1>10 DEF Released
    <3> QED
      BY <1>7, <2>3, <3>1, KeptMarkIsHeld
  <2>5. \E protected \in SUBSET Instants, pressed \in BOOLEAN :
          /\ pressed => mark'.pressed
          /\ run'.dels \subseteq Thinned(Windows(snaps, mark.by, now), protected, pressed)
    <3>1. CASE config.this = mark.by
      <4>1. run'.dels \subseteq thinned
        BY <1>4, <1>5, <1>7, <2>4 DEF space
      <4>2. run'.dels \subseteq Thinned(Windows(snaps, mark.by, now), Protected(pins), low)
        BY <3>1, <4>1 DEF thinned, window
      <4> QED
        BY <1>2, <2>2, <4>2
    <3>2. CASE config.this # mark.by
      <4>1. ~low /\ ThisTightened /\ held
        BY <2>4, <3>2 DEF held
      <4>2. space = {}
        BY <2>4, <4>1 DEF space
      <4>3. policy \in SUBSET snaps
        BY <1>4
      <4>4. held = TRUE
        BY <4>1 DEF held, Held, Pending
      <4>5. policy \ Withheld(policy, pins, TRUE, FALSE, listed)
              \subseteq Thinned(Windows(snaps, row.this, now), Protected(pins), FALSE)
        BY <1>6, <2>4, <4>1, <4>3, HeldDeletesAsRecorded
      <4>6. run'.dels \subseteq Thinned(Windows(snaps, mark.by, now), Protected(pins), FALSE)
        BY <1>7, <2>4, <4>2, <4>4, <4>5
      <4> QED
        BY <1>2, <4>6
    <3> QED
      BY <3>1, <3>2
  <2> QED
    BY <1>7, <1>8, <2>2, <2>3, <2>4, <2>5 DEF Begun
<1> QED
  BY <1>9, <1>10

\* plan_local_retention where the local policy is in effect transient.
LEMMA TransientPruneBegins ==
    ASSUME TypeOK, MarkRecorded, NEW scope, ThisRan(scope),
           NEW confirmed \in BOOLEAN, NEW readable \in BOOLEAN, NEW pins \in PinSets,
           NEW adapted \in BOOLEAN, ~adapted => config.this = Transient,
           PruneTransient(scope, confirmed, readable, pins, adapted)
    PROVE  Begun(scope, confirmed, readable)
<1> DEFINE held == Held(confirmed, readable)
<1>1. PICK mounted \in SUBSET pins, critical \in {c \in BOOLEAN : c => adapted},
           listed \in Listings(held), adds \in {{}} \cup {a \in {{now}} : now \notin snaps} :
        LET policy == snaps \ TransientProtected(pins, mounted, critical)
        IN /\ run' = [active |-> TRUE, adds |-> adds,
                      dels |-> policy \ Withheld(policy, pins, held, adapted, listed),
                      row |-> Recorded(scope, confirmed, readable),
                      gated |-> config.promise /\ readable /\ ~confirmed /\ ~adapted,
                      holds |-> held /\ ThisTightened,
                      applies |-> readable,
                      settles |-> scope = "full" /\ confirmed /\ readable]
           /\ mark' = IF Released(confirmed, readable, FALSE, {}, adapted)
                      THEN NoMark ELSE mark
  BY DEF PruneTransient
<1> DEFINE policy == snaps \ TransientProtected(pins, mounted, critical)
<1>2. /\ pins \subseteq snaps /\ Protected(pins) \in SUBSET Instants
      /\ snaps \in SUBSET Instants /\ now \in Instants /\ mark \in MarkRecord
  BY PinsTyped
<1>3. policy \in SUBSET snaps
  OBVIOUS
<1>4. listed \in BOOLEAN /\ adds \in SUBSET Instants
  BY <1>2 DEF Listings
<1>5. /\ run'.active /\ run'.row = Recorded(scope, confirmed, readable)
      /\ run'.dels = policy \ Withheld(policy, pins, held, adapted, listed)
      /\ run'.settles = (scope = "full" /\ confirmed /\ readable)
  BY <1>1
<1> HIDE DEF held, policy
<1>6. run' \in RunRecord /\ run'.dels \subseteq snaps
  <2>1. Recorded(scope, confirmed, readable) \in Rows
    BY RecordedTyped
  <2>2. run'.dels \subseteq snaps
    BY <1>3, <1>5
  <2>3. run'.dels \in SUBSET Instants
    BY <1>2, <2>2
  <2> QED
    BY <1>1, <1>4, <1>5, <2>1, <2>2, <2>3 DEF RunRecord, policy
<1>7. CASE Released(confirmed, readable, FALSE, {}, adapted)
  <2>1. mark' = NoMark
    BY <1>1, <1>7
  <2> QED
    BY <1>5, <1>6, <2>1, RecordsTyped DEF Begun
<1>8. CASE ~Released(confirmed, readable, FALSE, {}, adapted)
  <2>1. mark' = mark /\ mark.on
    BY <1>1, <1>8 DEF Released
  <2>2. /\ ~adapted
        /\ mark.by \in Shape /\ row.this = mark.by /\ TierCounts(mark.by) = mark.by
        /\ run'.row.this = mark.by
        /\ config.this # mark.by => ThisTightened /\ Held(confirmed, readable)
    <3>1. ~adapted /\ (config.this # mark.by =>
                          /\ ~confirmed /\ readable /\ config.promise
                          /\ LaterCutoff(mark.by, TierCounts(config.this)))
      BY <1>8 DEF Released
    <3> QED
      BY <1>5, <2>1, <3>1, KeptMarkIsHeld
  <2>3. config.this # mark.by
    BY <2>2, HistoryAssumption
  <2>4. held = TRUE
    BY <2>2, <2>3 DEF held, Held, Pending
  <2>5. policy \ Withheld(policy, pins, TRUE, FALSE, listed)
          \subseteq Thinned(Windows(snaps, row.this, now), Protected(pins), FALSE)
    BY <1>3, <1>4, <2>2, <2>3, HeldDeletesAsRecorded
  <2>6. run'.dels \subseteq Thinned(Windows(snaps, mark.by, now), Protected(pins), FALSE)
    BY <1>5, <2>2, <2>4, <2>5
  <2> QED
    BY <1>2, <1>5, <1>6, <2>1, <2>2, <2>6 DEF Begun
<1> QED
  BY <1>7, <1>8

\* Either way a run starts as Begun says, and touches nothing yet.
LEMMA RunBegun ==
    ASSUME TypeOK, MarkRecorded, RunBegins
    PROVE  /\ \E scope \in {"full", "local_only", "external_only"},
                 confirmed \in Flags, readable \in BOOLEAN :
                ThisRan(scope) /\ Begun(scope, confirmed, readable)
           /\ ~run.active /\ faults' \in 0 .. MaxFaults
           /\ UNCHANGED <<now, place, snaps, config, row, under, settled, edits, setBacks>>
<1>1. PICK scope \in {"full", "local_only", "external_only"},
           confirmed \in Flags, readable \in BOOLEAN, pins \in PinSets :
        /\ Reads(readable)
        /\ ThisRan(scope)
        /\ \/ /\ config.this # Transient
              /\ \E low \in BOOLEAN : Prune(scope, confirmed, readable, pins, low)
           \/ /\ place = "local"
              /\ \E adapted \in BOOLEAN :
                   /\ IF adapted THEN config.sends ELSE config.this = Transient
                   /\ PruneTransient(scope, confirmed, readable, pins, adapted)
  BY DEF RunBegins
<1>2. confirmed \in BOOLEAN
  BY DEF Flags
<1>3. Begun(scope, confirmed, readable)
  <2>1. CASE config.this # Transient /\ \E low \in BOOLEAN :
                                           Prune(scope, confirmed, readable, pins, low)
    BY <1>1, <1>2, <2>1, PruneBegins
  <2>2. CASE \E adapted \in BOOLEAN :
                /\ IF adapted THEN config.sends ELSE config.this = Transient
                /\ PruneTransient(scope, confirmed, readable, pins, adapted)
    BY <1>1, <1>2, <2>2, TransientPruneBegins
  <2> QED
    BY <1>1, <2>1, <2>2
<1>4. faults' \in 0 .. MaxFaults
  BY <1>1, HistoryAssumption DEF Reads, TypeOK
<1> QED
  BY <1>1, <1>3, <1>4 DEF RunBegins

\* A run of the other half leaves this half of the record and every snapshot.
LEMMA OtherHalfBegun ==
    ASSUME TypeOK, Idle, MarkRecorded, RunOfOtherHalf
    PROVE  /\ \E scope \in {"local_only", "external_only"},
                 confirmed \in Flags, readable \in BOOLEAN :
                /\ run'.row = Recorded(scope, confirmed, readable)
                /\ run'.row.this = row.this
           /\ run' \in RunRecord /\ run'.active /\ run'.dels = {} /\ ~run'.settles
           /\ ~run.active /\ faults' \in 0 .. MaxFaults
           /\ UNCHANGED <<now, place, snaps, config, row, under, mark, settled, edits, setBacks>>
<1>1. PICK scope \in {"local_only", "external_only"},
           confirmed \in Flags, readable \in BOOLEAN :
        /\ Reads(readable)
        /\ ~ThisRan(scope)
        /\ run' = [NoRun EXCEPT !.active = TRUE, !.row = Recorded(scope, confirmed, readable)]
  BY DEF RunOfOtherHalf
<1>2. Recorded(scope, confirmed, readable) \in Rows
  BY RecordedTyped
<1>3. /\ run' \in RunRecord /\ run'.active
      /\ run'.row = Recorded(scope, confirmed, readable)
      /\ run'.dels = NoRun.dels /\ run'.settles = NoRun.settles
  <2>1. NoRun \in RunRecord
    BY RecordsTyped
  <2> QED
    BY <1>1, <1>2, <2>1 DEF RunRecord
<1>4. run'.dels = {} /\ ~run'.settles
  BY <1>3, RecordsTyped DEF NoRun
<1>5. run'.row.this = row.this
  BY <1>1, <1>3 DEF Recorded
<1>6. faults' \in 0 .. MaxFaults
  BY <1>1, HistoryAssumption DEF Reads, TypeOK
<1> QED
  BY <1>3, <1>4, <1>5, <1>6 DEF RunOfOtherHalf

\* How a run ends: what it deleted, it had planned to.
LEMMA RunEnded ==
    ASSUME TypeOK, RunEnds
    PROVE  /\ run.active /\ run' = NoRun /\ row' = run.row
           /\ snaps' \in SUBSET Instants /\ snaps \ run.dels \subseteq snaps'
           /\ under' \in Policies \cup {NoRow}
           /\ settled' = (settled \/ run.settles)
           /\ mark' \in Marked
           /\ faults' \in 0 .. MaxFaults
           /\ UNCHANGED <<now, place, config, edits, setBacks>>
<1>1. /\ snaps \in SUBSET Instants /\ run.adds \in SUBSET Instants
      /\ row.this \in Policies \cup {NoRow} /\ config.this \in Policies
      /\ under \in Policies \cup {NoRow}
      /\ faults \in 0 .. MaxFaults /\ MaxFaults \in Nat
  BY HistoryAssumption DEF TypeOK, Rows, Configs
<1>2. /\ snaps' = (snaps \cup run.adds) \ run.dels \/ snaps' \in Leaves
      /\ faults' = faults \/ (faults < MaxFaults /\ faults' = faults + 1)
  BY DEF RunEnds
<1>3. snaps' \in SUBSET Instants /\ snaps \ run.dels \subseteq snaps'
  BY <1>1, <1>2 DEF Leaves
<1>4. faults' \in 0 .. MaxFaults
  BY <1>1, <1>2
<1>5. under' \in Policies \cup {NoRow}
  BY <1>1 DEF RunEnds
<1> QED
  BY <1>3, <1>4, <1>5 DEF RunEnds

\* The mark after a run: the one before it, none, or a new one on a snapshot
\* the run left, under the policy it recorded.
LEMMA MarkedTyped ==
    ASSUME TypeOK, row' \in Rows, snaps' \in SUBSET Instants, mark' \in Marked
    PROVE  /\ mark' \in MarkRecord
           /\ \/ mark' = mark /\ mark.on
              \/ ~mark'.on
              \/ mark'.on /\ mark'.by = row'.this /\ mark'.at \in snaps'
<1>1. mark \in MarkRecord
  BY DEF TypeOK, MarkRecord
<1>2. CASE mark.on \/ row'.this \in {NoRow, Transient}
  <2>1. mark' = mark
    BY <1>2 DEF Marked
  <2> QED
    BY <1>1, <2>1
<1>3. CASE ~(mark.on \/ row'.this \in {NoRow, Transient})
  <2>1. row'.this \in Shape
    BY <1>3, HistoryAssumption DEF Rows
  <2>2. mark' = NoMark \/ \E s \in snaps' :
          mark' = [on |-> TRUE, at |-> s, by |-> row'.this, pressed |-> FALSE]
    BY <1>3 DEF Marked
  <2>3. CASE mark' = NoMark
    BY <2>3, RecordsTyped
  <2>4. CASE \E s \in snaps' :
               mark' = [on |-> TRUE, at |-> s, by |-> row'.this, pressed |-> FALSE]
    BY <2>1, <2>4 DEF MarkRecord
  <2> QED
    BY <2>2, <2>3, <2>4
<1> QED
  BY <1>2, <1>3

(******************************** the types ********************************)

\* Every step keeps the types, and leaves nothing of a run that is over.
LEMMA TypesKept ==
    ASSUME TypeOK, Idle, MarkRecorded, [Next]_vars
    PROVE  TypeOK' /\ Idle'
<1>1. CASE RunBegins
  <2>1. PICK scope \in {"full", "local_only", "external_only"},
             confirmed \in Flags, readable \in BOOLEAN : Begun(scope, confirmed, readable)
    BY <1>1, RunBegun
  <2>2. run' \in RunRecord /\ run'.active /\ mark' \in MarkRecord
    BY <2>1 DEF Begun
  <2>3. /\ faults' \in 0 .. MaxFaults
        /\ UNCHANGED <<now, place, snaps, config, row, under, settled, edits, setBacks>>
    BY <1>1, RunBegun
  <2> QED
    BY <2>2, <2>3 DEF TypeOK, Idle, RunRecord, MarkRecord
<1>2. CASE RunOfOtherHalf
  <2>1. /\ run' \in RunRecord /\ run'.active /\ faults' \in 0 .. MaxFaults
        /\ UNCHANGED <<now, place, snaps, config, row, under, mark, settled, edits, setBacks>>
    BY <1>2, OtherHalfBegun
  <2> QED
    BY <2>1 DEF TypeOK, Idle, RunRecord
<1>3. CASE RunEnds
  <2>1. /\ run.active /\ run' = NoRun /\ row' = run.row
        /\ snaps' \in SUBSET Instants
        /\ under' \in Policies \cup {NoRow}
        /\ settled' = (settled \/ run.settles)
        /\ mark' \in Marked
        /\ faults' \in 0 .. MaxFaults
        /\ UNCHANGED <<now, place, config, edits, setBacks>>
    BY <1>3, RunEnded
  <2>2. row' \in Rows /\ settled' \in BOOLEAN
    BY <2>1 DEF TypeOK
  <2>3. mark' \in MarkRecord
    BY <2>1, <2>2, MarkedTyped
  <2>4. run' \in RunRecord /\ run' = NoRun
    BY <2>1, RecordsTyped
  <2> QED
    BY <2>1, <2>2, <2>3, <2>4 DEF TypeOK, Idle, RunRecord, MarkRecord
<1>4. CASE Killed
  <2>1. /\ snaps' \in Leaves /\ run' = NoRun
        /\ faults < MaxFaults /\ faults' = faults + 1
        /\ UNCHANGED <<now, place, config, row, under, mark, settled, edits, setBacks>>
    BY <1>4 DEF Killed
  <2>2. snaps' \in SUBSET Instants
    BY <2>1 DEF Leaves, TypeOK
  <2>3. faults' \in 0 .. MaxFaults
    BY <2>1, HistoryAssumption DEF TypeOK
  <2>4. run' \in RunRecord /\ run' = NoRun
    BY <2>1, RecordsTyped
  <2> QED
    BY <2>1, <2>2, <2>3, <2>4 DEF TypeOK, Idle, RunRecord
<1>5. CASE Edit
  <2>1. config' \in Configs /\ edits' \in 0 .. MaxEdits
    BY <1>5, HistoryAssumption, StartsAssumption DEF Edit, TypeOK
  <2> QED
    BY <1>5, <2>1 DEF Edit, TypeOK, Idle
<1>6. CASE ClockTicks
  <2>1. now' \in Instants
    BY <1>6, CalendarAssumption DEF ClockTicks, TypeOK, Instants
  <2> QED
    BY <1>6, <2>1 DEF ClockTicks, TypeOK, Idle
<1>7. CASE ClockSetBack
  <2>1. now' \in Instants /\ setBacks' \in 0 .. MaxSetBacks
    BY <1>7, CalendarAssumption, HistoryAssumption DEF ClockSetBack, TypeOK, Instants
  <2>2. mark' \in MarkRecord
    BY <1>7, RecordsTyped DEF ClockSetBack
  <2> QED
    BY <1>7, <2>1, <2>2 DEF ClockSetBack, TypeOK, Idle, MarkRecord
<1>8. CASE UNCHANGED vars
  BY <1>8 DEF vars, TypeOK, Idle
<1> QED
  BY <1>1, <1>2, <1>3, <1>4, <1>5, <1>6, <1>7, <1>8 DEF Next

(******************************** the mark *********************************)

\* While the mark is on, every run records the marked policy or nothing.
LEMMA MarkStaysRecorded ==
    ASSUME TypeOK, Idle, MarkRecorded, [Next]_vars
    PROVE  MarkRecorded'
<1>1. CASE RunBegins
  <2>1. PICK scope \in {"full", "local_only", "external_only"},
             confirmed \in Flags, readable \in BOOLEAN : Begun(scope, confirmed, readable)
    BY <1>1, RunBegun
  <2>2. mark'.on => mark.on /\ mark'.by = mark.by /\ run'.row.this = mark.by
    BY <2>1 DEF Begun
  <2>3. row' = row
    BY <1>1, RunBegun
  <2> QED
    BY <2>2, <2>3 DEF MarkRecorded
<1>2. CASE RunOfOtherHalf
  <2>1. run'.row.this = row.this /\ row' = row /\ mark' = mark
    BY <1>2, OtherHalfBegun
  <2> QED
    BY <2>1 DEF MarkRecorded
<1>3. CASE RunEnds
  <2>1. /\ run.active /\ run' = NoRun /\ row' = run.row
        /\ snaps' \in SUBSET Instants /\ mark' \in Marked
    BY <1>3, RunEnded
  <2>2. row' \in Rows /\ ~run'.active
    BY <2>1, RecordsTyped DEF TypeOK
  <2>3. \/ mark' = mark /\ mark.on
        \/ ~mark'.on
        \/ mark'.on /\ mark'.by = row'.this
    BY <2>1, <2>2, MarkedTyped
  <2> QED
    BY <2>1, <2>2, <2>3 DEF MarkRecorded
<1>4. CASE Killed
  <2>1. row' = row /\ mark' = mark /\ ~run'.active
    BY <1>4, RecordsTyped DEF Killed
  <2> QED
    BY <2>1 DEF MarkRecorded
<1>5. CASE ClockSetBack
  <2>1. ~mark'.on
    BY <1>5, RecordsTyped DEF ClockSetBack
  <2> QED
    BY <2>1 DEF MarkRecorded
<1>6. CASE Edit \/ ClockTicks \/ UNCHANGED vars
  <2>1. row' = row /\ mark' = mark /\ run' = run
    BY <1>6 DEF Edit, ClockTicks, vars
  <2> QED
    BY <2>1 DEF MarkRecorded
<1> QED
  BY <1>1, <1>2, <1>3, <1>4, <1>5, <1>6 DEF Next

\* What stands for an instant goes on standing for it.
LEMMA StandsForLater ==
    ASSUME NEW c \in Shape, NEW n \in Instants, NEW k \in Instants, n <= k,
           NEW pressed, NEW r \in Instants, NEW s \in Instants,
           StandsFor(c, n, pressed, r, s)
    PROVE  StandsFor(c, k, pressed, r, s)
<1>1. r \in Int
  BY CalendarAssumption DEF Instants
<1>2. /\ r < HourlyCutoff(c, n) => r < HourlyCutoff(c, k)
      /\ r < DailyCutoff(c, n) => r < DailyCutoff(c, k)
      /\ r < WeeklyCutoff(c, n) => r < WeeklyCutoff(c, k)
      /\ r < MonthlyCutoff(c, n) => r < MonthlyCutoff(c, k)
  BY <1>1, CutoffsOrdered, CutoffsAdvance
<1> QED
  BY <1>2 DEF StandsFor

\* A location with more snapshots covers what one with fewer does.
LEMMA MoreCovers ==
    ASSUME NEW m, NEW n, NEW S, NEW R, S \subseteq R, Covered(S, m, n)
    PROVE  Covered(R, m, n)
BY DEF Covered

\* Every step leaves the mark covered, whatever part of its deletes a run
\* carries out.
LEMMA MarkStaysCovered ==
    ASSUME TypeOK, Idle, MarkRecorded, MarkCovered, [Next]_vars
    PROVE  MarkCovered'
<1> USE DEF MarkCovered
<1>0. /\ mark \in MarkRecord /\ snaps \in SUBSET Instants /\ now \in Instants
      /\ mark.by \in Shape /\ mark.at \in Instants /\ mark.pressed \in BOOLEAN
  BY DEF TypeOK, MarkRecord
<1>1. CASE RunBegins
  <2>1. PICK scope \in {"full", "local_only", "external_only"},
             confirmed \in Flags, readable \in BOOLEAN : Begun(scope, confirmed, readable)
    BY <1>1, RunBegun
  <2>2. snaps' = snaps /\ now' = now /\ ~run.active
    BY <1>1, RunBegun
  <2> SUFFICES ASSUME mark'.on
               PROVE  Covered(snaps \ run'.dels, mark', now)
    BY <2>2
  <2>3. /\ mark.on /\ mark'.at = mark.at /\ mark'.by = mark.by
        /\ mark.pressed => mark'.pressed
        /\ \E protected \in SUBSET Instants, pressed \in BOOLEAN :
             /\ pressed => mark'.pressed
             /\ run'.dels \subseteq Thinned(Windows(snaps, mark.by, now), protected, pressed)
    BY <2>1 DEF Begun, MarkRecord
  <2>4. Covered(snaps, mark, now)
    <3>1. run.dels = {}
      BY <2>2, RecordsTyped DEF Idle
    <3> QED
      BY <2>3, <3>1
  <2>5. mark' \in MarkRecord
    BY <2>1 DEF Begun
  <2> QED
    BY <1>0, <2>3, <2>4, <2>5, ThinningCovers
<1>2. CASE RunOfOtherHalf
  <2>1. /\ run'.dels = {} /\ snaps' = snaps /\ mark' = mark /\ now' = now
    BY <1>2, OtherHalfBegun
  <2>2. snaps \ run.dels \subseteq snaps' \ run'.dels
    BY <2>1
  <2> QED
    BY <2>1, <2>2, MoreCovers
<1>3. CASE RunEnds
  <2>1. /\ run' = NoRun /\ row' = run.row
        /\ snaps' \in SUBSET Instants /\ snaps \ run.dels \subseteq snaps'
        /\ mark' \in Marked /\ now' = now
    BY <1>3, RunEnded
  <2>2. row' \in Rows
    BY <2>1 DEF TypeOK
  <2>3. snaps \ run.dels \subseteq snaps' \ run'.dels /\ snaps' \ run'.dels = snaps'
    BY <2>1, RecordsTyped
  <2>4. CASE mark' = mark
    BY <2>1, <2>3, <2>4, MoreCovers
  <2>5. CASE ~mark'.on
    BY <2>5
  <2>6. CASE mark'.on /\ mark'.at \in snaps'
    <3>1. mark'.at >= mark'.at
      <4>1. mark'.at \in Instants
        BY <2>1, <2>6
      <4>2. mark'.at \in Int
        BY <4>1, CalendarAssumption DEF Instants
      <4> QED
        BY <4>2
    <3>2. StandsFor(mark'.by, now', mark'.pressed, mark'.at, mark'.at)
      BY DEF StandsFor
    <3> QED
      BY <2>3, <2>6, <3>1, <3>2 DEF Covered
  <2> QED
    BY <2>1, <2>2, <2>4, <2>5, <2>6, MarkedTyped
<1>4. CASE Killed
  <2>1. snaps \ run.dels \subseteq snaps' \ run'.dels
    BY <1>4, RecordsTyped DEF Killed, Leaves
  <2>2. mark' = mark /\ now' = now
    BY <1>4 DEF Killed
  <2> QED
    BY <2>1, <2>2, MoreCovers
<1>5. CASE ClockTicks
  <2>1. /\ now' \in Instants /\ now <= now'
        /\ snaps' = snaps /\ run' = run /\ mark' = mark
    BY <1>0, <1>5, CalendarAssumption DEF ClockTicks, Instants
  <2>2. Covered(snaps \ run.dels, mark, now) => Covered(snaps \ run.dels, mark, now')
    <3>1. mark.at < YearlyCutoff(mark.by, now) => mark.at < YearlyCutoff(mark.by, now')
      <4>1. mark.at \in Int
        BY <1>0, CalendarAssumption DEF Instants
      <4> QED
        BY <1>0, <2>1, <4>1, CutoffsOrdered, CutoffsAdvance
    <3>2. \A r \in snaps : StandsFor(mark.by, now, mark.pressed, r, mark.at)
                             => StandsFor(mark.by, now', mark.pressed, r, mark.at)
      BY <1>0, <2>1, StandsForLater
    <3> QED
      BY <3>1, <3>2 DEF Covered
  <2> QED
    BY <2>1, <2>2
<1>6. CASE ClockSetBack
  BY <1>6, RecordsTyped DEF ClockSetBack
<1>7. CASE Edit \/ UNCHANGED vars
  BY <1>7 DEF Edit, vars
<1> QED
  BY <1>1, <1>2, <1>3, <1>4, <1>5, <1>6, <1>7 DEF Next

(************************** one confirmation settles ***********************)

\* Of either half a run records the configured policy, which is not tighter
\* than itself, or leaves what was there.
LEMMA SettledStaysSettled ==
    ASSUME TypeOK, ~PendingOf(row), NEW scope, NEW confirmed, NEW readable
    PROVE  ~PendingOf(Recorded(scope, confirmed, readable))
<1> DEFINE rw == Recorded(scope, confirmed, readable)
<1>1. config.this \in Policies /\ config.other \in Nat /\ row \in Rows
  BY HistoryAssumption DEF TypeOK, Configs
<1>2. ~TiersTightened(TierCounts(config.this), TierCounts(config.this))
  <2>1. TierCounts(config.this) \in Shape
    BY <1>1, CountsTyped
  <2> QED
    BY <2>1, WindowsTyped DEF TiersTightened, WeakerMonthly
<1>3. rw.this \in {row.this, config.this} /\ rw.other \in {row.other, config.other}
  BY <1>1 DEF Recorded
<1>4. ~(config.other < config.other)
  BY <1>1
<1> HIDE DEF rw
<1>5. ~PendingOf(rw)
  BY <1>2, <1>3, <1>4 DEF PendingOf
<1> QED
  BY <1>5 DEF rw

\* A run over the whole subvolume with --confirm-retention-change records both
\* halves, but for an external one that never runs.
LEMMA ConfirmedSettles ==
    ASSUME TypeOK, NEW confirmed, confirmed, NEW readable, readable
    PROVE  ~PendingOf(Recorded("full", confirmed, readable))
<1> DEFINE rw == Recorded("full", confirmed, readable)
<1>1. config.this \in Policies /\ config.other \in Nat /\ place \in {"local", "drive"}
  BY HistoryAssumption DEF TypeOK, Configs
<1>2. ~TiersTightened(TierCounts(config.this), TierCounts(config.this))
  <2>1. TierCounts(config.this) \in Shape
    BY <1>1, CountsTyped
  <2> QED
    BY <2>1, WindowsTyped DEF TiersTightened, WeakerMonthly
<1>3. /\ (place = "drive" => config.sends) => rw.this = config.this
      /\ (place = "local" => config.sends) => rw.other = config.other
  BY <1>1 DEF Recorded, Held, ThisRan, OtherRan
<1>4. ~(config.other < config.other)
  BY <1>1
<1> HIDE DEF rw
<1>5. ~PendingOf(rw)
  BY <1>2, <1>3, <1>4 DEF PendingOf
<1> QED
  BY <1>5 DEF rw

\* Once confirmed, the record of either half stays settled until an edit.
LEMMA SettlingKept ==
    ASSUME TypeOK, Idle, MarkRecorded, RowSettled, [Next]_vars
    PROVE  RowSettled'
<1>1. CASE RunBegins
  <2>1. PICK scope \in {"full", "local_only", "external_only"},
             confirmed \in Flags, readable \in BOOLEAN : Begun(scope, confirmed, readable)
    BY <1>1, RunBegun
  <2>2. /\ run'.row = Recorded(scope, confirmed, readable)
        /\ run'.settles => scope = "full" /\ confirmed /\ readable
    BY <2>1 DEF Begun
  <2>3. row' = row /\ config' = config /\ place' = place /\ settled' = settled
    BY <1>1, RunBegun
  <2>4. \A rw : PendingOf(rw)' = PendingOf(rw)
    BY <2>3 DEF PendingOf
  <2>5. settled => ~PendingOf(run'.row)
    BY <2>2, SettledStaysSettled DEF RowSettled
  <2>6. run'.settles => ~PendingOf(run'.row)
    BY <2>2, ConfirmedSettles
  <2> QED
    BY <2>3, <2>5, <2>6 DEF RowSettled, PendingOf
<1>2. CASE RunOfOtherHalf
  <2>1. PICK scope \in {"local_only", "external_only"},
             confirmed \in Flags, readable \in BOOLEAN :
          run'.row = Recorded(scope, confirmed, readable)
    BY <1>2, OtherHalfBegun
  <2>2. /\ row' = row /\ config' = config /\ place' = place /\ settled' = settled
        /\ ~run'.settles
    BY <1>2, OtherHalfBegun
  <2>3. settled => ~PendingOf(run'.row)
    BY <2>1, SettledStaysSettled DEF RowSettled
  <2> QED
    BY <2>2, <2>3 DEF RowSettled, PendingOf
<1>3. CASE RunEnds
  <2>1. /\ run.active /\ run' = NoRun /\ row' = run.row
        /\ settled' = (settled \/ run.settles)
        /\ config' = config /\ place' = place
    BY <1>3, RunEnded
  <2>2. ~run'.active
    BY <2>1, RecordsTyped
  <2> QED
    BY <2>1, <2>2 DEF RowSettled, PendingOf
<1>4. CASE Killed
  <2>1. /\ row' = row /\ config' = config /\ place' = place /\ settled' = settled
        /\ ~run'.active
    BY <1>4, RecordsTyped DEF Killed
  <2> QED
    BY <2>1 DEF RowSettled, PendingOf
<1>5. CASE Edit
  <2>1. ~settled' /\ ~run'.active
    BY <1>5 DEF Edit
  <2> QED
    BY <2>1 DEF RowSettled
<1>6. CASE ClockTicks \/ ClockSetBack \/ UNCHANGED vars
  <2>1. /\ row' = row /\ config' = config /\ place' = place /\ settled' = settled
        /\ run' = run
    BY <1>6 DEF ClockTicks, ClockSetBack, vars
  <2> QED
    BY <2>1 DEF RowSettled, PendingOf
<1> QED
  BY <1>1, <1>2, <1>3, <1>4, <1>5, <1>6 DEF Next

(******************************* the theorems ******************************)

\* The invariant holds at the start, and every step keeps it.
LEMMA InitHolds == Init => IInv
<1> SUFFICES ASSUME Init
             PROVE  IInv
  OBVIOUS
<1>1. TypeOK
  <2>1. now \in Instants
    BY CalendarAssumption DEF Init, Instants
  <2>2. place \in {"local", "drive"} /\ config \in Configs
    BY StartsAssumption DEF Init
  <2>3. row \in Rows
    BY DEF Init, Rows
  <2>4. run \in RunRecord /\ mark \in MarkRecord
    BY RecordsTyped DEF Init
  <2>5. edits \in 0 .. MaxEdits /\ setBacks \in 0 .. MaxSetBacks /\ faults \in 0 .. MaxFaults
    BY HistoryAssumption DEF Init
  <2> QED
    BY <2>1, <2>2, <2>3, <2>4, <2>5 DEF Init, TypeOK, RunRecord, MarkRecord
<1>2. Idle /\ MarkRecorded /\ MarkCovered /\ RowSettled
  BY RecordsTyped DEF Init, Idle, MarkRecorded, MarkCovered, RowSettled
<1> QED
  BY <1>1, <1>2 DEF IInv

\* The inductive invariant, for any calendar, shapes, edits and bounds.
THEOREM Invariance == Spec => []IInv
<1>1. IInv /\ [Next]_vars => IInv'
  BY TypesKept, MarkStaysRecorded, MarkStaysCovered, SettlingKept DEF IInv
<1> QED
  BY InitHolds, <1>1, PTL DEF Spec

\* The variables have their types, whatever the calendar, shapes and bounds.
THEOREM Typing == Spec => []TypeOK
<1>1. IInv => TypeOK
  BY DEF IInv
<1> QED
  BY Invariance, <1>1, PTL

\* Through runs of every kind, failed deletes, killed runs, pins, pressure and
\* held tightenings, what the location once kept under the recorded retention
\* stays covered as that retention asks until its last window is over.
THEOREM HistoryCovered == Spec => []HistoryIsCovered
<1>1. IInv => HistoryIsCovered
  <2> SUFFICES ASSUME IInv, mark.on
               PROVE  Covered(snaps, mark, now)
    BY DEF HistoryIsCovered
  <2>1. Covered(snaps \ run.dels, mark, now)
    BY DEF IInv, MarkCovered
  <2> QED
    BY <2>1, MoreCovers
<1> QED
  BY Invariance, <1>1, PTL

\* After a confirmed run over the whole subvolume the gate holds nothing until
\* the operator edits the configuration again.
THEOREM OneConfirmationSettles == Spec => []ConfirmationSettles
<1>1. IInv => ConfirmationSettles
  BY DEF IInv, RowSettled, ConfirmationSettles, PendingOf, Pending, ThisTightened, OtherTightened
<1> QED
  BY Invariance, <1>1, PTL
==============================================================================
