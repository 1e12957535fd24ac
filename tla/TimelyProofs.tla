----------------------------- MODULE TimelyProofs -----------------------------
(***************************************************************************)
(* A timer that keeps up keeps the promise: as long as good runs follow    *)
(* each other within TimerMax and one drive is served by each, a roomy     *)
(* subvolume of graduated retention reads PROTECTED.  The steps of the     *)
(* clock lie on a grid, of a day where runs are daily; what was not due at *)
(* the start of a run must not be overdue when the next one is over.       *)
(***************************************************************************)
EXTENDS PromiseProofs

\* What is asked of the timer: an age on the grid at which nothing is due leaves
\* room, in what awareness allows, for the time until the next run is over.
TimerSufficesOn(Grid) ==
    /\ Grid \subseteq Int /\ 0 \in Grid /\ Cap \in Grid
    /\ Waits \subseteq Grid /\ Gaps \subseteq Grid
    /\ \A a, b \in Grid : a + b \in Grid /\ a - b \in Grid
    /\ \A a \in Grid : ~Elapsed(a, SnapInterval) =>
          a + TimerMax <= 2 * SnapInterval /\ 2 * (a + TimerMax) <= 3 * SendInterval
    /\ \A a \in Grid : ~Elapsed(a, SendInterval) => 2 * (a + TimerMax) <= 3 * SendInterval

TimerSuffices == \E Grid \in SUBSET Int : TimerSufficesOn(Grid)

\* Ages are read off a clock that never was set back.
OnGrid(Grid) ==
    /\ newest \in Grid \union {Never}
    /\ \A d \in Drives : sent[d] \in Grid \union {Never} /\ pin[d] \in Grid \union {Never}
    /\ run.age \in Grid
    /\ since \in Grid \union {Late}

\* Too young, at the start of a run, for that run to do anything about it.
NotDue(age) == ~Elapsed(age, SnapInterval) \/ ~Elapsed(age, SendInterval)

LocalKept(start) ==
    newest # Never /\ (newestLag = Same \/ ~Elapsed(newest - start, SnapInterval))

\* A send is on record, and a drive that holds the newest snapshot has it pinned.
Recorded(d) == sent[d] # Never /\ d \notin unrecorded

HeldPinned(d) ==
    d \in held => pin[d] # Never /\ pinLag[d] = newestLag /\ d \notin emptied /\ listed[d] <= newest

CopyKept(d, start) == SourceUnchanged(d, TRUE) \/ NotDue(sent[d] - start)

\* Since the last good run.
Kept ==
    steady # {} =>
        /\ since <= TimerMax /\ steady \subseteq mounted
        /\ LocalKept(since)
        /\ \A d \in steady : Recorded(d) /\ HeldPinned(d) /\ CopyKept(d, since)

\* What a good run under way will have kept when it is over.
WillKeep ==
    run.on /\ run.good =>
        /\ LocalKept(run.age)
        /\ \A d \in steady \ run.due : CopyKept(d, run.age)
        /\ \A d \in run.served : Recorded(d) /\ HeldPinned(d) /\ sent[d] <= run.age

\* Only a run that began in a tight or critical pool takes local snapshots away.
TakesNothing == run.on /\ (run.good \/ steady # {}) => ~run.clears /\ ~run.drops

\* A run under way began after the last good one, and sends to a drive once.
RunInOrder ==
    /\ run.on => run.age <= since \/ since = Late
    /\ run.on => run.due \intersect run.served = {}

TimelyInv(Grid) ==
    skew = 0 =>
        /\ OnGrid(Grid) /\ RunInOrder
        /\ tier = "roomy" => Kept /\ WillKeep /\ TakesNothing

------------------------------------------------------------------------------
(* Ages. *)

\* What is not due is not due at a younger age, and nothing is due at once.
LEMMA YoungerNotElapsed ==
    ASSUME NEW interval \in Nat \ {0}, NEW a \in Int, NEW b \in Int, a <= b \/ a <= 0,
           a <= b => ~Elapsed(b, interval)
    PROVE  ~Elapsed(a, interval)
<1>1. Grace(interval) \in Nat /\ Grace(interval) < interval
  <2>1. interval \div 20 \in Nat /\ interval \div 20 < interval
    BY SMT
  <2> QED
    BY <2>1, IntervalAssumption, SMT DEF Grace, Least
<1> QED
  BY <1>1, SMT DEF Elapsed

LEMMA YoungerNotDue ==
    ASSUME NEW a \in Int, NEW b \in Int, a <= b \/ a <= 0, a <= b => NotDue(b)
    PROVE  NotDue(a)
<1>1. SnapInterval \in Nat \ {0} /\ SendInterval \in Nat \ {0}
  BY IntervalAssumption
<1>2. CASE a <= 0
  BY <1>1, <1>2, YoungerNotElapsed DEF NotDue
<1>3. CASE a <= b
  BY <1>1, <1>3, YoungerNotElapsed DEF NotDue
<1> QED
  BY <1>2, <1>3

\* Without set-backs no age is negative, and a record is no older than what the
\* drive lists.
LEMMA Unset ==
    ASSUME IInv, skew = 0
    PROVE  /\ newest \in 0..Never /\ newestLag \in Int /\ since \in 0..Late
           /\ run.age \in 0..Cap /\ Never \in Nat /\ Late \in Nat
           /\ \A d \in Drives :
                /\ listed[d] \in 0..Never /\ pin[d] \in 0..Never /\ sent[d] \in 0..Never
                /\ Recorded(d) => sent[d] <= listed[d]
BY Numbers, SMT DEF IInv, Fits, TypeOK, Floors, RecordFits, Ages, Lags, Recorded

------------------------------------------------------------------------------
(* The steps of a run. *)

LEMMA RunBeginsTimely ==
    ASSUME NEW Grid, TimerSufficesOn(Grid), "transient" \notin Lifecycles,
           IInv, TimelyInv(Grid), skew = 0,
           NEW kind \in Kinds, NEW room \in Rooms, NEW blocked \in SUBSET Drives,
           NEW known \in BOOLEAN, NEW created \in BOOLEAN,
           RunBegins(kind, room, blocked, known, created)
    PROVE  TimelyInv(Grid)'
<1> DEFINE targets == mounted \ blocked
           sends == room = "enough" /\ (kind # "local" \/ TransientHere)
           wanted == {d \in targets : sends /\ SendDue(d, kind = "manual")}
           makes == /\ kind # "external" /\ room # "full"
                    /\ SnapshotDue(kind = "manual", known)
                    /\ TransientHere => wanted # {}
           leads == makes /\ newest >= 0
           made == leads /\ created
           good == kind \in {"auto", "manual"} /\ room = "enough" /\ created
           clears == tier = "critical" /\ ~\E d \in Drives : AwayPin(d)
           aged == ~makes /\ newestLag # Same /\ Elapsed(newest, SnapInterval)
           drops == TransientHere /\ ~made /\ newest # Never /\ Unsent
<1>1. /\ run' = [on |-> TRUE, age |-> 0, due |-> Due(wanted, leads, created), served |-> {},
                 good |-> good, whole |-> TRUE, clears |-> clears, aged |-> aged, drops |-> drops]
      /\ IF made THEN newest' = 0 /\ newestLag' = Same /\ held' = {}
                 ELSE UNCHANGED <<newest, newestLag, held>>
      /\ IF tier = "critical" THEN Unpin({d \in Drives : AwayPin(d)})
                              ELSE UNCHANGED <<pin, pinLag, emptied>>
      /\ steady' = steady \ blocked /\ ~run.on
      /\ UNCHANGED <<declared, tier, mounted, listed, sent, unrecorded, since, skew>>
  BY DEF RunBegins
<1>2. /\ run'.on = TRUE /\ run'.age = 0 /\ run'.served = {} /\ (run'.good <=> good)
      /\ (run'.clears <=> clears) /\ (run'.drops <=> drops)
      /\ run'.due = Due(wanted, leads, created)
  BY <1>1
<1>3. /\ newest \in 0..Never /\ since \in 0..Late /\ Never \in Nat /\ Never > 0 /\ Same # Never
      /\ SnapInterval \in Nat \ {0} /\ SendInterval \in Nat \ {0}
      /\ mounted \subseteq Drives /\ steady \subseteq Drives
      /\ newest = Never => newestLag = Never
  BY Numbers, Unset, IntervalAssumption DEF IInv, TypeOK
<1>4. OnGrid(Grid)'
  <2>1. \A d \in Drives : pin'[d] = pin[d] \/ pin'[d] = Never
    BY <1>1 DEF Unpin
  <2>2. newest' \in Grid \union {Never} /\ run'.age \in Grid
    BY <1>1, <1>2 DEF TimelyInv, OnGrid, TimerSufficesOn
  <2> QED
    BY <1>1, <2>1, <2>2 DEF TimelyInv, OnGrid
<1>5. RunInOrder'
  BY <1>1, <1>2, <1>3, SMT DEF RunInOrder
<1>6. ASSUME tier = "roomy" PROVE Kept' /\ WillKeep' /\ TakesNothing'
  <2>1. Kept /\ UNCHANGED <<pin, pinLag, emptied>> /\ Effective = SendInterval
    BY <1>1, <1>6 DEF TimelyInv, Effective
  <2>2. ~TransientHere
    BY <1>6 DEF TransientHere, IInv, TypeOK
  <2>3. ~clears /\ ~drops
    BY <1>6, <2>2
  <2>4. (newest' = newest /\ newestLag' = newestLag /\ held' = held)
        \/ (newest' = 0 /\ newestLag' = Same /\ held' = {})
    BY <1>1
  <2>5. Kept'
    <3>1. ASSUME NEW d \in steady, steady' # {}
          PROVE  Recorded(d)' /\ HeldPinned(d)' /\ CopyKept(d, since)'
      BY <1>1, <2>1, <2>4, <3>1 DEF Kept, Recorded, HeldPinned, CopyKept, SourceUnchanged
    <3>2. steady' # {} => LocalKept(since)'
      BY <1>1, <1>3, <2>1, <2>4 DEF Kept, LocalKept
    <3> QED
      BY <1>1, <2>1, <3>1, <3>2 DEF Kept
  <2>6. ASSUME good PROVE LocalKept(0)' /\ \A d \in steady' \ run'.due : CopyKept(d, 0)'
    <3>1. sends /\ created /\ kind # "external" /\ room # "full" /\ newest >= 0
      <4>1. newest >= 0
        BY <1>3
      <4> QED
        BY <2>6, <4>1
    <3>2. CASE makes
      <4>1. newest' = 0 /\ newestLag' = Same /\ run'.due = wanted
        BY <1>1, <1>2, <3>1, <3>2 DEF Due
      <4>2. ASSUME NEW d \in steady', d \notin wanted PROVE CopyKept(d, 0)'
        <5>1. d \in steady /\ d \in targets /\ Recorded(d) /\ d \in Drives
          BY <1>1, <1>3, <2>1, <4>2 DEF Kept
        <5>2. ~Elapsed(listed[d], SendInterval)
          BY <2>1, <3>1, <4>2, <5>1 DEF SendDue
        <5>3. sent[d] <= listed[d] /\ sent[d] \in Int /\ listed[d] \in Int
          BY <5>1, Unset
        <5>4. NotDue(sent[d] - 0)
          BY <5>2, <5>3, YoungerNotDue DEF NotDue
        <5> QED
          BY <1>1, <5>4 DEF CopyKept
      <4> QED
        BY <1>3, <4>1, <4>2 DEF LocalKept
    <3>3. CASE ~makes
      <4>1. /\ ~SnapshotDue(kind = "manual", known)
            /\ run'.due = {d \in wanted : newest # Never /\ d \notin held}
            /\ newest' = newest /\ newestLag' = newestLag /\ held' = held
        BY <1>1, <1>2, <2>2, <3>1, <3>3 DEF Due
      <4>2. newest # Never /\ (newestLag = Same \/ ~Elapsed(newest, SnapInterval))
        <5>1. ~Elapsed(0, SnapInterval)
          BY <1>3, YoungerNotElapsed
        <5> QED
          BY <1>3, <4>1, <5>1 DEF SnapshotDue
      <4>3. ASSUME NEW d \in steady', d \notin run'.due PROVE CopyKept(d, 0)'
        <5>1. /\ d \in steady /\ d \in targets /\ Recorded(d) /\ d \in Drives
              /\ HeldPinned(d)
          BY <1>1, <1>3, <2>1, <4>3 DEF Kept
        <5>2. sent[d] <= listed[d] /\ sent[d] \in Int /\ listed[d] \in Int
          BY <5>1, Unset
        <5>3. CASE d \notin wanted
          <6>1. ~Elapsed(listed[d], SendInterval)
            BY <2>1, <3>1, <5>1, <5>3 DEF SendDue
          <6>2. NotDue(sent[d] - 0)
            BY <5>2, <6>1, YoungerNotDue DEF NotDue
          <6> QED
            BY <1>1, <6>2 DEF CopyKept
        <5>4. CASE d \in held
          <6>1. pin[d] # Never /\ pinLag[d] = newestLag /\ d \notin emptied /\ listed[d] <= newest
            BY <5>1, <5>4 DEF HeldPinned
          <6>2. CASE newestLag = Same
            BY <1>1, <2>1, <6>1, <6>2 DEF CopyKept, SourceUnchanged
          <6>3. CASE ~Elapsed(newest, SnapInterval)
            <7>1. NotDue(sent[d] - 0)
              <8>1. sent[d] - 0 <= newest /\ newest \in Int /\ sent[d] - 0 \in Int
                BY <1>3, <5>2, <6>1, SMT
              <8> QED
                BY <6>3, <8>1, YoungerNotDue DEF NotDue
            <7> QED
              BY <1>1, <7>1 DEF CopyKept
          <6> QED
            BY <4>2, <6>2, <6>3
        <5> QED
          BY <4>1, <4>2, <4>3, <5>3, <5>4
      <4>4. newest - 0 = newest
        BY <1>3
      <4> QED
        BY <4>1, <4>2, <4>3, <4>4 DEF LocalKept
    <3> QED
      BY <3>2, <3>3
  <2> HIDE DEF good, clears, drops
  <2>7. WillKeep'
    BY <1>2, <2>6 DEF WillKeep
  <2>8. TakesNothing'
    BY <1>2, <2>3 DEF TakesNothing
  <2> QED
    BY <2>5, <2>7, <2>8
<1> QED
  BY <1>1, <1>4, <1>5, <1>6 DEF TimelyInv

LEMMA SendSucceedsTimely ==
    ASSUME NEW Grid, TimerSufficesOn(Grid), IInv, TimelyInv(Grid), skew = 0,
           NEW d \in Drives, NEW pinned \in BOOLEAN, NEW recorded \in BOOLEAN,
           SendSucceeds(d, pinned, recorded)
    PROVE  TimelyInv(Grid)'
<1>1. /\ run.on /\ d \in run.due /\ d \in mounted
      /\ listed' = [listed EXCEPT ![d] = Least(@, newest)]
      /\ held' = held \union {d}
      /\ IF pinned /\ ~run.clears
           THEN /\ pin' = [pin EXCEPT ![d] = newest]
                /\ pinLag' = [pinLag EXCEPT ![d] = newestLag]
                /\ emptied' = emptied \ {d}
           ELSE UNCHANGED <<pin, pinLag, emptied>>
      /\ IF recorded
           THEN sent' = [sent EXCEPT ![d] = Least(@, run.age)] /\ unrecorded' = unrecorded \ {d}
           ELSE unrecorded' = unrecorded \union {d} /\ UNCHANGED sent
      /\ run' = [run EXCEPT !.due = @ \ {d}, !.served = @ \union {d},
                            !.good = @ /\ pinned /\ recorded, !.whole = @ /\ pinned]
      /\ steady' = IF pinned /\ recorded THEN steady ELSE steady \ {d}
      /\ UNCHANGED <<declared, tier, mounted, newest, newestLag, since, skew>>
  BY DEF SendSucceeds
<1>2. /\ run'.on = run.on /\ run'.age = run.age /\ run'.due = run.due \ {d}
      /\ run'.served = run.served \union {d} /\ (run'.good <=> run.good /\ pinned /\ recorded)
      /\ run'.clears = run.clears /\ run'.drops = run.drops
  BY <1>1 DEF IInv, TypeOK
<1>3. /\ newest \in 0..Never /\ newest # Never /\ since \in 0..Late /\ Never \in Nat
      /\ run.age \in 0..Cap /\ TimerMax < Late /\ Cap < Never /\ Cap \in Nat /\ Late \in Nat
      /\ TimerMax \in Nat
      /\ listed \in [Drives -> Ages] /\ pin \in [Drives -> Ages] /\ sent \in [Drives -> Ages]
      /\ pinLag \in [Drives -> Lags]
      /\ \A e \in Drives : listed[e] \in 0..Never /\ sent[e] \in 0..Never
      /\ run.due \subseteq Drives /\ run.served \subseteq Drives /\ steady \subseteq Drives
  BY <1>1, Numbers, Unset DEF IInv, TypeOK
<1>4. \A e \in Drives : e # d =>
         /\ listed'[e] = listed[e] /\ sent'[e] = sent[e] /\ pin'[e] = pin[e] /\ pinLag'[e] = pinLag[e]
         /\ e \in held' <=> e \in held
         /\ e \in emptied' <=> e \in emptied
         /\ e \in unrecorded' <=> e \in unrecorded
  BY <1>1, <1>3
<1>5. ASSUME NEW e \in Drives, e # d, NEW start
      PROVE  /\ Recorded(e) => Recorded(e)'
             /\ HeldPinned(e) => HeldPinned(e)'
             /\ CopyKept(e, start) =>
                  \/ pin'[e] # Never /\ pinLag'[e] = Same /\ (e \in mounted' => e \notin emptied')
                  \/ NotDue(sent'[e] - start)
  BY <1>1, <1>4, <1>5 DEF Recorded, HeldPinned, CopyKept, SourceUnchanged
<1>6. ASSUME pinned, recorded, ~run.clears
      PROVE  Recorded(d)' /\ HeldPinned(d)' /\ sent'[d] <= run.age /\ sent'[d] \in Int
  <2>1. /\ listed'[d] = Least(listed[d], newest) /\ pin'[d] = newest /\ pinLag'[d] = newestLag
        /\ d \notin emptied' /\ sent'[d] = Least(sent[d], run.age) /\ d \notin unrecorded'
    BY <1>1, <1>3, <1>6
  <2>2. sent'[d] <= run.age /\ sent'[d] \in Int /\ sent'[d] # Never
    BY <1>3, <2>1, SMT DEF Least
  <2>3. listed'[d] <= newest
    BY <1>3, <2>1, SMT DEF Least
  <2> QED
    BY <1>1, <1>3, <2>1, <2>2, <2>3 DEF Recorded, HeldPinned
<1>7. OnGrid(Grid)'
  <2>1. newest \in Grid /\ run.age \in Grid
    BY <1>3 DEF TimelyInv, OnGrid
  <2>2. sent'[d] \in Grid \union {Never} /\ pin'[d] \in Grid \union {Never}
    BY <1>1, <1>3, <2>1 DEF TimelyInv, OnGrid, Least
  <2>3. \A e \in Drives : sent'[e] \in Grid \union {Never} /\ pin'[e] \in Grid \union {Never}
    BY <1>4, <2>2 DEF TimelyInv, OnGrid
  <2> QED
    BY <1>1, <1>2, <2>3 DEF TimelyInv, OnGrid
<1>8. RunInOrder'
  BY <1>1, <1>2 DEF TimelyInv, RunInOrder
<1>9. ASSUME tier = "roomy" PROVE Kept' /\ WillKeep' /\ TakesNothing'
  <2>1. Kept /\ WillKeep /\ TakesNothing
    BY <1>9 DEF TimelyInv
  <2>2. TakesNothing'
    BY <1>1, <1>2, <2>1 DEF TakesNothing
  <2>3. Kept'
    <3> SUFFICES ASSUME steady' # {} PROVE Kept'
      BY DEF Kept
    <3>1. steady # {} /\ ~run.clears /\ since <= TimerMax
      BY <1>1, <2>1 DEF Kept, TakesNothing
    <3>2. ASSUME NEW e \in steady' PROVE Recorded(e)' /\ HeldPinned(e)' /\ CopyKept(e, since)'
      <4>1. CASE e = d
        <5>1. Recorded(d)' /\ HeldPinned(d)' /\ sent'[d] <= run.age /\ sent'[d] \in Int
          BY <1>1, <1>6, <3>1, <3>2, <4>1
        <5>2. run.age <= since
          BY <1>1, <1>3, <3>1 DEF TimelyInv, RunInOrder
        <5>3. NotDue(sent'[d] - since)
          <6>1. sent'[d] - since <= 0 /\ sent'[d] - since \in Int
            BY <1>3, <5>1, <5>2
          <6> QED
            BY <6>1, YoungerNotDue
        <5> QED
          BY <1>1, <4>1, <5>1, <5>3 DEF CopyKept
      <4>2. CASE e # d
        <5>1. e \in Drives /\ Recorded(e) /\ HeldPinned(e) /\ CopyKept(e, since)
          BY <1>1, <1>3, <2>1, <3>1, <3>2 DEF Kept
        <5> QED
          BY <1>1, <1>5, <4>2, <5>1 DEF CopyKept, SourceUnchanged
      <4> QED
        BY <4>1, <4>2
    <3> QED
      BY <1>1, <2>1, <3>1, <3>2 DEF Kept, LocalKept
  <2>4. WillKeep'
    <3> SUFFICES ASSUME run.good, pinned, recorded PROVE WillKeep'
      BY <1>2 DEF WillKeep
    <3>1. ~run.clears
      BY <1>1, <2>1 DEF TakesNothing
    <3>2. Recorded(d)' /\ HeldPinned(d)' /\ sent'[d] <= run.age /\ sent'[d] \in Int
      BY <1>6, <3>1
    <3>3. ASSUME NEW e \in steady' \ run'.due PROVE CopyKept(e, run.age)'
      <4>1. CASE e = d
        <5>1. NotDue(sent'[d] - run.age)
          <6>1. sent'[d] - run.age <= 0 /\ sent'[d] - run.age \in Int
            BY <1>3, <3>2
          <6> QED
            BY <6>1, YoungerNotDue
        <5> QED
          BY <1>2, <4>1, <5>1 DEF CopyKept
      <4>2. CASE e # d
        <5>1. e \in Drives /\ CopyKept(e, run.age)
          BY <1>1, <1>2, <1>3, <2>1, <3>3, <4>2 DEF WillKeep
        <5> QED
          BY <1>2, <1>5, <4>2, <5>1 DEF CopyKept, SourceUnchanged
      <4> QED
        BY <4>1, <4>2
    <3>4. ASSUME NEW e \in run'.served PROVE Recorded(e)' /\ HeldPinned(e)' /\ sent'[e] <= run.age
      <4>1. CASE e = d
        BY <3>2, <4>1
      <4>2. CASE e # d
        <5>1. e \in Drives /\ Recorded(e) /\ HeldPinned(e) /\ sent[e] <= run.age
          BY <1>1, <1>2, <1>3, <2>1, <3>4, <4>2 DEF WillKeep
        <5> QED
          BY <1>4, <1>5, <4>2, <5>1
      <4> QED
        BY <4>1, <4>2
    <3>5. LocalKept(run.age)'
      BY <1>1, <1>2, <2>1 DEF WillKeep, LocalKept
    <3>6. run'.age = run.age
      BY <1>2
    <3> QED
      BY <3>3, <3>4, <3>5, <3>6 DEF WillKeep, CopyKept, LocalKept
  <2> QED
    BY <2>2, <2>3, <2>4
<1> QED
  BY <1>1, <1>7, <1>8, <1>9 DEF TimelyInv

\* A send that fails, or a kill, leaves the drives it touched out of `steady`.
LEMMA SendFailsTimely ==
    ASSUME NEW Grid, IInv, TimelyInv(Grid), skew = 0,
           NEW d \in Drives, NEW partial \in BOOLEAN, SendFails(d, partial)
    PROVE  TimelyInv(Grid)'
<1>1. /\ run.on /\ d \in run.due
      /\ \/ UNCHANGED <<listed, held, unrecorded>>
         \/ /\ listed' = [listed EXCEPT ![d] = Least(@, newest)]
            /\ held' = held \union {d} /\ unrecorded' = unrecorded \union {d}
      /\ run' = [run EXCEPT !.due = @ \ {d}, !.whole = FALSE]
      /\ steady' = steady \ {d}
      /\ UNCHANGED <<declared, tier, mounted, newest, newestLag, pin, pinLag, emptied, sent, since, skew>>
  BY DEF SendFails
<1>2. /\ run'.on = run.on /\ run'.age = run.age /\ run'.due = run.due \ {d}
      /\ run'.served = run.served /\ run'.good = run.good
      /\ run'.clears = run.clears /\ run'.drops = run.drops
      /\ run.due \subseteq Drives /\ run.served \subseteq Drives /\ steady \subseteq Drives
      /\ listed \in [Drives -> Ages]
  BY <1>1 DEF IInv, TypeOK
<1>3. OnGrid(Grid)' /\ RunInOrder'
  BY <1>1, <1>2 DEF TimelyInv, OnGrid, RunInOrder
<1>4. ASSUME NEW e \in Drives, e # d, NEW start
      PROVE  /\ Recorded(e) => Recorded(e)'
             /\ HeldPinned(e) => HeldPinned(e)'
             /\ CopyKept(e, start) =>
                  \/ pin'[e] # Never /\ pinLag'[e] = Same /\ (e \in mounted' => e \notin emptied')
                  \/ NotDue(sent'[e] - start)
  BY <1>1, <1>2, <1>4 DEF Recorded, HeldPinned, CopyKept, SourceUnchanged
<1>5. ASSUME tier = "roomy" PROVE Kept' /\ WillKeep' /\ TakesNothing'
  <2>1. Kept /\ WillKeep /\ TakesNothing /\ d \notin run.served
    BY <1>1, <1>5 DEF TimelyInv, RunInOrder
  <2>2. TakesNothing'
    BY <1>1, <1>2, <2>1 DEF TakesNothing
  <2>3. Kept'
    <3>1. ASSUME NEW e \in steady' PROVE Recorded(e)' /\ HeldPinned(e)' /\ CopyKept(e, since)'
      <4>1. e \in Drives /\ e # d /\ Recorded(e) /\ HeldPinned(e) /\ CopyKept(e, since)
        BY <1>1, <1>2, <2>1, <3>1 DEF Kept
      <4> QED
        BY <1>1, <1>4, <4>1 DEF CopyKept, SourceUnchanged
    <3> QED
      BY <1>1, <2>1, <3>1 DEF Kept, LocalKept
  <2>4. WillKeep'
    <3> SUFFICES ASSUME run.good PROVE WillKeep'
      BY <1>2 DEF WillKeep
    <3>1. ASSUME NEW e \in steady' \ run'.due PROVE CopyKept(e, run.age)'
      <4>1. e \in Drives /\ e # d /\ CopyKept(e, run.age)
        BY <1>1, <1>2, <2>1, <3>1 DEF WillKeep
      <4> QED
        BY <1>2, <1>4, <4>1 DEF CopyKept, SourceUnchanged
    <3>2. ASSUME NEW e \in run'.served PROVE Recorded(e)' /\ HeldPinned(e)' /\ sent'[e] <= run.age
      <4>1. e \in Drives /\ e # d /\ Recorded(e) /\ HeldPinned(e) /\ sent[e] <= run.age
        BY <1>1, <1>2, <2>1, <3>2 DEF WillKeep
      <4> QED
        BY <1>1, <1>4, <4>1
    <3>3. LocalKept(run.age)'
      BY <1>1, <1>2, <2>1 DEF WillKeep, LocalKept
    <3>4. run'.age = run.age
      BY <1>2
    <3> QED
      BY <3>1, <3>2, <3>3, <3>4 DEF WillKeep, CopyKept, LocalKept
  <2> QED
    BY <2>2, <2>3, <2>4
<1> QED
  BY <1>1, <1>3, <1>5 DEF TimelyInv

LEMMA KilledTimely ==
    ASSUME NEW Grid, TimerSufficesOn(Grid), IInv, TimelyInv(Grid), skew = 0,
           NEW partial \in SUBSET Drives, Killed(partial)
    PROVE  TimelyInv(Grid)'
<1>1. /\ listed' = [d \in Drives |-> IF d \in partial THEN Least(listed[d], newest) ELSE listed[d]]
      /\ held' = held \union partial /\ unrecorded' = unrecorded \union partial
      /\ run' = Idle /\ steady' = steady \ partial
      /\ UNCHANGED <<declared, tier, mounted, newest, newestLag, pin, pinLag, emptied, sent, since, skew>>
  BY DEF Killed
<1>2. ~run'.on /\ run'.age = 0 /\ steady \subseteq Drives
  BY <1>1 DEF Idle, IInv, TypeOK
<1>3. OnGrid(Grid)' /\ RunInOrder'
  BY <1>1, <1>2 DEF TimelyInv, OnGrid, RunInOrder, TimerSufficesOn
<1>4. WillKeep' /\ TakesNothing'
  BY <1>2 DEF WillKeep, TakesNothing
<1>5. ASSUME tier = "roomy" PROVE Kept'
  <2>1. Kept
    BY <1>5 DEF TimelyInv
  <2>2. ASSUME NEW e \in steady' PROVE Recorded(e)' /\ HeldPinned(e)' /\ CopyKept(e, since)'
    <3>1. e \in Drives /\ e \notin partial /\ Recorded(e) /\ HeldPinned(e) /\ CopyKept(e, since)
      BY <1>1, <1>2, <2>1, <2>2 DEF Kept
    <3> QED
      BY <1>1, <3>1 DEF Recorded, HeldPinned, CopyKept, SourceUnchanged
  <2> QED
    BY <1>1, <2>1, <2>2 DEF Kept, LocalKept
<1> QED
  BY <1>1, <1>3, <1>4, <1>5 DEF TimelyInv

LEMMA ShutDownTimely ==
    ASSUME NEW Grid, IInv, TimelyInv(Grid), skew = 0, ShutDown
    PROVE  TimelyInv(Grid)'
<1>1. /\ run.on /\ run' = [run EXCEPT !.due = {}, !.good = FALSE, !.drops = FALSE]
      /\ UNCHANGED <<tier, mounted, newest, newestLag, listed, held, pin, pinLag, emptied,
                     sent, unrecorded, since, steady, skew>>
  BY DEF ShutDown, disk
<1>2. /\ run'.on = run.on /\ run'.age = run.age /\ run'.due = {} /\ run'.good = FALSE
      /\ run'.served = run.served /\ run'.clears = run.clears /\ run'.drops = FALSE
  BY <1>1 DEF IInv, TypeOK
<1>3. OnGrid(Grid)' /\ RunInOrder'
  BY <1>1, <1>2 DEF TimelyInv, OnGrid, RunInOrder
<1>4. ASSUME tier = "roomy" PROVE Kept' /\ WillKeep' /\ TakesNothing'
  <2>1. Kept /\ TakesNothing
    BY <1>4 DEF TimelyInv
  <2>2. Kept'
    BY <1>1, <2>1 DEF Kept, LocalKept, Recorded, HeldPinned, CopyKept, SourceUnchanged
  <2> QED
    BY <1>1, <1>2, <2>1, <2>2 DEF WillKeep, TakesNothing
<1> QED
  BY <1>1, <1>3, <1>4 DEF TimelyInv

\* A good run that is over is the last one.
LEMMA RunEndsTimely ==
    ASSUME NEW Grid, TimerSufficesOn(Grid), IInv, TimelyInv(Grid), skew = 0,
           NEW deleted \in BOOLEAN, RunEnds(deleted)
    PROVE  TimelyInv(Grid)'
<1>1. /\ run.on /\ run.due = {} /\ run' = Idle
      /\ \E lost \in SUBSET run.served :
           /\ IF Clears THEN deleted => lost = run.served ELSE lost = {}
           /\ Unpin(lost)
           /\ \/ NewestGoes /\ NextNewest(deleted, lost)
              \/ UNCHANGED <<newest, newestLag, held>>
      /\ since' = IF run.good THEN Least(Most(run.age, 0), Late) ELSE since
      /\ steady' = IF since' > TimerMax THEN {}
                   ELSE IF run.good THEN steady \union (run.served \intersect mounted)
                   ELSE steady
      /\ UNCHANGED <<declared, tier, mounted, listed, sent, unrecorded, skew>>
  BY DEF RunEnds
<1>2. /\ ~run'.on /\ run'.age = 0 /\ run.age \in 0..Cap /\ since \in 0..Late /\ Late \in Nat
      /\ TimerMax < Late /\ TimerMax \in Nat /\ Cap \in Nat
      /\ steady \subseteq Drives /\ run.served \subseteq Drives /\ pin \in [Drives -> Ages]
      /\ pinLag \in [Drives -> Lags] /\ sent \in [Drives -> Ages]
      /\ \A d \in Drives : sent[d] \in 0..Never
  BY <1>1, Numbers, Unset DEF Idle, IInv, TypeOK
<1>3. OnGrid(Grid)'
  <2>0. PICK lost \in SUBSET run.served :
          /\ Unpin(lost)
          /\ \/ NewestGoes /\ NextNewest(deleted, lost)
             \/ UNCHANGED <<newest, newestLag, held>>
    BY <1>1
  <2>1. newest' \in Grid \union {Never}
    <3>1. CASE UNCHANGED newest
      BY <3>1 DEF TimelyInv, OnGrid
    <3>2. CASE \E d \in Drives : newest' = pin[d]
      BY <3>2 DEF TimelyInv, OnGrid
    <3>3. CASE newest # Never /\ \E g \in Gaps : newest' = Least(newest + g, Cap)
      BY <3>3 DEF Least, TimelyInv, OnGrid, TimerSufficesOn
    <3>4. ASSUME NewestGoes, NextNewest(deleted, lost)
          PROVE  \/ newest' = Never
                 \/ \E d \in Drives : newest' = pin[d]
                 \/ newest # Never /\ \E g \in Gaps : newest' = Least(newest + g, Cap)
      BY <3>4 DEF NewestGoes, NextNewest
    <3> QED
      BY <2>0, <3>1, <3>2, <3>3, <3>4
  <2>2. \A d \in Drives : pin'[d] = pin[d] \/ pin'[d] = Never
    BY <2>0, <1>2 DEF Unpin
  <2>3. since' \in Grid \union {Late}
    BY <1>1, <1>2, SMT DEF TimelyInv, OnGrid, Least, Most
  <2> QED
    BY <1>1, <1>2, <2>1, <2>2, <2>3 DEF TimelyInv, OnGrid, TimerSufficesOn
<1>4. RunInOrder' /\ WillKeep' /\ TakesNothing'
  BY <1>2 DEF RunInOrder, WillKeep, TakesNothing
<1>5. ASSUME tier = "roomy", steady' # {} PROVE Kept'
  <2>1. Kept /\ WillKeep /\ TakesNothing
    BY <1>5 DEF TimelyInv
  <2>2. run.good \/ steady # {}
    BY <1>1, <1>5
  <2>3. UNCHANGED <<newest, newestLag, held, pin, pinLag, emptied>>
    <3>1. ~Clears /\ ~Drops
      BY <1>1, <2>1, <2>2 DEF TakesNothing, Clears, Drops
    <3>2. Unpin({}) /\ UNCHANGED <<newest, newestLag, held>>
      BY <1>1, <3>1 DEF NewestGoes
    <3> QED
      BY <1>2, <3>2 DEF Unpin
  <2>4. since' \in Int
    BY <1>1, <1>2 DEF Least, Most
  <2>5. since' <= TimerMax
    <3>1. ~(since' > TimerMax)
      BY <1>1, <1>5
    <3> QED
      BY <1>2, <2>4, <3>1
  <2>6. CASE ~run.good
    BY <1>1, <1>5, <2>1, <2>3, <2>6 DEF Kept, LocalKept, Recorded, HeldPinned, CopyKept, SourceUnchanged
  <2>7. CASE run.good
    <3>1. since' = run.age
      BY <1>1, <1>2, <2>5, <2>7, SMT DEF Least, Most
    <3>2. steady' = steady \union (run.served \intersect mounted) /\ steady' \subseteq mounted
      BY <1>1, <1>5, <2>1, <2>5, <2>7 DEF Kept
    <3>3. LocalKept(since)'
      BY <1>1, <2>1, <2>3, <2>7, <3>1 DEF WillKeep, LocalKept
    <3>4. ASSUME NEW e \in steady'
          PROVE  e \in Drives /\ Recorded(e) /\ HeldPinned(e) /\ CopyKept(e, run.age)
      <4>1. CASE e \in steady
        BY <1>1, <1>2, <2>1, <2>7, <4>1 DEF Kept, WillKeep
      <4>2. CASE e \in run.served
        <5>1. e \in Drives /\ Recorded(e) /\ HeldPinned(e) /\ sent[e] <= run.age
          BY <1>1, <1>2, <2>1, <2>7, <4>2 DEF WillKeep
        <5>2. sent[e] - run.age <= 0 /\ sent[e] - run.age \in Int
          BY <1>2, <5>1, Numbers
        <5>3. NotDue(sent[e] - run.age)
          BY <5>2, YoungerNotDue
        <5> QED
          BY <5>1, <5>3 DEF CopyKept
      <4> QED
        BY <3>2, <3>4, <4>1, <4>2
    <3>5. \A e \in steady' : Recorded(e)' /\ HeldPinned(e)' /\ CopyKept(e, since)'
      BY <1>1, <2>3, <3>1, <3>4 DEF Recorded, HeldPinned, CopyKept, SourceUnchanged
    <3> QED
      BY <1>1, <2>5, <3>2, <3>3, <3>5 DEF Kept
  <2> QED
    BY <2>6, <2>7
<1>6. steady' = {} => Kept'
  BY DEF Kept
<1> QED
  BY <1>1, <1>3, <1>4, <1>5, <1>6 DEF TimelyInv

------------------------------------------------------------------------------
(* The world. *)

\* Time passes for the files and for the run alike.
LEMMA WaitTimely ==
    ASSUME NEW Grid, TimerSufficesOn(Grid), IInv, TimelyInv(Grid), skew = 0,
           NEW k \in Waits, Wait(k)
    PROVE  TimelyInv(Grid)'
<1>1. /\ newest' = Older(newest, k) /\ newestLag' = Staler(newestLag, k)
      /\ listed' = [d \in Drives |-> Older(listed[d], k)]
      /\ pin' = [d \in Drives |-> Older(pin[d], k)]
      /\ pinLag' = [d \in Drives |-> Staler(pinLag[d], k)]
      /\ sent' = [d \in Drives |-> Older(sent[d], k)]
      /\ run' = IF run.on THEN [run EXCEPT !.age = Older(@, k)] ELSE run
      /\ since' = Least(since + k, Late)
      /\ steady' = IF since' > TimerMax THEN {} ELSE steady
      /\ UNCHANGED <<declared, tier, mounted, held, emptied, unrecorded, skew>>
  BY DEF Wait
<1>2. /\ newest \in 0..Never /\ since \in 0..Late /\ Never \in Nat /\ Late \in Nat /\ Never = Cap + 1
      /\ run.age \in 0..Cap /\ TimerMax < Late /\ Cap \in Nat /\ k \in Nat /\ TimerMax \in Nat
      /\ Same = -1 /\ newestLag \in Lags
      /\ \A d \in Drives : /\ listed[d] \in 0..Never /\ sent[d] \in 0..Never /\ pin[d] \in 0..Never
                           /\ pinLag[d] \in Lags
      /\ run.due \subseteq Drives /\ run.served \subseteq Drives /\ steady \subseteq Drives
  BY Numbers, Unset DEF IInv, TypeOK
<1>3. /\ run'.on = run.on /\ run'.due = run.due /\ run'.served = run.served /\ run'.good = run.good
      /\ run'.clears = run.clears /\ run'.drops = run.drops
      /\ run'.age = IF run.on THEN Older(run.age, k) ELSE run.age
  BY <1>1 DEF IInv, TypeOK
<1>4. ASSUME NEW age \in Grid \union {Never} PROVE Older(age, k) \in Grid \union {Never}
  BY <1>4 DEF Older, Least, TimerSufficesOn
<1>5. OnGrid(Grid)'
  <2>1. \A d \in Drives : sent'[d] \in Grid \union {Never} /\ pin'[d] \in Grid \union {Never}
    BY <1>1, <1>4 DEF TimelyInv, OnGrid
  <2>2. newest' \in Grid \union {Never}
    BY <1>1, <1>4 DEF TimelyInv, OnGrid
  <2>3. run'.age \in Grid
    BY <1>2, <1>3 DEF Older, Least, TimelyInv, OnGrid, TimerSufficesOn
  <2>4. since' \in Grid \union {Late}
    BY <1>1, <1>2, SMT DEF Least, TimelyInv, OnGrid, TimerSufficesOn
  <2> QED
    BY <2>1, <2>2, <2>3, <2>4 DEF OnGrid
<1>6. RunInOrder'
  <2>1. run.on => run'.age <= since' \/ since' = Late
    BY <1>1, <1>2, <1>3, SMT DEF Older, Least, TimelyInv, RunInOrder
  <2> QED
    BY <1>3, <2>1 DEF TimelyInv, RunInOrder
<1>7. ASSUME NEW age \in 0..Never, age # Never, NEW start \in Int, NEW start1 \in Int,
             start1 = start + k \/ (start1 >= Cap /\ start + k >= Cap)
      PROVE  /\ Older(age, k) # Never
             /\ Older(age, k) - start1 <= age - start \/ Older(age, k) - start1 <= 0
             /\ Older(age, k) - start1 \in Int /\ age - start \in Int
  BY <1>2, <1>7, SMT DEF Older, Least
<1>8. ASSUME LocalKept(since), since' = since + k PROVE LocalKept(since)'
  <2>1. newest' # Never /\ newest' - since' \in Int /\ newest - since \in Int
        /\ (newest' - since' <= newest - since \/ newest' - since' <= 0)
    BY <1>1, <1>2, <1>7, <1>8 DEF LocalKept
  <2>2. newestLag = Same => newestLag' = Same
    BY <1>1 DEF Staler
  <2>3. ~Elapsed(newest - since, SnapInterval) => ~Elapsed(newest' - since', SnapInterval)
    BY <2>1, YoungerNotElapsed, IntervalAssumption
  <2> QED
    BY <1>8, <2>1, <2>2, <2>3 DEF LocalKept
<1>9. ASSUME NEW d \in Drives
      PROVE  /\ Recorded(d) => Recorded(d)'
             /\ HeldPinned(d) => HeldPinned(d)'
             /\ SourceUnchanged(d, TRUE) => SourceUnchanged(d, TRUE)'
  <2>1. /\ listed'[d] = Older(listed[d], k) /\ pin'[d] = Older(pin[d], k)
        /\ sent'[d] = Older(sent[d], k) /\ pinLag'[d] = Staler(pinLag[d], k)
    BY <1>1
  <2>2. Recorded(d) => Recorded(d)'
    BY <1>1, <1>2, <2>1, SMT DEF Recorded, Older, Least
  <2>3. pin[d] # Never => pin'[d] # Never
    BY <1>2, <2>1, SMT DEF Older, Least
  <2>4. HeldPinned(d) => HeldPinned(d)'
    <3>1. d \in held => newest # Never
      BY DEF IInv, TypeOK
    <3>2. newest # Never /\ listed[d] <= newest => listed'[d] <= newest'
      BY <1>1, <1>2, <2>1, SMT DEF Older, Least
    <3> QED
      BY <1>1, <2>1, <2>3, <3>1, <3>2 DEF HeldPinned
  <2>5. SourceUnchanged(d, TRUE) => SourceUnchanged(d, TRUE)'
    BY <1>1, <2>1, <2>3 DEF SourceUnchanged, Staler
  <2> QED
    BY <2>2, <2>4, <2>5
<1>10. ASSUME NEW d \in Drives, sent[d] # Never, NEW start \in Int, NEW start1 \in Int,
              start1 = start + k \/ (start1 >= Cap /\ start + k >= Cap),
              NotDue(sent[d] - start)
       PROVE  NotDue(sent'[d] - start1)
  <2>1. sent'[d] = Older(sent[d], k)
    BY <1>1
  <2>2. /\ sent'[d] - start1 <= sent[d] - start \/ sent'[d] - start1 <= 0
        /\ sent'[d] - start1 \in Int /\ sent[d] - start \in Int
    BY <1>2, <1>7, <1>10, <2>1
  <2> QED
    BY <1>10, <2>2, YoungerNotDue
<1>11. ASSUME tier = "roomy" PROVE Kept' /\ WillKeep' /\ TakesNothing'
  <2>1. Kept /\ WillKeep /\ TakesNothing /\ steady' \subseteq steady
    BY <1>1, <1>11 DEF TimelyInv
  <2>2. TakesNothing'
    BY <1>3, <2>1 DEF TakesNothing
  <2>3. Kept'
    <3> SUFFICES ASSUME steady' # {} PROVE Kept'
      BY DEF Kept
    <3>1. /\ since' = since + k /\ since' <= TimerMax /\ steady' = steady
          /\ since \in Int /\ since' \in Int
      <4>1. ~(since' > TimerMax) /\ steady' = steady
        BY <1>1
      <4> QED
        BY <1>1, <1>2, <4>1, SMT DEF Least
    <3>2. LocalKept(since)'
      BY <1>8, <2>1, <3>1 DEF Kept
    <3>3. ASSUME NEW d \in steady PROVE Recorded(d)' /\ HeldPinned(d)' /\ CopyKept(d, since)'
      <4>1. d \in Drives /\ Recorded(d) /\ HeldPinned(d) /\ CopyKept(d, since)
        BY <1>2, <2>1, <3>3 DEF Kept
      <4>2. sent[d] # Never
        BY <4>1 DEF Recorded
      <4>3. NotDue(sent[d] - since) => NotDue(sent'[d] - since')
        BY <1>10, <3>1, <4>1, <4>2
      <4> QED
        BY <1>9, <4>1, <4>3 DEF CopyKept
    <3> QED
      BY <1>1, <2>1, <3>1, <3>2, <3>3 DEF Kept
  <2>4. WillKeep'
    <3> SUFFICES ASSUME run.on, run.good PROVE WillKeep'
      BY <1>3 DEF WillKeep
    <3>1. /\ run'.age = run.age + k \/ (run'.age >= Cap /\ run.age + k >= Cap)
          /\ run'.age \in Int /\ run.age \in Int
      BY <1>2, <1>3, SMT DEF Older, Least
    <3>2. newest' # Never /\ (newestLag' = Same \/ ~Elapsed(newest' - run'.age, SnapInterval))
      <4>1. newest # Never /\ (newestLag = Same \/ ~Elapsed(newest - run.age, SnapInterval))
        BY <2>1 DEF WillKeep, LocalKept
      <4>2. newest' # Never /\ newest' - run'.age \in Int /\ newest - run.age \in Int
            /\ (newest' - run'.age <= newest - run.age \/ newest' - run'.age <= 0)
        BY <1>1, <1>2, <1>7, <3>1, <4>1
      <4>3. ~Elapsed(newest - run.age, SnapInterval) => ~Elapsed(newest' - run'.age, SnapInterval)
        BY <4>2, YoungerNotElapsed, IntervalAssumption
      <4> QED
        BY <1>1, <4>1, <4>2, <4>3 DEF Staler
    <3>3. ASSUME NEW d \in steady' \ run'.due
          PROVE  SourceUnchanged(d, TRUE)' \/ NotDue(sent'[d] - run'.age)
      <4>1. d \in Drives /\ Recorded(d) /\ CopyKept(d, run.age)
        BY <1>2, <1>3, <2>1, <3>3 DEF WillKeep, Kept
      <4>2. sent[d] # Never
        BY <4>1 DEF Recorded
      <4>3. NotDue(sent[d] - run.age) => NotDue(sent'[d] - run'.age)
        BY <1>10, <3>1, <4>1, <4>2
      <4> QED
        BY <1>9, <4>1, <4>3 DEF CopyKept
    <3>4. ASSUME NEW d \in run'.served PROVE Recorded(d)' /\ HeldPinned(d)' /\ sent'[d] <= run'.age
      <4>1. d \in Drives /\ Recorded(d) /\ HeldPinned(d) /\ sent[d] <= run.age /\ sent[d] # Never
        BY <1>2, <1>3, <2>1, <3>4 DEF WillKeep, Recorded
      <4>2. sent'[d] <= run'.age
        <5>1. sent'[d] = Older(sent[d], k) /\ run'.age = Older(run.age, k)
          BY <1>1, <1>3, <4>1
        <5> QED
          BY <1>2, <4>1, <5>1, SMT DEF Older, Least
      <4> QED
        BY <1>9, <4>1, <4>2
    <3> QED
      BY <3>2, <3>3, <3>4 DEF WillKeep, LocalKept, CopyKept
  <2> QED
    BY <2>2, <2>3, <2>4
<1> QED
  BY <1>1, <1>5, <1>6, <1>11 DEF TimelyInv

\* The source changes: what it equalled was not yet due when the last run began,
\* or the runs were idle and nothing is claimed.
LEMMA SourceChangesTimely ==
    ASSUME NEW Grid, IInv, TimelyInv(Grid), skew = 0, SourceChanges
    PROVE  TimelyInv(Grid)'
<1>1. /\ newestLag' = IF newestLag = Same THEN 0 ELSE newestLag
      /\ pinLag' = [d \in Drives |-> IF pinLag[d] = Same THEN 0 ELSE pinLag[d]]
      /\ steady' = IF WasIdle THEN {} ELSE steady
      /\ run' = [run EXCEPT !.good = @ /\ ~WasIdle]
      /\ UNCHANGED <<declared, tier, mounted, newest, listed, held, pin, emptied, sent, unrecorded,
                     since, skew>>
  BY DEF SourceChanges
<1>2. /\ newest \in 0..Never /\ since \in 0..Late /\ run.age \in 0..Cap /\ Late \in Nat
      /\ TimerMax < Late /\ Cap \in Nat /\ TimerMax \in Nat /\ Same = -1 /\ Never \in Nat
      /\ \A d \in Drives : listed[d] \in 0..Never /\ sent[d] \in 0..Never /\ copyLag[d] \in Lags
      /\ run.due \subseteq Drives /\ run.served \subseteq Drives /\ steady \subseteq Drives
  BY Numbers, Unset DEF IInv, TypeOK
<1>3. /\ run'.on = run.on /\ run'.due = run.due /\ run'.served = run.served /\ run'.age = run.age
      /\ (run'.good <=> run.good /\ ~WasIdle)
      /\ run'.clears = run.clears /\ run'.drops = run.drops
  BY <1>1 DEF IInv, TypeOK
<1>4. OnGrid(Grid)' /\ RunInOrder'
  BY <1>1, <1>3 DEF TimelyInv, OnGrid, RunInOrder
<1>5. ASSUME NEW d \in Drives PROVE (Recorded(d) => Recorded(d)') /\ (HeldPinned(d) => HeldPinned(d)')
  BY <1>1 DEF Recorded, HeldPinned
<1>6. ASSUME ~WasIdle, NEW start \in Int, LastStart <= start, LocalKept(start)
      PROVE  newest' # Never /\ (newestLag' = Same \/ ~Elapsed(newest' - start, SnapInterval))
  <2>1. newestLag = Same => ~Elapsed(newest - LastStart, SnapInterval)
    BY <1>6 DEF WasIdle
  <2>2. newest - start \in Int /\ newest - LastStart \in Int /\ newest - start <= newest - LastStart
    BY <1>2, <1>6 DEF LastStart
  <2>3. ~Elapsed(newest - start, SnapInterval)
    BY <1>6, <2>1, <2>2, YoungerNotElapsed, IntervalAssumption DEF LocalKept
  <2> QED
    BY <1>1, <1>2, <1>6, <2>3 DEF LocalKept
<1>7. ASSUME ~WasIdle, tier = "roomy", NEW start \in Int, LastStart <= start,
             NEW d \in Drives, d \in mounted, Recorded(d), CopyKept(d, start)
      PROVE  NotDue(sent[d] - start)
  <2>1. CASE SourceUnchanged(d, TRUE)
    <3>1. copyLag[d] = Same
      BY <1>2, <1>7, <2>1, Numbers DEF SourceUnchanged, IInv, Fits, PinFits, Lags
    <3>2. ~Elapsed(listed[d] - LastStart, SendInterval)
      BY <1>7, <3>1 DEF WasIdle, Effective
    <3>3. sent[d] - start <= listed[d] - LastStart /\ sent[d] - start \in Int
          /\ listed[d] - LastStart \in Int
      BY <1>2, <1>7, Unset DEF LastStart
    <3> QED
      BY <3>2, <3>3, YoungerNotDue DEF NotDue
  <2> QED
    BY <1>7, <2>1 DEF CopyKept
<1>8. ASSUME tier = "roomy" PROVE Kept' /\ WillKeep' /\ TakesNothing'
  <2>1. Kept /\ WillKeep /\ TakesNothing
    BY <1>8 DEF TimelyInv
  <2>2. TakesNothing'
    BY <1>1, <1>3, <2>1 DEF TakesNothing
  <2>3. Kept'
    <3> SUFFICES ASSUME ~WasIdle, steady # {} PROVE Kept'
      BY <1>1 DEF Kept
    <3>1. since \in Int /\ LastStart <= since /\ since <= TimerMax
      BY <1>2, <2>1 DEF LastStart, Kept, TimelyInv, RunInOrder
    <3>2. LocalKept(since)'
      BY <1>1, <1>6, <2>1, <3>1 DEF Kept, LocalKept
    <3>3. ASSUME NEW d \in steady PROVE Recorded(d)' /\ HeldPinned(d)' /\ CopyKept(d, since)'
      <4>1. /\ d \in Drives /\ d \in mounted /\ Recorded(d) /\ HeldPinned(d)
            /\ CopyKept(d, since)
        BY <1>2, <2>1, <3>3 DEF Kept
      <4>2. NotDue(sent[d] - since)
        BY <1>7, <1>8, <3>1, <4>1
      <4> QED
        BY <1>1, <1>5, <4>1, <4>2 DEF CopyKept
    <3> QED
      BY <1>1, <2>1, <3>2, <3>3 DEF Kept, LocalKept, CopyKept
  <2>4. WillKeep'
    <3> SUFFICES ASSUME ~WasIdle, run.on, run.good PROVE WillKeep'
      BY <1>3 DEF WillKeep
    <3>1. run.age \in Int /\ LastStart <= run.age
      BY <1>2 DEF LastStart
    <3>2. LocalKept(run.age)'
      BY <1>1, <1>3, <1>6, <2>1, <3>1 DEF WillKeep, LocalKept
    <3>3. ASSUME NEW d \in steady \ run.due PROVE CopyKept(d, run.age)'
      <4>1. /\ d \in Drives /\ d \in mounted /\ Recorded(d) /\ CopyKept(d, run.age)
        BY <1>2, <2>1, <3>3 DEF Kept, WillKeep
      <4>2. NotDue(sent[d] - run.age)
        BY <1>7, <1>8, <3>1, <4>1
      <4> QED
        BY <1>1, <1>3, <4>2 DEF CopyKept
    <3>4. ASSUME NEW d \in run.served PROVE Recorded(d)' /\ HeldPinned(d)' /\ sent'[d] <= run'.age
      BY <1>1, <1>2, <1>3, <1>5, <2>1, <3>4 DEF WillKeep
    <3> QED
      BY <1>1, <1>3, <3>2, <3>3, <3>4 DEF WillKeep, LocalKept, CopyKept
  <2> QED
    BY <2>2, <2>3, <2>4
<1> QED
  BY <1>1, <1>4, <1>8 DEF TimelyInv

\* A drive that goes, or is emptied, is no longer counted on; one that comes was
\* not counted on; a pool that moves starts the count again.
LEMMA DrivesTimely ==
    ASSUME NEW Grid, IInv, TimelyInv(Grid), skew = 0,
           NEW d \in Drives, Plug(d) \/ Unplug(d) \/ Emptied(d)
    PROVE  TimelyInv(Grid)'
<1>1. /\ UNCHANGED <<declared, tier, newest, newestLag, pin, pinLag, sent, unrecorded, run, since, skew>>
      /\ steady' \subseteq steady
  BY DEF Plug, Unplug, Emptied, disk
<1>2. steady \subseteq Drives /\ listed \in [Drives -> Ages]
  BY DEF IInv, TypeOK
<1>3. \A e \in Drives : HeldPinned(e) => HeldPinned(e)'
  BY <1>1, <1>2 DEF Plug, Unplug, Emptied, disk, HeldPinned
<1>4. ASSUME NEW e \in steady', steady \subseteq mounted, NEW start, CopyKept(e, start)
      PROVE  CopyKept(e, start)' /\ e \in mounted'
  <2>1. e \in Drives /\ e \in mounted /\ (Unplug(d) \/ Emptied(d) => e # d)
    BY <1>1, <1>2, <1>4 DEF Unplug, Emptied
  <2>2. e \in mounted' /\ (e \in emptied' <=> e \in emptied)
    BY <1>4, <2>1 DEF Plug, Unplug, Emptied, disk
  <2> QED
    BY <1>1, <1>4, <2>1, <2>2 DEF CopyKept, SourceUnchanged
<1>5. ASSUME tier = "roomy" PROVE Kept' /\ WillKeep' /\ TakesNothing'
  <2>1. Kept /\ WillKeep /\ TakesNothing
    BY <1>5 DEF TimelyInv
  <2>2. TakesNothing'
    BY <1>1, <2>1 DEF TakesNothing
  <2>3. Kept'
    <3>1. ASSUME NEW e \in steady'
          PROVE  e \in mounted' /\ Recorded(e)' /\ HeldPinned(e)' /\ CopyKept(e, since)
                 /\ CopyKept(e, since)'
      <4>1. /\ e \in Drives /\ steady \subseteq mounted /\ Recorded(e) /\ HeldPinned(e)
            /\ CopyKept(e, since)
        BY <1>1, <1>2, <2>1, <3>1 DEF Kept
      <4> QED
        BY <1>1, <1>3, <1>4, <4>1 DEF Recorded, CopyKept
    <3> QED
      BY <1>1, <2>1, <3>1 DEF Kept, LocalKept
  <2>4. WillKeep'
    <3>1. ASSUME run.on, run.good, NEW e \in steady' \ run.due PROVE CopyKept(e, run.age)'
      <4>1. steady \subseteq mounted /\ CopyKept(e, run.age)
        BY <1>1, <2>1, <3>1 DEF Kept, WillKeep
      <4> QED
        BY <1>1, <1>4, <3>1, <4>1 DEF CopyKept
    <3>2. ASSUME run.on, run.good, NEW e \in run.served
          PROVE  Recorded(e)' /\ HeldPinned(e)' /\ sent'[e] <= run.age
      BY <1>1, <1>3, <2>1, <3>2 DEF WillKeep, Recorded, IInv, TypeOK
    <3> QED
      BY <1>1, <2>1, <3>1, <3>2 DEF WillKeep, LocalKept, CopyKept
  <2> QED
    BY <2>2, <2>3, <2>4
<1>6. OnGrid(Grid)' /\ RunInOrder'
  BY <1>1 DEF TimelyInv, OnGrid, RunInOrder
<1> QED
  BY <1>1, <1>5, <1>6 DEF TimelyInv

LEMMA PoolMovesTimely ==
    ASSUME NEW Grid, IInv, TimelyInv(Grid), skew = 0, NEW t \in Tiers, PoolMoves(t)
    PROVE  TimelyInv(Grid)'
<1>1. /\ UNCHANGED <<newest, pin, sent, since, skew>> /\ steady' = {}
      /\ run' = [run EXCEPT !.good = FALSE]
  BY DEF PoolMoves, disk
<1>2. /\ run'.on = run.on /\ run'.age = run.age /\ run'.due = run.due /\ run'.served = run.served
      /\ run'.good = FALSE
  BY <1>1 DEF IInv, TypeOK
<1>3. OnGrid(Grid)' /\ RunInOrder'
  BY <1>1, <1>2 DEF TimelyInv, OnGrid, RunInOrder
<1> QED
  BY <1>1, <1>2, <1>3 DEF TimelyInv, Kept, WillKeep, TakesNothing

LEMMA StepTimely ==
    ASSUME NEW Grid, TimerSufficesOn(Grid), "transient" \notin Lifecycles,
           IInv, IInv', TimelyInv(Grid), [Next]_vars
    PROVE  TimelyInv(Grid)'
<1>1. CASE \E k \in SetBacks : ClockSetBack(k)
  <2>1. PICK k \in SetBacks : ClockSetBack(k)
    BY <1>1
  <2>2. skew' = skew + k /\ k > 0 /\ k \in Nat /\ skew \in Nat
    BY <2>1, IntervalAssumption DEF ClockSetBack, IInv, TypeOK
  <2>3. skew' # 0
    BY <2>2
  <2> QED
    BY <2>3 DEF TimelyInv
<1>2. CASE skew # 0 /\ ~\E k \in SetBacks : ClockSetBack(k)
  <2>1. skew' = skew
    <3>1. CASE Run
      <4>1. ASSUME NEW kind \in Kinds, NEW room \in Rooms, NEW blocked \in SUBSET Drives,
                   NEW known \in BOOLEAN, NEW created \in BOOLEAN,
                   RunBegins(kind, room, blocked, known, created)
            PROVE  skew' = skew
        BY <4>1 DEF RunBegins
      <4>2. ASSUME NEW d \in Drives, NEW pinned \in BOOLEAN, NEW recorded \in BOOLEAN,
                   SendSucceeds(d, pinned, recorded)
            PROVE  skew' = skew
        BY <4>2 DEF SendSucceeds
      <4>3. ASSUME NEW d \in Drives, NEW partial \in BOOLEAN, SendFails(d, partial)
            PROVE  skew' = skew
        BY <4>3 DEF SendFails
      <4>4. ASSUME NEW deleted \in BOOLEAN, RunEnds(deleted) PROVE skew' = skew
        BY <4>4 DEF RunEnds
      <4>5. ASSUME NEW partial \in SUBSET Drives, Killed(partial) PROVE skew' = skew
        BY <4>5 DEF Killed
      <4>6. ASSUME ShutDown PROVE skew' = skew
        BY <4>6 DEF ShutDown
      <4> QED
        BY <3>1, <4>1, <4>2, <4>3, <4>4, <4>5, <4>6 DEF Run
    <3>2. CASE World
      <4>1. ASSUME NEW k \in Waits, Wait(k) PROVE skew' = skew
        BY <4>1 DEF Wait
      <4>2. ASSUME SourceChanges PROVE skew' = skew
        BY <4>2 DEF SourceChanges
      <4>3. ASSUME NEW d \in Drives, Plug(d) \/ Unplug(d) \/ Emptied(d) PROVE skew' = skew
        BY <4>3 DEF Plug, Unplug, Emptied
      <4>4. ASSUME NEW t \in Tiers, PoolMoves(t) PROVE skew' = skew
        BY <4>4 DEF PoolMoves
      <4> QED
        BY <1>2, <3>2, <4>1, <4>2, <4>3, <4>4 DEF World
    <3>3. CASE UNCHANGED vars
      BY <3>3 DEF vars
    <3> QED
      BY <3>1, <3>2, <3>3 DEF Next
  <2> QED
    BY <1>2, <2>1 DEF TimelyInv
<1>3. CASE skew = 0 /\ Run
  BY <1>3, RunBeginsTimely, SendSucceedsTimely, SendFailsTimely, ShutDownTimely,
     RunEndsTimely, KilledTimely DEF Run
<1>4. CASE skew = 0 /\ World /\ ~\E k \in SetBacks : ClockSetBack(k)
  BY <1>4, WaitTimely, SourceChangesTimely, DrivesTimely, PoolMovesTimely DEF World
<1>5. CASE UNCHANGED vars
  BY <1>5 DEF vars, disk, TimelyInv, OnGrid, RunInOrder, Kept, WillKeep, TakesNothing, LocalKept,
              Recorded, HeldPinned, CopyKept, SourceUnchanged
<1> QED
  BY <1>1, <1>2, <1>3, <1>4, <1>5 DEF Next, World

LEMMA InitTimely ==
    ASSUME NEW Grid, TimerSufficesOn(Grid), Init
    PROVE  TimelyInv(Grid)
BY DEF Init, Idle, TimelyInv, OnGrid, RunInOrder, Kept, WillKeep, TakesNothing, TimerSufficesOn

------------------------------------------------------------------------------
(* The theorem. *)

\* What the last good run kept is PROTECTED until the next one is over.
LEMMA KeptIsProtected ==
    ASSUME NEW Grid, TimerSufficesOn(Grid), "transient" \notin Lifecycles, IInv, TimelyInv(Grid)
    PROVE  TimelyRunsKeepProtected
<1> SUFFICES ASSUME steady # {}, tier = "roomy", skew = 0 PROVE Assessed(TRUE) = Protected
  BY DEF TimelyRunsKeepProtected
<1> USE DEF Protected, AtRisk, Unprotected
<1>1. /\ Kept /\ OnGrid(Grid) /\ Effective = SendInterval /\ declared # "transient"
      /\ newest \in 0..Never /\ since \in 0..Late /\ Never \in Nat /\ Late \in Nat
      /\ SnapInterval \in Nat /\ SendInterval \in Nat /\ TimerMax \in Nat /\ TimerMax < Late
  BY Numbers, Unset, IntervalAssumption DEF TimelyInv, Effective, IInv, TypeOK
<1>2. since \in Grid /\ since <= TimerMax /\ Grid \subseteq Int
  BY <1>1 DEF Kept, OnGrid, TimerSufficesOn
<1>3. ASSUME NEW age \in Grid, age >= 0
      PROVE  /\ ~Elapsed(age - since, SnapInterval) =>
                  age <= 2 * SnapInterval /\ 2 * age <= 3 * SendInterval
             /\ ~Elapsed(age - since, SendInterval) => 2 * age <= 3 * SendInterval
  <2>1. age - since \in Grid /\ age - since \in Int /\ age \in Int
    BY <1>2, <1>3 DEF TimerSufficesOn
  <2>2. /\ ~Elapsed(age - since, SnapInterval) =>
             /\ age - since + TimerMax <= 2 * SnapInterval
             /\ 2 * (age - since + TimerMax) <= 3 * SendInterval
        /\ ~Elapsed(age - since, SendInterval) => 2 * (age - since + TimerMax) <= 3 * SendInterval
    BY <2>1 DEF TimerSufficesOn
  <2>3. age <= age - since + TimerMax /\ age - since + TimerMax \in Int
    BY <1>1, <1>2, <2>1
  <2>4. \A b \in Int : age <= b /\ 2 * b <= 3 * SendInterval => 2 * age <= 3 * SendInterval
    BY <1>1, <2>1
  <2>5. \A b \in Int : age <= b /\ b <= 2 * SnapInterval => age <= 2 * SnapInterval
    BY <1>1, <2>1
  <2> QED
    BY <2>2, <2>3, <2>4, <2>5
<1>4. LocalStatus(TRUE) = 2
  <2>1. newest # Never /\ newest \in Grid
    BY <1>1 DEF Kept, LocalKept, OnGrid
  <2>2. newestLag = Same \/ newest <= 2 * SnapInterval
    BY <1>1, <1>3, <2>1 DEF Kept, LocalKept
  <2>3. newest <= 2 * SnapInterval => 2 * Most(newest, 0) <= SnapInterval * 4
    BY <1>1, SMT DEF Most
  <2> QED
    BY <1>1, <2>1, <2>2, <2>3 DEF LocalStatus, Freshness
<1>5. ASSUME NEW d \in steady PROVE CopyStatus(d, TRUE) = 2
  <2>1. d \in Drives /\ d \in mounted /\ Recorded(d) /\ CopyKept(d, since)
    BY <1>1, <1>5 DEF Kept, IInv, TypeOK
  <2>2. ~Relaxed(d) /\ sent[d] # Never /\ sent[d] \in Grid /\ sent[d] \in 0..Never
    BY <1>1, <2>1, Unset DEF Relaxed, Recorded, OnGrid
  <2>3. SourceUnchanged(d, TRUE) \/ 2 * sent[d] <= 3 * SendInterval
    <3>1. sent[d] >= 0
      BY <1>1, <2>2
    <3>2. NotDue(sent[d] - since) => 2 * sent[d] <= 3 * SendInterval
      BY <1>3, <2>2, <3>1 DEF NotDue
    <3> QED
      BY <2>1, <3>2 DEF CopyKept
  <2>4. 2 * sent[d] <= 3 * SendInterval => 2 * Most(sent[d], 0) <= SendInterval * 3
    BY <1>1, <2>2, SMT DEF Most
  <2> QED
    BY <1>1, <2>2, <2>3, <2>4 DEF CopyStatus, Freshness
<1>6. BestOf(Drives, TRUE) = 2
  <2>1. \E d \in Drives : CopyStatus(d, TRUE) = Protected
    BY <1>5 DEF IInv, TypeOK
  <2> QED
    BY <2>1 DEF BestOf
<1> QED
  BY <1>4, <1>6 DEF Assessed, Least

\* A timer that suffices keeps a roomy subvolume of graduated retention PROTECTED
\* (awareness assess), between its good runs and during them, whatever other runs
\* fail or are killed and whatever drives come, go or are emptied, as long as one
\* drive is served by each and the clock is not set back.
THEOREM TimelyRunsSuffice ==
    ASSUME TimerSuffices, "transient" \notin Lifecycles
    PROVE  Spec => []TimelyRunsKeepProtected
<1>1. PICK Grid \in SUBSET Int : TimerSufficesOn(Grid)
  BY DEF TimerSuffices
<1>2. Init => TimelyInv(Grid)
  BY <1>1, InitTimely
<1>3. IInv /\ IInv' /\ TimelyInv(Grid) /\ [Next]_vars => TimelyInv(Grid)'
  BY <1>1, StepTimely
<1>4. IInv /\ TimelyInv(Grid) => TimelyRunsKeepProtected
  BY <1>1, KeptIsProtected
<1> QED
  BY <1>2, <1>3, <1>4, Invariance, PTL DEF Spec

------------------------------------------------------------------------------
(* The hypothesis is met: by a timer well within the intervals on any clock,   *)
(* and by a daily one, a little early, on a clock that steps by its period.    *)

LEMMA PromptTimer ==
    ASSUME TimerMax <= SnapInterval, 2 * TimerMax <= SendInterval, SnapInterval <= SendInterval
    PROVE  TimerSuffices
<1>1. /\ SnapInterval \in Nat \ {0} /\ SendInterval \in Nat \ {0} /\ TimerMax \in Nat
      /\ Cap \in Int /\ Waits \subseteq Int /\ Gaps \subseteq Int
  BY IntervalAssumption
<1>2. ASSUME NEW interval \in Nat \ {0}, NEW a \in Int, ~Elapsed(a, interval)
      PROVE  a < interval
  <2>1. interval \div 20 \in Nat
    BY SMT
  <2> QED
    BY <1>2, <2>1, IntervalAssumption, SMT DEF Elapsed, Grace, Least
<1>3. ASSUME NEW a \in Int, ~Elapsed(a, SnapInterval)
      PROVE  a + TimerMax <= 2 * SnapInterval /\ 2 * (a + TimerMax) <= 3 * SendInterval
  <2>1. a < SnapInterval
    BY <1>1, <1>2, <1>3
  <2> QED
    BY <1>1, <2>1, SMT
<1>4. ASSUME NEW a \in Int, ~Elapsed(a, SendInterval)
      PROVE  2 * (a + TimerMax) <= 3 * SendInterval
  <2>1. a < SendInterval
    BY <1>1, <1>2, <1>4
  <2> QED
    BY <1>1, <2>1, SMT
<1>5. TimerSufficesOn(Int)
  BY <1>1, <1>3, <1>4 DEF TimerSufficesOn
<1> QED
  BY <1>5 DEF TimerSuffices

\* The constants of the checked instance.
LEMMA DailyTimer ==
    ASSUME SnapInterval = 20, SendInterval = 40, GraceCap = 2, TimerMax = 38,
           Waits = {19}, Gaps = {19}, Cap = 133
    PROVE  TimerSuffices
<1> DEFINE Days == {19 * k : k \in Int}
<1>1. Grace(20) = 1 /\ Grace(40) = 2
  BY SMT DEF Grace, Least
<1>2. Days \subseteq Int /\ 0 \in Days /\ Cap \in Days /\ Waits \subseteq Days /\ Gaps \subseteq Days
  <2>1. 0 = 19 * 0 /\ 133 = 19 * 7 /\ 19 = 19 * 1
    BY SMT
  <2> QED
    BY <2>1
<1>3. ASSUME NEW a \in Days, NEW b \in Days PROVE a + b \in Days /\ a - b \in Days
  <2>1. PICK k \in Int, l \in Int : a = 19 * k /\ b = 19 * l
    OBVIOUS
  <2>2. a + b = 19 * (k + l) /\ a - b = 19 * (k - l) /\ k + l \in Int /\ k - l \in Int
    BY <2>1, SMT
  <2> QED
    BY <2>2
<1>4. ASSUME NEW a \in Days
      PROVE  /\ ~Elapsed(a, SnapInterval) => a <= 0
             /\ ~Elapsed(a, SendInterval) => a <= 19
  <2>1. PICK k \in Int : a = 19 * k
    OBVIOUS
  <2>2. ~Elapsed(a, SnapInterval) <=> 19 * k < 19
    BY <1>1, <2>1, SMT DEF Elapsed
  <2>3. ~Elapsed(a, SendInterval) <=> 19 * k < 38
    BY <1>1, <2>1, SMT DEF Elapsed
  <2> QED
    BY <2>1, <2>2, <2>3, SMT
<1>5. \A a \in Days :
        /\ ~Elapsed(a, SnapInterval) =>
             a + TimerMax <= 2 * SnapInterval /\ 2 * (a + TimerMax) <= 3 * SendInterval
        /\ ~Elapsed(a, SendInterval) => 2 * (a + TimerMax) <= 3 * SendInterval
  BY <1>2, <1>4, SMT
<1> HIDE DEF Days
<1>6. TimerSufficesOn(Days)
  BY <1>2, <1>3, <1>5 DEF TimerSufficesOn
<1> QED
  BY <1>2, <1>6 DEF TimerSuffices

=============================================================================
