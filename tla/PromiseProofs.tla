---------------------------- MODULE PromiseProofs ----------------------------
(***************************************************************************)
(* What a PROTECTED subvolume promises holds for any drives, intervals,    *)
(* steps of the clock and number of mishaps.  The argument compares clocks *)
(* with real time: a lag is at most the age read off the clock plus what   *)
(* the clock was set back by, and a run sends a snapshot no older at its   *)
(* start than the snapshot interval, unless it is marked `aged`.           *)
(***************************************************************************)
EXTENDS Promise, TLAPS

\* No date lies further ahead than the clock was set back, and none a run sees
\* is later than its start by more.
Floors ==
    /\ newest >= -skew
    /\ run.age >= -skew /\ run.age <= Cap
    /\ \A d \in Drives : listed[d] >= -skew /\ pin[d] >= -skew /\ sent[d] >= -skew
    /\ run.on => newest >= run.age - skew
    /\ run.on => \A d \in Drives : listed[d] >= run.age - skew

\* A lag is at most the age; a drive holds what its pin names, or better.
LocalFits == newest # Never => newestLag <= newest + skew

PinFits ==
    \A d \in Drives :
        /\ pin[d] = Never <=> pinLag[d] = Never
        /\ pin[d] # Never => pinLag[d] <= pin[d] + skew
        /\ pin[d] # Never /\ d \notin emptied => copyLag[d] <= pinLag[d]

\* What a run is about to send was not overdue when it started.
RunFits ==
    /\ ~run.on => run.due = {}
    /\ run.due # {} /\ ~run.aged => newestLag <= run.age + SnapInterval + skew

\* The record of a send bounds the lag of the copy, and a drive that lists a
\* snapshot lists none older than the record.
SentFits ==
    /\ emptied \subseteq excused
    /\ \A d \in Drives \ excused :
         sent[d] # Never =>
             copyLag[d] # Never /\ copyLag[d] <= sent[d] + SnapInterval + skew

RecordFits ==
    \A d \in Drives \ unrecorded :
        /\ sent[d] = Never => listed[d] = Never
        /\ listed[d] >= sent[d] - skew

Fits == Floors /\ LocalFits /\ PinFits /\ RunFits /\ SentFits /\ RecordFits

IInv == TypeOK /\ Fits

------------------------------------------------------------------------------
(* Numbers. *)

LEMMA Numbers ==
    /\ Cap \in Nat /\ Never = Cap + 1 /\ Same = -1 /\ Late \in Nat /\ TimerMax < Late
    /\ SnapInterval \in Nat /\ SnapInterval > 0
    /\ MaxSkew \in Nat /\ MaxMishaps \in Nat /\ TimerMax \in Nat
    /\ Waits \subseteq Nat /\ Gaps \subseteq Nat /\ SetBacks \subseteq Nat
BY IntervalAssumption, SMT DEF Never, Same, Late

LEMMA Graces ==
    ASSUME NEW interval \in Nat
    PROVE  Grace(interval) \in Nat /\ Grace(interval) <= interval
<1>1. interval \div 20 \in Nat /\ interval \div 20 <= interval
  BY SMT
<1> QED
  BY <1>1, IntervalAssumption, SMT DEF Grace, Least

LEMMA Effectives ==
    ASSUME TypeOK
    PROVE  Effective \in Nat /\ Effective > 0
<1>1. tier = "roomy" \/ tier = "tight" \/ tier = "critical"
  BY RoleAssumption DEF TypeOK
<1>2. (3 * SendInterval) \div 2 \in Nat /\ (3 * SendInterval) \div 2 > 0
  BY IntervalAssumption, SMT
<1>3. Most(SendInterval, WeeklyFloor) \in Nat /\ Most(SendInterval, WeeklyFloor) > 0
  BY IntervalAssumption, SMT DEF Most
<1> QED
  BY <1>1, <1>2, <1>3, IntervalAssumption DEF Effective

------------------------------------------------------------------------------
(* The initial states. *)

LEMMA InitFits == Init => IInv
<1> SUFFICES ASSUME Init PROVE IInv
  OBVIOUS
<1> USE Numbers DEF Init
<1>1. TypeOK
  BY SMT DEF TypeOK, Ages, Lags, Idle
<1>2. Floors
  BY SMT DEF Floors, Idle
<1>3. LocalFits /\ RunFits /\ SentFits
  BY SMT DEF LocalFits, RunFits, SentFits, Idle
<1>4. PinFits /\ RecordFits
  BY SMT DEF PinFits, RecordFits
<1> QED
  BY <1>1, <1>2, <1>3, <1>4 DEF IInv, Fits

------------------------------------------------------------------------------
(* The steps of a run. *)

\* Pins that are taken back leave the others as they are.
LEMMA Unpinned ==
    ASSUME TypeOK, PinFits, NEW ds \in SUBSET Drives, Unpin(ds), UNCHANGED <<copyLag, skew>>
    PROVE  /\ pin' \in [Drives -> Ages] /\ pinLag' \in [Drives -> Lags]
           /\ emptied' \subseteq emptied
           /\ \A d \in Drives : pin'[d] = pin[d] \/ pin'[d] = Never
           /\ PinFits'
<1> USE Numbers DEF Unpin
<1>1. Never \in Ages /\ Never \in Lags
  BY SMT DEF Ages, Lags
<1>2. pin' \in [Drives -> Ages] /\ pinLag' \in [Drives -> Lags]
  BY <1>1 DEF TypeOK
<1>3. emptied' \subseteq emptied
  OBVIOUS
<1>4. \A d \in Drives : pin'[d] = pin[d] \/ pin'[d] = Never
  OBVIOUS
<1>5. PinFits'
  BY DEF PinFits
<1> QED
  BY <1>2, <1>3, <1>4, <1>5

LEMMA RunBeginsStep ==
    ASSUME IInv,
           NEW kind \in Kinds, NEW room \in Rooms, NEW blocked \in SUBSET Drives,
           NEW known \in BOOLEAN, NEW created \in BOOLEAN,
           RunBegins(kind, room, blocked, known, created)
    PROVE  IInv'
<1> USE Numbers DEF IInv, Fits
<1>1. \/ newest' = 0 /\ newestLag' = Same /\ held' = {}
      \/ UNCHANGED <<newest, newestLag, held>>
  BY DEF RunBegins
<1>2. /\ UNCHANGED <<declared, tier, mounted, listed, copyLag, excused, sent,
                     unrecorded, since, skew>>
      /\ steady' \subseteq steady
      /\ mishaps' \in 0..MaxMishaps
  <2>1. UNCHANGED <<declared, tier, mounted, listed, copyLag, excused, sent,
                    unrecorded, since, skew>> /\ steady' \subseteq steady
    BY DEF RunBegins
  <2>2. \E n \in Nat : Mishap(n)
    BY SMT DEF RunBegins, Count
  <2>3. mishaps' \in 0..MaxMishaps
    BY <2>2, SMT DEF Mishap, TypeOK
  <2> QED
    BY <2>1, <2>3
<1>3. \E ds \in SUBSET Drives : Unpin(ds)
  <2>1. CASE tier = "critical"
    BY <2>1 DEF RunBegins
  <2>2. CASE tier # "critical"
    <3>1. UNCHANGED <<pin, pinLag, emptied>>
      BY <2>2 DEF RunBegins
    <3>2. Unpin({})
      BY <3>1 DEF Unpin, TypeOK
    <3> QED
      BY <3>2
  <2> QED
    BY <2>1, <2>2
<1>4. /\ pin' \in [Drives -> Ages] /\ pinLag' \in [Drives -> Lags]
      /\ emptied' \subseteq emptied
      /\ \A d \in Drives : pin'[d] = pin[d] \/ pin'[d] = Never
      /\ PinFits'
  BY <1>2, <1>3, Unpinned
<1>5. \E due \in SUBSET Drives, good, clears, aged, drops \in BOOLEAN :
        /\ run' = [on |-> TRUE, age |-> 0, due |-> due, served |-> {}, good |-> good,
                   whole |-> TRUE, clears |-> clears, aged |-> aged, drops |-> drops]
        /\ due # {} /\ ~aged =>
             \/ newestLag' = Same
             \/ newest' = newest /\ newestLag' = newestLag /\ newest < SnapInterval
        /\ newest' = Never => due = {}
  <2> DEFINE targets == mounted \ blocked
             sends == room = "enough" /\ (kind # "local" \/ TransientHere)
             wanted == {d \in targets : sends /\ SendDue(d, kind = "manual")}
             makes == /\ kind # "external" /\ room # "full"
                      /\ SnapshotDue(kind = "manual", known)
                      /\ TransientHere => wanted # {}
             leads == makes /\ newest >= 0
             made == leads /\ created
             due == Due(wanted, leads, created)
             good == kind \in {"auto", "manual"} /\ room = "enough" /\ created
             clears == tier = "critical" /\ ~\E d \in Drives : AwayPin(d)
             aged == ~makes /\ newestLag # Same /\ Elapsed(newest, SnapInterval)
             drops == TransientHere /\ ~made /\ newest # Never /\ Unsent
  <2>1. /\ run' = [on |-> TRUE, age |-> 0, due |-> due, served |-> {}, good |-> good,
                   whole |-> TRUE, clears |-> clears, aged |-> aged, drops |-> drops]
        /\ IF made THEN newest' = 0 /\ newestLag' = Same /\ held' = {}
                   ELSE UNCHANGED <<newest, newestLag, held>>
        /\ created \/ makes
    BY DEF RunBegins
  <2>2. due \in SUBSET Drives
    BY DEF TypeOK, Due
  <2>3. good \in BOOLEAN /\ clears \in BOOLEAN /\ aged \in BOOLEAN /\ drops \in BOOLEAN
    OBVIOUS
  <2> HIDE DEF wanted, makes, good, clears, drops
  <2>4. newest' = Never => due = {}
    BY <2>1, <2>2, SMT DEF Due
  <2>5. ASSUME due # {}, ~aged
        PROVE  \/ newestLag' = Same
               \/ newest' = newest /\ newestLag' = newestLag /\ newest < SnapInterval
    <3>1. CASE made
      BY <3>1, <2>1
    <3>2. CASE ~made /\ newestLag = Same
      BY <3>2, <2>1
    <3>3. CASE ~made /\ makes
      <4>1. newest < 0
        BY <3>3, <2>5, SMT DEF Due, TypeOK, Ages
      <4> QED
        BY <4>1, <3>3, <2>1, SMT DEF TypeOK, Ages
    <3>4. CASE ~made /\ ~makes /\ newestLag # Same
      <4>1. ~Elapsed(newest, SnapInterval)
        BY <3>4, <2>5
      <4>2. newest < SnapInterval
        BY <4>1, Graces, SMT DEF Elapsed, TypeOK, Ages
      <4> QED
        BY <4>2, <3>4, <2>1
    <3> QED
      BY <3>1, <3>2, <3>3, <3>4
  <2> HIDE DEF due, aged
  <2> QED
    BY <2>1, <2>2, <2>3, <2>4, <2>5
<1>6. TypeOK'
  <2>1. run' \in [on : BOOLEAN, age : Ages, due : SUBSET Drives, served : SUBSET Drives,
                  good : BOOLEAN, whole : BOOLEAN, clears : BOOLEAN, aged : BOOLEAN,
                  drops : BOOLEAN]
        /\ (newest' = Never => run'.due = {})
    <3>1. 0 \in Ages
      BY SMT DEF Ages
    <3> QED
      BY <1>5, <3>1
  <2>2. newest' \in Ages /\ newestLag' \in Lags /\ held' \subseteq Drives
        /\ (newest' = Never <=> newestLag' = Never) /\ (newest' = Never => held' = {})
    BY <1>1, SMT DEF TypeOK, Ages, Lags
  <2>3. emptied' \subseteq Drives /\ steady' \subseteq Drives
    BY <1>2, <1>4 DEF TypeOK
  <2> QED
    BY <2>1, <2>2, <2>3, <1>2, <1>4 DEF TypeOK
<1>7. Floors'
  <2>1. run'.on /\ run'.age = 0 /\ skew' = skew /\ skew \in Nat
    BY <1>2, <1>5 DEF TypeOK
  <2>2. newest' >= -skew
    BY <1>1, <2>1, SMT DEF Floors
  <2>3. \A d \in Drives : listed'[d] >= -skew /\ pin'[d] >= -skew /\ sent'[d] >= -skew
    BY <1>2, <1>4, <2>1, SMT DEF Floors
  <2> QED
    BY <2>1, <2>2, <2>3, SMT DEF Floors
<1>8. LocalFits'
  BY <1>1, <1>2, SMT DEF LocalFits, TypeOK
<1>9. RunFits'
  <2>1. run'.on /\ run'.age = 0 /\ skew' = skew /\ skew \in Nat
    BY <1>2, <1>5 DEF TypeOK
  <2>2. run'.due # {} /\ ~run'.aged =>
             \/ newestLag' = Same
             \/ newest' = newest /\ newestLag' = newestLag /\ newest < SnapInterval
    BY <1>5
  <2>3. run'.due # {} => newest' # Never
    BY <1>5
  <2> QED
    BY <2>1, <2>2, <2>3, SMT DEF RunFits, LocalFits, TypeOK, Ages, Lags
<1>10. SentFits' /\ RecordFits'
  BY <1>2, <1>4 DEF SentFits, RecordFits
<1> QED
  BY <1>4, <1>6, <1>7, <1>8, <1>9, <1>10

\* A cost is a number, so the mishaps stay within their bound.
LEMMA MishapCounts ==
    ASSUME TypeOK, NEW n \in Nat, Mishap(n)
    PROVE  mishaps' \in 0..MaxMishaps
BY Numbers, SMT DEF Mishap, TypeOK

\* What the run is about to send exists, and neither date nor lag is `Never`.
LEMMA DueExists ==
    ASSUME IInv, NEW d \in run.due
    PROVE  /\ run.on /\ d \in Drives
           /\ newest \in Ages /\ newest <= Cap /\ newest >= -skew
           /\ newest >= run.age - skew
           /\ newestLag \in Lags /\ newestLag <= Cap /\ newestLag <= newest + skew
           /\ ~run.aged => newestLag <= run.age + SnapInterval + skew
           /\ skew \in 0..MaxSkew /\ run.age \in Ages /\ run.age <= Cap /\ run.age >= -skew
BY Numbers, SMT DEF IInv, Fits, TypeOK, Floors, LocalFits, RunFits, Ages, Lags

LEMMA SendSucceedsStep ==
    ASSUME IInv, NEW d \in Drives, NEW pinned \in BOOLEAN, NEW recorded \in BOOLEAN,
           SendSucceeds(d, pinned, recorded)
    PROVE  IInv'
<1> USE Numbers DEF IInv, Fits
<1>1. d \in run.due
  BY DEF SendSucceeds
<1>2. /\ run.on
      /\ newest \in Ages /\ newest <= Cap /\ newest >= -skew
      /\ newest >= run.age - skew
      /\ newestLag \in Lags /\ newestLag <= Cap /\ newestLag <= newest + skew
      /\ ~run.aged => newestLag <= run.age + SnapInterval + skew
      /\ skew \in 0..MaxSkew /\ run.age \in Ages /\ run.age <= Cap /\ run.age >= -skew
  BY <1>1, DueExists
<1>3. /\ UNCHANGED <<declared, tier, mounted, newest, newestLag, since, skew>>
      /\ listed' = [listed EXCEPT ![d] = Least(@, newest)]
      /\ copyLag' = [copyLag EXCEPT ![d] = Least(@, newestLag)]
      /\ held' = held \union {d}
      /\ steady' \subseteq steady
  BY DEF SendSucceeds
<1>4. \/ /\ pin' = [pin EXCEPT ![d] = newest]
         /\ pinLag' = [pinLag EXCEPT ![d] = newestLag]
         /\ emptied' = emptied \ {d}
      \/ UNCHANGED <<pin, pinLag, emptied>>
  BY DEF SendSucceeds
<1>5. \/ /\ sent' = [sent EXCEPT ![d] = Least(@, run.age)]
         /\ excused' = IF run.aged \/ d \in emptied' THEN excused \union {d}
                       ELSE IF sent'[d] = run.age THEN excused \ {d}
                       ELSE excused
         /\ unrecorded' = unrecorded \ {d}
      \/ /\ unrecorded' = unrecorded \union {d}
         /\ UNCHANGED <<sent, excused>>
  BY DEF SendSucceeds
<1>6. /\ run' = [run EXCEPT !.due = @ \ {d}, !.served = @ \union {d},
                            !.good = @ /\ pinned /\ recorded, !.whole = @ /\ pinned]
      /\ run'.on = run.on /\ run'.age = run.age /\ run'.due = run.due \ {d}
      /\ run'.aged = run.aged
  <2>1. run' = [run EXCEPT !.due = @ \ {d}, !.served = @ \union {d},
                            !.good = @ /\ pinned /\ recorded, !.whole = @ /\ pinned]
    BY DEF SendSucceeds
  <2> QED
    BY <2>1 DEF TypeOK
<1>7. TypeOK'
  <2>1. run' \in [on : BOOLEAN, age : Ages, due : SUBSET Drives, served : SUBSET Drives,
                  good : BOOLEAN, whole : BOOLEAN, clears : BOOLEAN, aged : BOOLEAN,
                  drops : BOOLEAN]
    BY <1>6 DEF TypeOK
  <2>2. listed' \in [Drives -> Ages] /\ copyLag' \in [Drives -> Lags]
    BY <1>2, <1>3 DEF Least, TypeOK
  <2>3. pin' \in [Drives -> Ages] /\ pinLag' \in [Drives -> Lags] /\ sent' \in [Drives -> Ages]
    BY <1>2, <1>4, <1>5 DEF Least, TypeOK
  <2>4. /\ emptied' \subseteq Drives /\ excused' \subseteq Drives /\ unrecorded' \subseteq Drives
        /\ held' \subseteq Drives /\ steady' \subseteq Drives
    BY <1>3, <1>4, <1>5 DEF TypeOK
  <2>5. mishaps' \in 0..MaxMishaps
    <3>1. \E n \in Nat : Mishap(n)
      BY SMT DEF SendSucceeds
    <3> QED
      BY <3>1, MishapCounts
  <2>6. newest' # Never
    BY <1>2, <1>3, SMT DEF Ages
  <2>7. newest' \in Ages /\ newestLag' \in Lags /\ newestLag' # Never
    BY <1>2, <1>3, SMT DEF Lags
  <2> QED
    BY <1>3, <2>1, <2>2, <2>3, <2>4, <2>5, <2>6, <2>7 DEF TypeOK
<1>8. Floors'
  <2>1. \A e \in Drives : listed'[e] = listed[e] \/ listed'[e] = newest
    BY <1>3 DEF Least, TypeOK
  <2>2. \A e \in Drives : pin'[e] = pin[e] \/ pin'[e] = newest
    BY <1>4 DEF TypeOK
  <2>3. \A e \in Drives : sent'[e] = sent[e] \/ sent'[e] = run.age
    BY <1>5 DEF Least, TypeOK
  <2> QED
    BY <1>2, <1>3, <1>6, <2>1, <2>2, <2>3 DEF Floors
<1>9. LocalFits'
  BY <1>3 DEF LocalFits
<1>10. copyLag'[d] <= copyLag[d] /\ copyLag'[d] <= newestLag /\ copyLag'[d] # Never
       /\ \A e \in Drives \ {d} : copyLag'[e] = copyLag[e]
  <2>1. copyLag[d] \in Lags /\ copyLag'[d] = Least(copyLag[d], newestLag)
    BY <1>3 DEF TypeOK
  <2>2. \A e \in Drives \ {d} : copyLag'[e] = copyLag[e]
    BY <1>3 DEF TypeOK
  <2> QED
    BY <1>2, <2>1, <2>2, SMT DEF Least, Lags
<1>11. PinFits'
  <2> SUFFICES ASSUME NEW e \in Drives
               PROVE  /\ pin'[e] = Never <=> pinLag'[e] = Never
                      /\ pin'[e] # Never => pinLag'[e] <= pin'[e] + skew'
                      /\ pin'[e] # Never /\ e \notin emptied' => copyLag'[e] <= pinLag'[e]
    BY DEF PinFits
  <2>1. CASE e # d
    <3>1. pin'[e] = pin[e] /\ pinLag'[e] = pinLag[e] /\ (e \in emptied' <=> e \in emptied)
      BY <1>4, <2>1 DEF TypeOK
    <3> QED
      BY <3>1, <2>1, <1>3, <1>10 DEF PinFits
  <2>2. CASE e = d /\ pin'[d] = newest /\ pinLag'[d] = newestLag
    BY <2>2, <1>2, <1>3, <1>10, SMT DEF Ages, Lags
  <2>3. CASE e = d /\ UNCHANGED <<pin, pinLag, emptied>>
    BY <2>3, <1>2, <1>3, <1>7, <1>10, SMT DEF PinFits, TypeOK, Lags
  <2> QED
    BY <1>4, <2>1, <2>2, <2>3 DEF TypeOK
<1>12. RunFits'
  BY <1>2, <1>3, <1>6 DEF RunFits
<1>13. SentFits'
  <2>1. emptied' \subseteq excused'
    BY <1>4, <1>5 DEF SentFits
  <2>2. ASSUME NEW e \in Drives \ excused', sent'[e] # Never
        PROVE  copyLag'[e] # Never /\ copyLag'[e] <= sent'[e] + SnapInterval + skew'
    <3>1. CASE e # d
      <4>1. e \notin excused /\ sent'[e] = sent[e]
        BY <1>5, <2>2, <3>1 DEF TypeOK
      <4> QED
        BY <4>1, <3>1, <2>2, <1>3, <1>10 DEF SentFits
    <3>2. CASE e = d /\ sent'[d] = sent[d] /\ (e \in excused' <=> e \in excused)
      <4>1. copyLag[d] <= sent[d] + SnapInterval + skew
        BY <3>2, <2>2 DEF SentFits
      <4> QED
        BY <4>1, <3>2, <1>2, <1>3, <1>7, <1>10, SMT DEF TypeOK, Ages, Lags
    <3>3. CASE e = d /\ ~run.aged /\ sent'[d] = run.age
      BY <3>3, <1>2, <1>3, <1>7, <1>10, SMT DEF TypeOK, Ages, Lags
    <3>4. sent'[d] = sent[d] \/ sent'[d] = run.age
      BY <1>5 DEF Least, TypeOK
    <3> QED
      BY <1>5, <2>2, <3>1, <3>2, <3>3, <3>4 DEF TypeOK
  <2> QED
    BY <2>1, <2>2 DEF SentFits
<1>14. RecordFits'
  <2> SUFFICES ASSUME NEW e \in Drives \ unrecorded'
               PROVE  /\ sent'[e] = Never => listed'[e] = Never
                      /\ listed'[e] >= sent'[e] - skew'
    BY DEF RecordFits
  <2>1. CASE e # d
    <3>1. e \notin unrecorded /\ sent'[e] = sent[e] /\ listed'[e] = listed[e]
      BY <1>3, <1>5, <2>1 DEF TypeOK
    <3> QED
      BY <3>1, <1>3 DEF RecordFits
  <2>2. CASE e = d
    <3>1. sent'[d] <= run.age /\ sent'[d] \in Ages
      <4>1. sent'[d] = Least(sent[d], run.age) /\ sent[d] \in Ages
        BY <1>5, <2>2 DEF TypeOK
      <4> QED
        BY <4>1, <1>2, SMT DEF Least, Ages
    <3>2. listed'[d] >= run.age - skew /\ listed'[d] \in Ages
      BY <1>6, <1>7, <1>8, <1>2, <1>3 DEF Floors, TypeOK
    <3> QED
      BY <2>2, <3>1, <3>2, <1>2, <1>3, SMT DEF Ages
  <2> QED
    BY <2>1, <2>2
<1> QED
  BY <1>7, <1>8, <1>9, <1>11, <1>12, <1>13, <1>14

\* A send that fails, or that dies with its run, at most lists a partial copy.
LEMMA PartialsFit ==
    ASSUME IInv, NEW partial \in SUBSET Drives, partial \subseteq run.due,
           listed' = [d \in Drives |-> IF d \in partial THEN Least(listed[d], newest)
                                     ELSE listed[d]],
           held' = held \union partial, unrecorded' = unrecorded \union partial,
           steady' \subseteq steady,
           UNCHANGED <<newest, newestLag, pin, pinLag, copyLag, emptied, excused, sent,
                       skew>>,
           run'.on => run.on, run'.age = run.age \/ run'.age = 0,
           run'.on => run'.age = run.age,
           run'.due \subseteq run.due, run'.on \/ run'.due = {}, run'.aged = run.aged \/ run'.due = {}
    PROVE  /\ listed' \in [Drives -> Ages] /\ held' \subseteq Drives
           /\ unrecorded' \subseteq Drives /\ steady' \subseteq Drives
           /\ newest' = Never => newestLag' = Never /\ held' = {} /\ run'.due = {}
           /\ Fits'
<1> USE Numbers DEF IInv, Fits
<1>1. \A d \in partial : /\ newest \in Ages /\ newest <= Cap /\ newest >= -skew
                          /\ newest >= run.age - skew
  BY DueExists
<1>2. /\ listed' \in [Drives -> Ages] /\ held' \subseteq Drives
      /\ unrecorded' \subseteq Drives /\ steady' \subseteq Drives
  BY <1>1 DEF TypeOK, Least
<1>3. newest' = Never => newestLag' = Never /\ held' = {} /\ run'.due = {}
  BY DEF TypeOK
<1>4. \A d \in Drives :
         /\ d \in partial => listed'[d] = listed[d] \/ listed'[d] = newest
         /\ d \notin partial => listed'[d] = listed[d]
  BY DEF Least
<1>5. Floors'
  <2>1. run.age \in Ages /\ skew \in 0..MaxSkew
    BY DEF TypeOK
  <2>2. run'.age >= -skew /\ run'.age <= Cap
    BY <2>1, SMT DEF Floors, Ages
  <2> QED
    BY <1>1, <1>4, <2>1, <2>2 DEF Floors
<1>6. LocalFits' /\ PinFits' /\ SentFits'
  BY DEF LocalFits, PinFits, SentFits
<1>7. RunFits'
  BY DEF RunFits
<1>8. RecordFits'
  BY <1>4 DEF RecordFits
<1> QED
  BY <1>2, <1>3, <1>5, <1>6, <1>7, <1>8

LEMMA SendFailsStep ==
    ASSUME IInv, NEW d \in Drives, NEW partial \in BOOLEAN, SendFails(d, partial)
    PROVE  IInv'
<1> DEFINE ds == IF partial THEN {d} ELSE {}
<1>1. /\ UNCHANGED <<declared, tier, mounted, newest, newestLag, pin, pinLag,
                     copyLag, emptied, excused, sent, since, skew>>
      /\ steady' = steady \ {d} /\ d \in run.due /\ run.on
      /\ run' = [run EXCEPT !.due = @ \ {d}, !.whole = FALSE]
  BY DEF SendFails
<1>2. /\ listed' = [e \in Drives |-> IF e \in ds THEN Least(listed[e], newest) ELSE listed[e]]
      /\ held' = held \union ds /\ unrecorded' = unrecorded \union ds
  BY DEF SendFails, IInv, TypeOK
<1>3. /\ run'.on = run.on /\ run'.age = run.age /\ run'.due = run.due \ {d}
      /\ run'.aged = run.aged
      /\ run' \in [on : BOOLEAN, age : Ages, due : SUBSET Drives, served : SUBSET Drives,
                  good : BOOLEAN, whole : BOOLEAN, clears : BOOLEAN, aged : BOOLEAN,
                  drops : BOOLEAN]
  BY <1>1 DEF IInv, TypeOK
<1>4. mishaps' \in 0..MaxMishaps
  BY MishapCounts DEF SendFails, IInv
<1>5. ds \in SUBSET Drives /\ ds \subseteq run.due
  BY <1>1
<1>6. /\ listed' \in [Drives -> Ages] /\ held' \subseteq Drives
      /\ unrecorded' \subseteq Drives /\ steady' \subseteq Drives
      /\ newest' = Never => newestLag' = Never /\ held' = {} /\ run'.due = {}
      /\ Fits'
  <2> HIDE DEF ds
  <2> QED
    BY <1>1, <1>2, <1>3, <1>5, PartialsFit
<1>7. TypeOK'
  BY <1>1, <1>3, <1>4, <1>6 DEF IInv, TypeOK
<1> QED
  BY <1>6, <1>7 DEF IInv

LEMMA KilledStep ==
    ASSUME IInv, NEW partial \in SUBSET Drives, Killed(partial)
    PROVE  IInv'
<1>1. /\ UNCHANGED <<declared, tier, mounted, newest, newestLag, pin, pinLag,
                     copyLag, emptied, excused, sent, since, skew>>
      /\ steady' = steady \ partial /\ partial \subseteq run.due /\ run.on
      /\ listed' = [d \in Drives |-> IF d \in partial THEN Least(listed[d], newest)
                                     ELSE listed[d]]
      /\ held' = held \union partial /\ unrecorded' = unrecorded \union partial
      /\ run' = Idle
  BY DEF Killed
<1>2. 0 \in Ages
  BY Numbers, SMT DEF Ages
<1>3. /\ ~run'.on /\ run'.age = 0 /\ run'.due = {}
      /\ run' \in [on : BOOLEAN, age : Ages, due : SUBSET Drives, served : SUBSET Drives,
                  good : BOOLEAN, whole : BOOLEAN, clears : BOOLEAN, aged : BOOLEAN,
                  drops : BOOLEAN]
  BY <1>1, <1>2 DEF Idle
<1>4. mishaps' \in 0..MaxMishaps
  BY MishapCounts DEF Killed, IInv
<1>5. /\ listed' \in [Drives -> Ages] /\ held' \subseteq Drives
      /\ unrecorded' \subseteq Drives /\ steady' \subseteq Drives
      /\ newest' = Never => newestLag' = Never /\ held' = {} /\ run'.due = {}
      /\ Fits'
  BY <1>1, <1>3, PartialsFit
<1>6. TypeOK'
  BY <1>1, <1>3, <1>4, <1>5 DEF IInv, TypeOK
<1> QED
  BY <1>5, <1>6 DEF IInv

LEMMA ShutDownStep ==
    ASSUME IInv, ShutDown
    PROVE  IInv'
<1> USE DEF IInv, Fits
<1>1. /\ UNCHANGED <<declared, tier, mounted, disk, excused, sent, unrecorded, since,
                     steady, skew>>
      /\ run' = [run EXCEPT !.due = {}, !.good = FALSE, !.drops = FALSE]
  BY DEF ShutDown
<1>2. mishaps' \in 0..MaxMishaps
  BY MishapCounts DEF ShutDown
<1>3. /\ run'.on = run.on /\ run'.due = {} /\ run'.aged = run.aged /\ run'.age = run.age
      /\ run' \in [on : BOOLEAN, age : Ages, due : SUBSET Drives, served : SUBSET Drives,
                  good : BOOLEAN, whole : BOOLEAN, clears : BOOLEAN, aged : BOOLEAN,
                  drops : BOOLEAN]
  BY <1>1 DEF TypeOK
<1>4. TypeOK'
  BY <1>1, <1>2, <1>3 DEF TypeOK, disk
<1>5. Floors' /\ LocalFits' /\ PinFits'
  BY <1>1, <1>3 DEF Floors, LocalFits, PinFits, disk
<1>6. RunFits' /\ SentFits' /\ RecordFits'
  BY <1>1, <1>3 DEF RunFits, SentFits, RecordFits, disk
<1> QED
  BY <1>4, <1>5, <1>6

LEMMA RunEndsStep ==
    ASSUME IInv, NEW deleted \in BOOLEAN, RunEnds(deleted)
    PROVE  IInv'
<1> USE Numbers DEF IInv, Fits
<1>1. /\ UNCHANGED <<declared, tier, mounted, listed, copyLag, excused, sent,
                     unrecorded, skew>>
      /\ run' = Idle
  BY DEF RunEnds
<1>2. since' \in 0..Late /\ steady' \subseteq Drives
  <2>1. Least(Most(run.age, 0), Late) \in 0..Late
    BY SMT DEF Least, Most, TypeOK, Ages
  <2> QED
    BY <2>1 DEF RunEnds, TypeOK
<1>3. mishaps' \in 0..MaxMishaps
  BY MishapCounts, SMT DEF RunEnds
<1>4. PICK lost \in SUBSET run.served :
         /\ Unpin(lost)
         /\ \/ newest # Never /\ NextNewest(deleted, lost)
            \/ UNCHANGED <<newest, newestLag, held>>
  BY DEF RunEnds, NewestGoes
<1>5. 0 \in Ages /\ Never \in Ages /\ Never \in Lags
  BY SMT DEF Ages, Lags
<1>6. /\ ~run'.on /\ run'.age = 0 /\ run'.due = {}
      /\ run' \in [on : BOOLEAN, age : Ages, due : SUBSET Drives, served : SUBSET Drives,
                  good : BOOLEAN, whole : BOOLEAN, clears : BOOLEAN, aged : BOOLEAN,
                  drops : BOOLEAN]
  BY <1>1, <1>5 DEF Idle
<1>7. /\ pin' \in [Drives -> Ages] /\ pinLag' \in [Drives -> Lags]
      /\ emptied' \subseteq emptied
      /\ \A d \in Drives : pin'[d] = pin[d] \/ pin'[d] = Never
      /\ PinFits'
  <2>1. lost \in SUBSET Drives
    BY DEF TypeOK
  <2> QED
    BY <1>1, <1>4, <2>1, Unpinned
<1>8. /\ newest' \in Ages /\ newestLag' \in Lags /\ held' \subseteq Drives
      /\ newest' = Never <=> newestLag' = Never
      /\ newest' = Never => held' = {}
      /\ newest' >= -skew
      /\ newest' # Never => newestLag' <= newest' + skew
  <2>1. CASE newest # Never /\ NextNewest(deleted, lost)
    <3>1. CASE newest' = Never /\ newestLag' = Never /\ held' = {}
      BY <3>1, <1>5, SMT DEF TypeOK
    <3>2. CASE \E d \in Drives, others \in SUBSET Drives :
                 /\ pin[d] # Never
                 /\ newest' = pin[d] /\ newestLag' = pinLag[d]
                 /\ held' = others \union {e \in Drives \ emptied : pin[e] = pin[d]}
      BY <3>2 DEF TypeOK, PinFits, Floors
    <3>3. CASE \E g \in Gaps, others \in SUBSET Drives :
                 /\ newest' = Least(newest + g, Cap) /\ held' = others
                 /\ newestLag' \in {newestLag, Least(newest' + skew, Cap)}
      <4>1. PICK g \in Gaps, others \in SUBSET Drives :
                 /\ newest' = Least(newest + g, Cap) /\ held' = others
                 /\ newestLag' \in {newestLag, Least(newest' + skew, Cap)}
        BY <3>3
      <4>2. /\ newest \in Ages /\ newest <= Cap /\ newest >= -skew
            /\ newestLag \in Lags /\ newestLag <= Cap /\ newestLag <= newest + skew
            /\ skew \in 0..MaxSkew /\ g \in Nat
        BY <2>1, SMT DEF TypeOK, Floors, LocalFits, Ages, Lags
      <4>3. newest' \in Ages /\ newest' <= Cap /\ newest' >= newest
        BY <4>1, <4>2, SMT DEF Least, Ages
      <4>4. newestLag' \in Lags /\ newestLag' <= Cap /\ newestLag' <= newest' + skew
        BY <4>1, <4>2, <4>3, SMT DEF Least, Ages, Lags
      <4> QED
        BY <4>1, <4>2, <4>3, <4>4, SMT DEF Ages, Lags
    <3> QED
      BY <2>1, <3>1, <3>2, <3>3 DEF NextNewest
  <2>2. CASE UNCHANGED <<newest, newestLag, held>>
    BY <2>2 DEF TypeOK, LocalFits, Floors
  <2> QED
    BY <1>4, <2>1, <2>2
<1>9. TypeOK'
  BY <1>1, <1>2, <1>3, <1>6, <1>7, <1>8 DEF TypeOK
<1>10. Floors'
  <2>1. skew \in Nat /\ skew' = skew
    BY <1>1 DEF TypeOK
  <2>2. \A d \in Drives : pin'[d] >= -skew
    BY <1>7, <2>1, SMT DEF Floors
  <2> QED
    BY <1>1, <1>6, <1>8, <2>1, <2>2, SMT DEF Floors
<1>11. LocalFits' /\ RunFits'
  BY <1>1, <1>6, <1>8 DEF LocalFits, RunFits
<1>12. SentFits' /\ RecordFits'
  BY <1>1, <1>7 DEF SentFits, RecordFits
<1> QED
  BY <1>7, <1>9, <1>10, <1>11, <1>12

------------------------------------------------------------------------------
(* The steps of the world. *)

LEMMA AgeGrows ==
    ASSUME NEW age \in Ages, NEW k \in Nat
    PROVE  /\ Older(age, k) \in Ages /\ Older(age, k) >= age
           /\ age = Never <=> Older(age, k) = Never
           /\ age # Never => Older(age, k) = IF age + k <= Cap THEN age + k ELSE Cap
BY Numbers, SMT DEF Older, Least, Ages

LEMMA LagGrows ==
    ASSUME NEW lag \in Lags, NEW k \in Nat
    PROVE  /\ Staler(lag, k) \in Lags /\ Staler(lag, k) <= Never
           /\ lag = Never <=> Staler(lag, k) = Never
           /\ lag # Never => Staler(lag, k) <= Cap /\ Staler(lag, k) <= lag + k
           /\ \A other \in Lags : lag <= other => Staler(lag, k) <= Staler(other, k)
BY Numbers, SMT DEF Staler, Older, Least, Lags

\* A lag that an age bounds is bounded by it as both grow.
LEMMA GrowTogether ==
    ASSUME NEW age \in Ages, age # Never, NEW lag \in Lags, lag # Never,
           NEW k \in Nat, NEW slack \in Nat, lag <= age + slack, age >= -slack
    PROVE  Staler(lag, k) <= Older(age, k) + slack
BY Numbers, SMT DEF Staler, Older, Least, Ages, Lags

LEMMA WaitStep ==
    ASSUME IInv, NEW k \in Waits, Wait(k)
    PROVE  IInv'
<1> USE Numbers DEF IInv, Fits
<1>1. k \in Nat
  OBVIOUS
<1>2. /\ UNCHANGED <<declared, tier, mounted, held, emptied, excused, unrecorded,
                     skew, mishaps>>
      /\ newest' = Older(newest, k) /\ newestLag' = Staler(newestLag, k)
      /\ steady' \subseteq steady
  BY DEF Wait
<1>3. \A d \in Drives : /\ listed'[d] = Older(listed[d], k) /\ pin'[d] = Older(pin[d], k)
                        /\ pinLag'[d] = Staler(pinLag[d], k)
                        /\ copyLag'[d] = Staler(copyLag[d], k)
                        /\ sent'[d] = Older(sent[d], k)
  BY DEF Wait
<1>4. /\ run'.on = run.on /\ run'.due = run.due /\ run'.aged = run.aged
      /\ run'.age = IF run.on THEN Older(run.age, k) ELSE run.age
      /\ run'.age \in Ages
      /\ run' \in [on : BOOLEAN, age : Ages, due : SUBSET Drives, served : SUBSET Drives,
                  good : BOOLEAN, whole : BOOLEAN, clears : BOOLEAN, aged : BOOLEAN,
                  drops : BOOLEAN]
  <2>1. Older(run.age, k) \in Ages
    BY <1>1, AgeGrows DEF TypeOK
  <2>2. run' = IF run.on THEN [run EXCEPT !.age = Older(@, k)] ELSE run
    BY DEF Wait
  <2> QED
    BY <2>1, <2>2 DEF TypeOK
<1>5. skew \in 0..MaxSkew /\ skew' = skew /\ skew \in Nat
  BY <1>2, SMT DEF TypeOK
<1>6. TypeOK'
  <2>1. newest' \in Ages /\ newestLag' \in Lags /\ (newest' = Never <=> newestLag' = Never)
        /\ (newest' = Never <=> newest = Never)
    BY <1>1, <1>2, AgeGrows, LagGrows DEF TypeOK
  <2>2. /\ listed' \in [Drives -> Ages] /\ pin' \in [Drives -> Ages]
        /\ pinLag' \in [Drives -> Lags] /\ copyLag' \in [Drives -> Lags]
        /\ sent' \in [Drives -> Ages]
    BY <1>1, AgeGrows, LagGrows DEF TypeOK, Wait
  <2>3. since' \in 0..Late
    BY <1>1, SMT DEF Wait, Least, TypeOK
  <2> QED
    BY <1>2, <1>4, <2>1, <2>2, <2>3 DEF TypeOK
<1>7. Floors'
  <2>1. newest' >= newest /\ newest \in Ages /\ newest' \in Ages
    BY <1>1, <1>2, <1>6, AgeGrows DEF TypeOK
  <2>2. \A d \in Drives : /\ listed'[d] >= listed[d] /\ pin'[d] >= pin[d] /\ sent'[d] >= sent[d]
                          /\ listed[d] \in Ages /\ pin[d] \in Ages /\ sent[d] \in Ages
                          /\ listed'[d] \in Ages /\ pin'[d] \in Ages /\ sent'[d] \in Ages
    BY <1>1, <1>3, <1>6, AgeGrows DEF TypeOK
  <2>3. run'.age >= run.age /\ run'.age <= Cap
    BY <1>1, <1>4, AgeGrows, SMT DEF TypeOK, Floors, Ages
  <2>4. ASSUME run.on, NEW age \in Ages, age >= run.age - skew
        PROVE  Older(age, k) >= Older(run.age, k) - skew
    BY <1>1, <1>5, <2>4, SMT DEF Older, Least, Ages, TypeOK, Floors
  <2>5. newest' >= -skew /\ run'.age >= -skew
    BY <1>4, <1>5, <2>1, <2>3, SMT DEF Floors, Ages, TypeOK
  <2>6. \A d \in Drives : listed'[d] >= -skew /\ pin'[d] >= -skew /\ sent'[d] >= -skew
    BY <1>5, <2>2, SMT DEF Floors, Ages
  <2>7. run.on => newest' >= run'.age - skew
    BY <1>2, <1>4, <2>1, <2>4 DEF Floors
  <2>8. run.on => \A d \in Drives : listed'[d] >= run'.age - skew
    BY <1>3, <1>4, <2>2, <2>4 DEF Floors
  <2> QED
    BY <1>4, <1>5, <2>3, <2>5, <2>6, <2>7, <2>8 DEF Floors
<1>8. LocalFits'
  <2> SUFFICES ASSUME newest' # Never PROVE newestLag' <= newest' + skew
    BY <1>5 DEF LocalFits
  <2>1. newest # Never /\ newestLag # Never
    BY <1>1, <1>2, AgeGrows DEF TypeOK
  <2> QED
    BY <1>1, <1>2, <1>5, <2>1, GrowTogether DEF LocalFits, Floors, TypeOK
<1>9. PinFits'
  <2> SUFFICES ASSUME NEW d \in Drives
               PROVE  /\ pin'[d] = Never <=> pinLag'[d] = Never
                      /\ pin'[d] # Never => pinLag'[d] <= pin'[d] + skew
                      /\ pin'[d] # Never /\ d \notin emptied => copyLag'[d] <= pinLag'[d]
    BY <1>2 DEF PinFits
  <2>1. pin[d] \in Ages /\ pinLag[d] \in Lags /\ copyLag[d] \in Lags
    BY DEF TypeOK
  <2>2. (pin'[d] = Never <=> pin[d] = Never) /\ (pinLag'[d] = Never <=> pinLag[d] = Never)
    BY <1>1, <1>3, <2>1, AgeGrows, LagGrows
  <2>3. pin[d] # Never => pinLag'[d] <= pin'[d] + skew
    BY <1>1, <1>3, <1>5, <2>1, GrowTogether DEF PinFits, Floors
  <2>4. ASSUME pin[d] # Never, d \notin emptied
        PROVE  copyLag'[d] <= pinLag'[d]
    <3>1. copyLag[d] <= pinLag[d]
      BY <2>4 DEF PinFits
    <3>2. Staler(copyLag[d], k) <= Staler(pinLag[d], k)
      BY <1>1, <2>1, <3>1, LagGrows
    <3> QED
      BY <1>3, <3>2
  <2> QED
    BY <2>2, <2>3, <2>4 DEF PinFits
<1>10. RunFits'
  <2>1. ASSUME run.due # {}, ~run.aged
        PROVE  newestLag' <= run'.age + SnapInterval + skew
    <3>1. /\ run.on /\ newestLag \in Lags /\ newestLag # Never
          /\ newestLag <= run.age + SnapInterval + skew
          /\ run.age \in Ages /\ run.age # Never /\ run.age >= -skew
      BY <2>1, SMT DEF RunFits, TypeOK, Floors, Ages, Lags
    <3>2. SnapInterval + skew \in Nat
      BY <1>5
    <3>3. /\ run.age >= -(SnapInterval + skew)
          /\ newestLag <= run.age + (SnapInterval + skew)
      BY <1>5, <3>1, SMT DEF Ages, Lags
    <3>4. Staler(newestLag, k) <= Older(run.age, k) + (SnapInterval + skew)
      BY <1>1, <3>1, <3>2, <3>3, GrowTogether
    <3> QED
      BY <1>2, <1>4, <1>5, <1>6, <3>1, <3>4, SMT DEF TypeOK, Ages, Lags
  <2> QED
    BY <1>4, <1>5, <2>1 DEF RunFits
<1>11. SentFits'
  <2>1. ASSUME NEW d \in Drives \ excused, sent'[d] # Never
        PROVE  copyLag'[d] # Never /\ copyLag'[d] <= sent'[d] + SnapInterval + skew
    <3>0. /\ sent[d] \in Ages /\ copyLag[d] \in Lags
          /\ copyLag'[d] = Staler(copyLag[d], k) /\ sent'[d] = Older(sent[d], k)
      BY <1>3 DEF TypeOK
    <3>1. sent[d] \in Ages /\ copyLag[d] \in Lags /\ sent[d] # Never
      BY <1>1, <2>1, <3>0, AgeGrows
    <3>2. copyLag[d] # Never /\ copyLag[d] <= sent[d] + SnapInterval + skew /\ sent[d] >= -skew
      BY <3>1 DEF SentFits, Floors
    <3>3. SnapInterval + skew \in Nat
      BY <1>5
    <3>4. sent[d] >= -(SnapInterval + skew) /\ copyLag[d] <= sent[d] + (SnapInterval + skew)
      BY <1>5, <3>1, <3>2, SMT DEF Ages, Lags
    <3>5. Staler(copyLag[d], k) <= Older(sent[d], k) + (SnapInterval + skew)
      BY <1>1, <3>1, <3>2, <3>3, <3>4, GrowTogether
    <3>6. copyLag'[d] # Never /\ copyLag'[d] \in Lags
      BY <1>1, <3>0, <3>2, LagGrows
    <3>7. sent'[d] \in Ages
      BY <1>1, <3>0, AgeGrows
    <3> QED
      BY <1>5, <3>0, <3>5, <3>6, <3>7, SMT DEF Ages, Lags
  <2> QED
    BY <1>2, <2>1 DEF SentFits
<1>12. RecordFits'
  <2> SUFFICES ASSUME NEW d \in Drives \ unrecorded
               PROVE  /\ sent'[d] = Never => listed'[d] = Never
                      /\ listed'[d] >= sent'[d] - skew
    BY <1>2 DEF RecordFits
  <2>1. /\ sent[d] \in Ages /\ listed[d] \in Ages
        /\ sent[d] = Never => listed[d] = Never
        /\ listed[d] >= sent[d] - skew
    BY DEF TypeOK, RecordFits
  <2> QED
    BY <1>1, <1>3, <1>5, <2>1, SMT DEF Older, Least, Ages
<1> QED
  BY <1>6, <1>7, <1>8, <1>9, <1>10, <1>11, <1>12

LEMMA SetBackStep ==
    ASSUME IInv, NEW k \in SetBacks, ClockSetBack(k)
    PROVE  IInv'
<1> USE Numbers DEF IInv, Fits
<1>1. k \in Nat /\ skew' = skew + k /\ skew \in Nat /\ skew' \in 0..MaxSkew
  BY SMT DEF ClockSetBack, TypeOK
<1>2. /\ UNCHANGED <<declared, tier, mounted, newestLag, held, pinLag, copyLag,
                     emptied, excused, unrecorded, since, steady>>
      /\ newest' = Younger(newest, k)
  BY DEF ClockSetBack
<1>3. \A d \in Drives : /\ listed'[d] = Younger(listed[d], k) /\ pin'[d] = Younger(pin[d], k)
                        /\ sent'[d] = Younger(sent[d], k)
  BY DEF ClockSetBack
<1>4. \A age \in Ages : age >= -skew =>
         /\ Younger(age, k) \in Ages /\ Younger(age, k) >= -skew'
         /\ age = Never <=> Younger(age, k) = Never
         /\ age # Never => Younger(age, k) = age - k
  BY <1>1, SMT DEF Younger, Ages
<1>5. /\ run'.on = run.on /\ run'.due = run.due /\ run'.aged = run.aged
      /\ run'.age = IF run.on THEN run.age - k ELSE run.age
      /\ run'.age \in Ages /\ run'.age >= -skew' /\ run'.age <= Cap
      /\ run' \in [on : BOOLEAN, age : Ages, due : SUBSET Drives, served : SUBSET Drives,
                  good : BOOLEAN, whole : BOOLEAN, clears : BOOLEAN, aged : BOOLEAN,
                  drops : BOOLEAN]
  <2>1. /\ run.age - k \in Ages /\ run.age - k >= -skew' /\ run.age - k <= Cap
        /\ run.age >= -skew' /\ run.age <= Cap
    BY <1>1, SMT DEF TypeOK, Floors, Ages
  <2>2. run' = IF run.on THEN [run EXCEPT !.age = @ - k] ELSE run
    BY DEF ClockSetBack
  <2> QED
    BY <2>1, <2>2 DEF TypeOK
<1>6. mishaps' \in 0..MaxMishaps
  BY MishapCounts DEF ClockSetBack
<1>7. TypeOK'
  <2>1. newest' \in Ages /\ (newest' = Never <=> newest = Never)
    BY <1>2, <1>4 DEF TypeOK, Floors
  <2>2. listed' \in [Drives -> Ages] /\ pin' \in [Drives -> Ages] /\ sent' \in [Drives -> Ages]
    BY <1>4 DEF ClockSetBack, TypeOK, Floors
  <2> QED
    BY <1>1, <1>2, <1>5, <1>6, <2>1, <2>2 DEF TypeOK
<1>8. Floors'
  <2>1. newest' >= -skew'
    BY <1>2, <1>4 DEF TypeOK, Floors
  <2>2. \A d \in Drives : listed'[d] >= -skew' /\ pin'[d] >= -skew' /\ sent'[d] >= -skew'
    BY <1>3, <1>4 DEF TypeOK, Floors
  <2>3. ASSUME run.on, NEW age \in Ages, age >= run.age - skew
        PROVE  Younger(age, k) >= (run.age - k) - (skew + k)
    BY <1>1, <2>3, SMT DEF Younger, Ages, TypeOK, Floors
  <2>4. run.on => newest' >= run'.age - skew'
    BY <1>1, <1>2, <1>5, <2>3 DEF TypeOK, Floors
  <2>5. run.on => \A d \in Drives : listed'[d] >= run'.age - skew'
    BY <1>1, <1>3, <1>5, <2>3 DEF TypeOK, Floors
  <2> QED
    BY <1>5, <2>1, <2>2, <2>4, <2>5 DEF Floors
<1>9. LocalFits'
  BY <1>1, <1>2, <1>4, SMT DEF LocalFits, TypeOK, Floors, Ages, Lags
<1>10. PinFits'
  <2> SUFFICES ASSUME NEW d \in Drives
               PROVE  /\ pin'[d] = Never <=> pinLag[d] = Never
                      /\ pin'[d] # Never => pinLag[d] <= pin'[d] + skew'
                      /\ pin'[d] # Never /\ d \notin emptied => copyLag[d] <= pinLag[d]
    BY <1>2 DEF PinFits
  <2>1. pin[d] \in Ages /\ pinLag[d] \in Lags /\ pin[d] >= -skew
    BY DEF TypeOK, Floors
  <2>2. (pin'[d] = Never <=> pin[d] = Never) /\ (pin[d] # Never => pin'[d] = pin[d] - k)
    BY <1>3, <1>4, <2>1
  <2>3. pin'[d] # Never => pinLag[d] <= pin'[d] + skew'
    BY <1>1, <2>1, <2>2, SMT DEF PinFits, Ages, Lags
  <2> QED
    BY <2>2, <2>3 DEF PinFits
<1>11. RunFits'
  <2>1. run.due # {} /\ ~run.aged => newestLag <= (run.age - k) + SnapInterval + (skew + k)
    BY <1>1, SMT DEF RunFits, TypeOK, Ages, Lags
  <2> QED
    BY <1>1, <1>2, <1>5, <2>1 DEF RunFits
<1>12. SentFits'
  <2>1. ASSUME NEW d \in Drives \ excused, sent'[d] # Never
        PROVE  copyLag[d] # Never /\ copyLag[d] <= sent'[d] + SnapInterval + skew'
    <3>1. /\ sent[d] \in Ages /\ sent[d] # Never /\ sent'[d] = sent[d] - k
          /\ copyLag[d] \in Lags
      BY <1>3, <1>4, <2>1 DEF TypeOK, Floors
    <3>2. copyLag[d] # Never /\ copyLag[d] <= sent[d] + SnapInterval + skew
      BY <3>1 DEF SentFits
    <3> QED
      BY <1>1, <3>1, <3>2, SMT DEF Ages, Lags
  <2> QED
    BY <1>2, <2>1 DEF SentFits
<1>13. RecordFits'
  <2> SUFFICES ASSUME NEW d \in Drives \ unrecorded
               PROVE  /\ sent'[d] = Never => listed'[d] = Never
                      /\ listed'[d] >= sent'[d] - skew'
    BY <1>2 DEF RecordFits
  <2>1. /\ sent[d] \in Ages /\ listed[d] \in Ages /\ sent[d] >= -skew /\ listed[d] >= -skew
        /\ sent[d] = Never => listed[d] = Never
        /\ listed[d] >= sent[d] - skew
    BY DEF TypeOK, RecordFits, Floors
  <2> QED
    BY <1>1, <1>3, <2>1, SMT DEF Younger, Ages
<1> QED
  BY <1>7, <1>8, <1>9, <1>10, <1>11, <1>12, <1>13

LEMMA SourceChangesStep ==
    ASSUME IInv, SourceChanges
    PROVE  IInv'
<1> USE Numbers DEF IInv, Fits
<1>1. /\ UNCHANGED <<declared, tier, mounted, newest, listed, held, pin, emptied,
                     excused, sent, unrecorded, since, skew, mishaps>>
      /\ newestLag' = IF newestLag = Same THEN 0 ELSE newestLag
      /\ steady' \subseteq steady
  BY DEF SourceChanges
<1>2. \A d \in Drives : /\ pinLag'[d] = IF pinLag[d] = Same THEN 0 ELSE pinLag[d]
                        /\ copyLag'[d] = IF copyLag[d] = Same THEN 0 ELSE copyLag[d]
  BY DEF SourceChanges
<1>3. /\ run'.on = run.on /\ run'.due = run.due /\ run'.aged = run.aged /\ run'.age = run.age
      /\ run' \in [on : BOOLEAN, age : Ages, due : SUBSET Drives, served : SUBSET Drives,
                  good : BOOLEAN, whole : BOOLEAN, clears : BOOLEAN, aged : BOOLEAN,
                  drops : BOOLEAN]
  <2>1. run' = [run EXCEPT !.good = @ /\ ~WasIdle]
    BY DEF SourceChanges
  <2> QED
    BY <2>1 DEF TypeOK
<1>4. TypeOK'
  <2>1. 0 \in Lags /\ Never # 0 /\ Never # Same
    BY SMT DEF Lags
  <2>2. pinLag' \in [Drives -> Lags] /\ copyLag' \in [Drives -> Lags]
    BY <2>1 DEF SourceChanges, TypeOK
  <2>3. newestLag' \in Lags /\ (newest' = Never <=> newestLag' = Never)
    BY <1>1, <2>1 DEF TypeOK
  <2> QED
    BY <1>1, <1>3, <2>2, <2>3 DEF TypeOK
<1>5. Floors' /\ RecordFits'
  BY <1>1, <1>3 DEF Floors, RecordFits
<1>6. skew \in Nat /\ newest \in Ages /\ newestLag \in Lags
  BY DEF TypeOK
<1>7. LocalFits'
  BY <1>1, <1>6, SMT DEF LocalFits, Floors, Ages, Lags
<1>8. PinFits'
  <2> SUFFICES ASSUME NEW d \in Drives
               PROVE  /\ pin[d] = Never <=> pinLag'[d] = Never
                      /\ pin[d] # Never => pinLag'[d] <= pin[d] + skew
                      /\ pin[d] # Never /\ d \notin emptied => copyLag'[d] <= pinLag'[d]
    BY <1>1 DEF PinFits
  <2>1. pin[d] \in Ages /\ pinLag[d] \in Lags /\ copyLag[d] \in Lags /\ pin[d] >= -skew
    BY DEF TypeOK, Floors
  <2> QED
    BY <1>2, <1>6, <2>1, SMT DEF PinFits, Ages, Lags
<1>9. RunFits'
  <2>1. run.age \in Ages /\ run.age >= -skew
    BY DEF TypeOK, Floors
  <2> QED
    BY <1>1, <1>3, <1>6, <2>1, SMT DEF RunFits, Ages, Lags
<1>10. SentFits'
  <2>1. ASSUME NEW d \in Drives \ excused, sent[d] # Never
        PROVE  copyLag'[d] # Never /\ copyLag'[d] <= sent[d] + SnapInterval + skew
    <3>1. sent[d] \in Ages /\ copyLag[d] \in Lags /\ sent[d] >= -skew
      BY DEF TypeOK, Floors
    <3>2. copyLag[d] # Never /\ copyLag[d] <= sent[d] + SnapInterval + skew
      BY <2>1 DEF SentFits
    <3> QED
      BY <1>2, <1>6, <3>1, <3>2, SMT DEF Ages, Lags
  <2> QED
    BY <1>1, <2>1 DEF SentFits
<1> QED
  BY <1>4, <1>5, <1>7, <1>8, <1>9, <1>10

LEMMA EmptiedStep ==
    ASSUME IInv, NEW d \in Drives, Emptied(d)
    PROVE  IInv'
<1> USE Numbers DEF IInv, Fits
<1>1. /\ UNCHANGED <<declared, tier, mounted, newest, newestLag, pin, pinLag, sent,
                     unrecorded, run, since, skew>>
      /\ listed' = [listed EXCEPT ![d] = Never] /\ copyLag' = [copyLag EXCEPT ![d] = Never]
      /\ held' = held \ {d} /\ steady' = steady \ {d}
      /\ emptied' = IF pin[d] = Never THEN emptied ELSE emptied \union {d}
      /\ excused' = excused \union {d}
  BY DEF Emptied
<1>2. mishaps' \in 0..MaxMishaps
  BY MishapCounts DEF Emptied
<1>3. Never \in Ages /\ Never \in Lags
  BY SMT DEF Ages, Lags
<1>4. TypeOK'
  <2>1. listed' \in [Drives -> Ages] /\ copyLag' \in [Drives -> Lags]
    BY <1>1, <1>3 DEF TypeOK
  <2>2. /\ held' \subseteq Drives /\ steady' \subseteq Drives
        /\ emptied' \subseteq Drives /\ excused' \subseteq Drives
        /\ newest' = Never => held' = {} /\ run'.due = {}
    BY <1>1 DEF TypeOK
  <2> QED
    BY <1>1, <1>2, <2>1, <2>2 DEF TypeOK
<1>5. \A e \in Drives : /\ e # d => listed'[e] = listed[e] /\ copyLag'[e] = copyLag[e]
                        /\ e = d => listed'[e] = Never
  BY <1>1 DEF TypeOK
<1>6. skew \in Nat /\ run.age \in Ages /\ run.age <= Cap
      /\ (\A e \in Drives : sent[e] \in Ages)
  BY DEF TypeOK, Floors
<1>7. Floors'
  <2>1. Never >= -skew /\ Never >= run.age - skew
    BY <1>6, SMT DEF Ages
  <2> QED
    BY <1>1, <1>5, <2>1 DEF Floors
<1>8. LocalFits' /\ RunFits'
  BY <1>1 DEF LocalFits, RunFits
<1>9. PinFits' /\ SentFits'
  BY <1>1, <1>5 DEF PinFits, SentFits
<1>10. RecordFits'
  <2>1. ASSUME NEW e \in Drives PROVE Never >= sent[e] - skew
    <3>1. sent[e] \in Ages
      BY <1>6
    <3> QED
      BY <1>6, <3>1, SMT DEF Ages
  <2> QED
    BY <1>1, <1>5, <2>1 DEF RecordFits
<1> QED
  BY <1>4, <1>7, <1>8, <1>9, <1>10

\* A drive that comes or goes, a pool that moves.
LEMMA MountStep ==
    ASSUME IInv,
           \/ \E d \in Drives : Plug(d) \/ Unplug(d)
           \/ \E t \in Tiers : PoolMoves(t)
    PROVE  IInv'
<1> USE DEF IInv, Fits
<1>1. /\ UNCHANGED <<declared, disk, excused, sent, unrecorded, since, skew>>
      /\ mounted' \subseteq Drives /\ tier' \in Tiers /\ steady' \subseteq Drives
      /\ run' = run \/ run' = [run EXCEPT !.good = FALSE]
  BY DEF Plug, Unplug, PoolMoves, TypeOK
<1>2. mishaps' \in 0..MaxMishaps
  BY MishapCounts DEF Plug, Unplug, PoolMoves
<1>3. /\ run'.on = run.on /\ run'.due = run.due /\ run'.aged = run.aged /\ run'.age = run.age
      /\ run' \in [on : BOOLEAN, age : Ages, due : SUBSET Drives, served : SUBSET Drives,
                  good : BOOLEAN, whole : BOOLEAN, clears : BOOLEAN, aged : BOOLEAN,
                  drops : BOOLEAN]
  BY <1>1 DEF TypeOK
<1>4. TypeOK'
  BY <1>1, <1>2, <1>3 DEF TypeOK, disk
<1>5. Floors' /\ LocalFits' /\ PinFits'
  BY <1>1, <1>3 DEF Floors, LocalFits, PinFits, disk
<1>6. RunFits' /\ SentFits' /\ RecordFits'
  BY <1>1, <1>3 DEF RunFits, SentFits, RecordFits, disk
<1> QED
  BY <1>4, <1>5, <1>6

LEMMA StutterStep ==
    ASSUME IInv, UNCHANGED vars
    PROVE  IInv'
BY DEF IInv, Fits, vars, disk, TypeOK, Floors, LocalFits, PinFits, RunFits, SentFits, RecordFits

LEMMA StepFits == IInv /\ [Next]_vars => IInv'
<1> SUFFICES ASSUME IInv, [Next]_vars PROVE IInv'
  OBVIOUS
<1>1. CASE Run
  BY <1>1, RunBeginsStep, SendSucceedsStep, SendFailsStep, ShutDownStep,
     RunEndsStep, KilledStep DEF Run
<1>2. CASE World
  BY <1>2, WaitStep, SetBackStep, SourceChangesStep, EmptiedStep, MountStep DEF World
<1>3. CASE UNCHANGED vars
  BY <1>3, StutterStep
<1> QED
  BY <1>1, <1>2, <1>3 DEF Next

LEMMA Invariance == Spec => []IInv
BY InitFits, StepFits, PTL DEF Spec

------------------------------------------------------------------------------
(* The theorems. *)

\* Ages and lags stay in range, whatever the clock, the drives and the runs do.
THEOREM Typing == Spec => []TypeOK
<1>1. IInv => TypeOK
  BY DEF IInv
<1> QED
  BY <1>1, Invariance, PTL

\* A drive awareness calls PROTECTED holds a copy whose loss is bounded.
LEMMA CopyHonest ==
    ASSUME IInv, NEW known \in BOOLEAN, NEW d \in Drives \ excused,
           CopyStatus(d, known) = Protected
    PROVE  LossBounded(d)
<1> USE Numbers DEF IInv, Fits, Protected, AtRisk, Unprotected
<1>1. /\ Effective \in Nat /\ Overdue \in Nat
      /\ sent[d] \in Ages /\ copyLag[d] \in Lags /\ skew \in Nat
  <2>1. Overdue \in Nat
    BY IntervalAssumption, SMT DEF Overdue
  <2> QED
    BY <2>1, Effectives DEF TypeOK
<1>2. Allowed(d) \in Nat /\ Allowed(d) >= 3 * Effective
      /\ (Relaxed(d) => Allowed(d) >= 2 * Overdue)
  BY <1>1, SMT DEF Allowed, Most
<1>3. sent[d] # Never
  BY DEF CopyStatus
<1>4. copyLag[d] <= sent[d] + SnapInterval + skew
  BY <1>3 DEF SentFits
<1>5. CASE SourceUnchanged(d, known)
  <2>1. d \notin emptied /\ pin[d] # Never /\ pinLag[d] = Same
    BY <1>5 DEF SourceUnchanged, SentFits
  <2>2. copyLag[d] <= -1
    BY <2>1 DEF PinFits
  <2> QED
    BY <1>1, <1>2, <2>2, SMT DEF LossBounded, Lags
<1>6. CASE ~SourceUnchanged(d, known) /\ Relaxed(d)
  <2>1. Classify(Most(sent[d], 0)) = Protected
    BY <1>3, <1>6 DEF CopyStatus
  <2>2. Most(sent[d], 0) <= Overdue
    BY <2>1 DEF Classify
  <2>3. sent[d] <= Overdue
    BY <1>1, <2>2, SMT DEF Most, Ages
  <2> QED
    BY <1>1, <1>2, <1>4, <1>6, <2>3, SMT DEF LossBounded, Lags, Ages
<1>7. CASE ~SourceUnchanged(d, known) /\ ~Relaxed(d)
  <2>1. Freshness(Most(sent[d], 0), Effective, 3, 6) = Protected
    BY <1>3, <1>7 DEF CopyStatus
  <2>2. 2 * Most(sent[d], 0) <= Effective * 3
    BY <2>1 DEF Freshness
  <2>3. 2 * sent[d] <= 3 * Effective
    BY <1>1, <2>2, SMT DEF Most, Ages
  <2> QED
    BY <1>1, <1>2, <1>4, <2>3, SMT DEF LossBounded, Lags, Ages
<1> QED
  BY <1>5, <1>6, <1>7

\* PROTECTED bounds what a restore loses: the copy by the age allowed to a
\* send, one snapshot interval and the set-backs of the clock, the local half
\* by two snapshot intervals and the set-backs.
THEOREM PromiseIsKept == Spec => []ProtectedBoundsLoss
<1>1. IInv => ProtectedBoundsLoss
  <2> SUFFICES ASSUME IInv, NEW known \in BOOLEAN
               PROVE  /\ \A d \in Drives \ excused :
                           CopyStatus(d, known) = Protected => LossBounded(d)
                      /\ LocalStatus(known) = Protected =>
                           declared = "transient" \/ newestLag <= 2 * SnapInterval + skew
                      /\ Fortified /\ Status(known) = Protected =>
                           \E d \in Offsite : d \in excused \/ LossBounded(d)
    BY DEF ProtectedBoundsLoss
  <2> USE Numbers DEF Protected, AtRisk, Unprotected
  <2>1. \A d \in Drives \ excused : CopyStatus(d, known) = Protected => LossBounded(d)
    BY CopyHonest
  <2>2. ASSUME LocalStatus(known) = Protected, declared # "transient"
        PROVE  newestLag <= 2 * SnapInterval + skew
    <3>1. newest # Never /\ newest \in Ages /\ newestLag \in Lags /\ skew \in Nat
      BY <2>2 DEF LocalStatus, IInv, TypeOK
    <3>2. newestLag = Same \/ 2 * Most(newest, 0) <= SnapInterval * 4
      BY <2>2, <3>1 DEF LocalStatus, Freshness
    <3>3. newestLag <= newest + skew
      BY <3>1 DEF IInv, Fits, LocalFits
    <3> QED
      BY <3>1, <3>2, <3>3, SMT DEF Most, Ages, Lags
  <2>3. ASSUME Fortified, Status(known) = Protected
        PROVE  \E d \in Offsite : d \in excused \/ LossBounded(d)
    <3>1. Least(Assessed(known), Most(BestOf(Offsite, known), AtRisk)) = Protected
      BY <2>3 DEF Status
    <3>2. Assessed(known) \in {0, 1, 2} /\ BestOf(Offsite, known) \in {0, 1, 2}
      <4>1. \A ds : BestOf(ds, known) \in {0, 1, 2}
        BY DEF BestOf
      <4>2. LocalStatus(known) \in {0, 1, 2}
        BY DEF LocalStatus, Freshness
      <4> QED
        BY <4>1, <4>2, SMT DEF Assessed, Least
    <3>3. BestOf(Offsite, known) = Protected
      BY <3>1, <3>2, SMT DEF Least, Most
    <3>4. PICK d \in Offsite : CopyStatus(d, known) = Protected
      BY <3>3 DEF BestOf
    <3> QED
      BY <2>1, <3>4, RoleAssumption
  <2> QED
    BY <2>1, <2>2, <2>3
<1> QED
  BY <1>1, Invariance, PTL

\* The planner sends to every drive awareness warns of that is there and lists
\* no snapshot without a record, unless the clock was set back by half an
\* interval.
THEOREM AlarmsAreActedOn == Spec => []AlarmMeansDue
<1>1. IInv => AlarmMeansDue
  <2> SUFFICES ASSUME IInv, NEW d \in mounted \ unrecorded,
                      CopyStatus(d, TRUE) # Protected, ~(2 * skew > Effective)
               PROVE  SendDue(d, FALSE)
    BY DEF AlarmMeansDue
  <2> USE Numbers DEF IInv, Fits, Protected, AtRisk, Unprotected
  <2>1. /\ d \in Drives /\ Effective \in Nat /\ Effective > 0 /\ skew \in Nat
        /\ sent[d] \in Ages /\ listed[d] \in Ages
        /\ Grace(Effective) \in Nat
    BY Effectives, Graces DEF TypeOK
  <2>2. (sent[d] = Never => listed[d] = Never) /\ listed[d] >= sent[d] - skew
    BY <2>1 DEF RecordFits
  <2>3. CASE sent[d] = Never
    BY <2>2, <2>3 DEF SendDue
  <2>4. CASE sent[d] # Never
    <3>1. ~Relaxed(d)
      BY DEF Relaxed
    <3>2. Freshness(Most(sent[d], 0), Effective, 3, 6) # Protected
      BY <2>4, <3>1 DEF CopyStatus
    <3>3. 2 * Most(sent[d], 0) > Effective * 3
      BY <2>1, <3>2, SMT DEF Freshness, Most, Ages
    <3>4. listed[d] >= Effective - Grace(Effective)
      BY <2>1, <2>2, <3>3, SMT DEF Most, Ages
    <3> QED
      BY <3>4 DEF SendDue, Elapsed
  <2> QED
    BY <2>3, <2>4
<1> QED
  BY <1>1, Invariance, PTL
==============================================================================
