--------------------------- MODULE BackupRunProofs ---------------------------
(***************************************************************************)
(* What a backup does to pins and copies, for any number of runs, drives    *)
(* and snapshots, tiers and faults: the types; that only the holder of the  *)
(* run lock executes, however old its plan; and, where `subvolume_exists`    *)
(* answers, that a pin names a complete copy, that what a pin names is not  *)
(* deleted, that a complete copy goes only by a planned delete, and that   *)
(* the cleanup of a transient run waits for every send.  Where runs follow  *)
(* each other: that a pin has its parent in the local directory, and that   *)
(* graduated retention in a roomy pool leaves a copy.                       *)
(***************************************************************************)
EXTENDS BackupRun, FiniteSetTheorems, WellFoundedInduction, TLAPS

(********************************** types **********************************)

\* A set of snapshots has a latest.
LEMMA LatestExists ==
    ASSUME NEW S \in SUBSET (Snaps \cup {NoSnap}), S # {}
    PROVE  \E u \in S : \A v \in S : u >= v
<1> DEFINE Later(u) == {v \in S : v > u}
           Laters == {Later(u) : u \in S}
<1>1. MaxSnap \in Nat /\ \A u \in S : u \in Int
  BY SnapAssumption DEF Snaps, NoSnap
<1>2. IsFiniteSet(S)
  <2>1. IsFiniteSet(Snaps \cup {NoSnap})
    <3>1. 0 \in Int /\ MaxSnap \in Int
      BY <1>1
    <3>2. IsFiniteSet(0 .. MaxSnap)
      BY <3>1, FS_Interval
    <3>3. Snaps \cup {NoSnap} = 0 .. MaxSnap
      BY <1>1 DEF Snaps, NoSnap
    <3> QED
      BY <3>2, <3>3
  <2> QED
    BY <2>1, FS_Subset
<1>3. Laters \subseteq SUBSET S /\ Laters # {}
  <2>1. PICK w \in S : TRUE
    OBVIOUS
  <2>2. Later(w) \in Laters
    OBVIOUS
  <2> QED
    BY <2>2
<1>4. PICK L \in Laters : \A K \in Laters : ~ (<<K, L>> \in StrictSubsetOrdering(S))
  <2> HIDE DEF Laters, Later
  <2>1. FiniteSubsetsOf(S) = SUBSET S
    BY <1>2, FS_FiniteSubsetsOfFinite
  <2>2. IsWellFoundedOn(StrictSubsetOrdering(S), SUBSET S)
    BY <2>1, FS_StrictSubsetOrderingWellFounded
  <2> QED
    BY <1>3, <2>2, WFMin
<1>5. PICK u \in S : L = Later(u)
  OBVIOUS
<1>6. \A v \in S : u >= v
  <2> SUFFICES ASSUME NEW v \in S, v > u
               PROVE  FALSE
    BY <1>1
  <2>1. Later(v) \in Laters
    OBVIOUS
  <2>2. Later(v) \subseteq Later(u) /\ v \in Later(u) /\ v \notin Later(v)
    <3>1. v \in Later(u) /\ v \notin Later(v)
      BY <1>1
    <3>2. ASSUME NEW x \in Later(v) PROVE x \in Later(u)
      <4>1. x \in S /\ x > v /\ v > u
        OBVIOUS
      <4>2. x \in Int /\ v \in Int /\ u \in Int
        BY <1>1, <4>1
      <4> QED
        BY <4>1, <4>2
    <3> HIDE DEF Later, Laters
    <3> QED
      BY <3>1, <3>2
  <2> QED
    BY <1>3, <1>4, <1>5, <2>1, <2>2 DEF StrictSubsetOrdering
<1> QED
  BY <1>6

\* The newest of a set of snapshots is one of them, and none is newer.
LEMMA NewestIsLatest ==
    ASSUME NEW S \in SUBSET (Snaps \cup {NoSnap}), S # {}
    PROVE  Newest(S) \in S /\ \A v \in S : Newest(S) >= v
<1>1. \E u \in S : \A v \in S : u >= v
  BY LatestExists
<1>2. Max(S) \in S /\ \A v \in S : Max(S) >= v
  BY <1>1 DEF Max
<1> QED
  BY <1>2 DEF Newest

LEMMA NewestTyped ==
    ASSUME NEW S \in SUBSET (Snaps \cup {NoSnap})
    PROVE  Newest(S) \in Snaps \cup {NoSnap}
<1>1. CASE S = {}
  BY <1>1 DEF Newest
<1>2. CASE S # {}
  BY <1>2, NewestIsLatest
<1> QED
  BY <1>1, <1>2

\* ... and so is the oldest.
LEMMA MinIsOldest ==
    ASSUME NEW S \in SUBSET Snaps, S # {}
    PROVE  Min(S) \in S /\ \A v \in S : Min(S) <= v
<1> DEFINE ages == {MaxSnap - s : s \in S}
<1>1. MaxSnap \in Nat /\ \A s \in S : s \in Int /\ 1 <= s /\ s <= MaxSnap
  BY SnapAssumption DEF Snaps
<1>2. ages \in SUBSET (Snaps \cup {NoSnap}) /\ ages # {}
  <2>1. ASSUME NEW s \in S PROVE MaxSnap - s \in Snaps \cup {NoSnap}
    BY <1>1, SMT DEF Snaps, NoSnap
  <2>2. ages \subseteq Snaps \cup {NoSnap}
    BY <2>1
  <2>3. PICK s \in S : TRUE
    OBVIOUS
  <2> QED
    BY <2>2, <2>3
<1>3. \E u \in ages : \A v \in ages : u >= v
  <2> HIDE DEF ages
  <2> QED
    BY <1>2, LatestExists
<1>4. PICK s \in S : \A v \in ages : MaxSnap - s >= v
  BY <1>3
<1>5. ASSUME NEW t \in S PROVE s <= t
  <2>1. MaxSnap - s >= MaxSnap - t
    BY <1>4
  <2> QED
    BY <1>1, <2>1
<1> QED
  BY <1>5 DEF Min

\* The fields a run edits in its plan stay what they are.
LEMMA PlanEdits ==
    ASSUME NEW p \in Plan
    PROVE  /\ [p EXCEPT !.create = FALSE] \in Plan
           /\ \A S \in SUBSET Snaps : [p EXCEPT !.localDel = S] \in Plan
           /\ \A d \in Drives, S \in SUBSET Snaps : [p EXCEPT !.extDel[d] = S] \in Plan
           /\ p.snap \in Snaps \cup {NoSnap} /\ p.at \in Snaps \cup {NoSnap}
           /\ p.localDel \in SUBSET Snaps
           /\ \A d \in Drives : /\ p.extDel[d] \in SUBSET Snaps
                                /\ p.parent[d] \in Snaps \cup {NoSnap}
BY DEF Plan

\* From its first plan on, a run carries the instant it started at.
Dated == \A r \in Runs : pc[r] # "idle" => plan[r].at \in Snaps

LEMMA NothingTyped == NoPlan \in Plan /\ NoAccount \in Account
BY DEF NoPlan, NoAccount, Plan, Account

\* The planner makes plans.
LEMMA MadePlan ==
    ASSUME TypeOK, NEW r \in Runs, NEW at \in Snaps \cup {NoSnap},
           NEW tier \in {"roomy", "tight", "critical"}, NEW away \in SUBSET Drives,
           MakePlan(r, at, tier, away)
    PROVE  /\ plan' \in [Runs -> Plan] /\ \A q \in Runs \ {r} : plan'[q] = plan[q]
           /\ plan'[r].at = at
<1> DEFINE have(create, lost) == SeenLocal(lost) \cup (IF create THEN {at} ELSE {})
<1>1. PICK create \in BOOLEAN, lost \in Losses :
        \E sendTo \in SUBSET Sendable(Newest(have(create, lost)), lost),
           localDel \in SUBSET (SeenLocal(lost) \ Protected(tier, SeenLocal(lost))),
           extDel \in {f \in [Drives -> SUBSET Snaps] :
                         \A d \in Drives :
                           f[d] \subseteq Expirable(tier, Newest(have(create, lost)), lost)[d]} :
          \E gated \in SUBSET (sendTo \cap Gateable(ParentsIn(have(create, lost), lost))) :
            plan' = [plan EXCEPT ![r] =
              [at |-> at, tier |-> tier, away |-> away, create |-> create,
               snap |-> Newest(have(create, lost)), sendTo |-> sendTo, gated |-> gated,
               parent |-> ParentsIn(have(create, lost), lost),
               localDel |-> localDel, extDel |-> extDel]]
  BY DEF MakePlan
<1> DEFINE snap == Newest(have(create, lost))
           parent == ParentsIn(have(create, lost), lost)
<1>2. local \in SUBSET Snaps /\ mounted \in SUBSET Drives /\ plan \in [Runs -> Plan]
  BY DEF TypeOK
<1>3. have(create, lost) \in SUBSET (Snaps \cup {NoSnap}) /\ SeenLocal(lost) \in SUBSET Snaps
  BY <1>2 DEF SeenLocal
<1>4. snap \in Snaps \cup {NoSnap}
  BY <1>3, NewestTyped
<1>5. parent \in [Drives -> Snaps \cup {NoSnap}]
  BY DEF ParentsIn, ListedOn, OnDrive
<1>6. Sendable(snap, lost) \in SUBSET Drives
  BY <1>2 DEF Sendable
<1> HIDE DEF snap, parent, have
<1>7. \E p \in Plan : p.at = at /\ plan' = [plan EXCEPT ![r] = p]
  <2>1. PICK sendTo \in SUBSET Sendable(snap, lost), localDel \in SUBSET SeenLocal(lost),
             extDel \in [Drives -> SUBSET Snaps] :
          \E gated \in SUBSET sendTo :
            plan' = [plan EXCEPT ![r] =
              [at |-> at, tier |-> tier, away |-> away, create |-> create,
               snap |-> snap, sendTo |-> sendTo, gated |-> gated,
               parent |-> parent, localDel |-> localDel, extDel |-> extDel]]
    BY <1>1 DEF snap, parent
  <2>2. PICK gated \in SUBSET sendTo :
            plan' = [plan EXCEPT ![r] =
              [at |-> at, tier |-> tier, away |-> away, create |-> create,
               snap |-> snap, sendTo |-> sendTo, gated |-> gated,
               parent |-> parent, localDel |-> localDel, extDel |-> extDel]]
    BY <2>1
  <2>3. [at |-> at, tier |-> tier, away |-> away, create |-> create,
         snap |-> snap, sendTo |-> sendTo, gated |-> gated,
         parent |-> parent, localDel |-> localDel, extDel |-> extDel] \in Plan
    BY <1>3, <1>4, <1>5, <1>6 DEF Plan
  <2> QED
    BY <2>2, <2>3
<1> QED
  BY <1>2, <1>7

\* The steps of a run but its sends and deletes, in three groups.
Edges(r) ==
    \/ \E tier \in Tiers : PlanRun(r, tier)
    \/ \E thinned \in SUBSET Snaps : EmergencyPreflight(r, thinned)
    \/ \E shed \in SUBSET Drives : ShedAwayPins(r, shed)
    \/ \E d \in Drives : Unpin(r, d)

Turns(r) ==
    \/ AcquireLock(r) \/ Replan(r) \/ NothingPlanned(r) \/ CreateSnapshot(r) \/ CreateFails(r)
    \/ EndOps(r) \/ StopEarly(r) \/ Cleanup(r) \/ UnpinFails(r) \/ UnpinDone(r) \/ EndClean(r)

Ends(r) == LockBusy(r) \/ Release(r) \/ Crash(r)

LEMMA RunSteps ==
    ASSUME NEW r \in Runs, Run(r) \/ Crash(r)
    PROVE  Edges(r) \/ Turns(r) \/ Ends(r) \/ Delete(r) \/ \E d \in Drives : Send(r, d)
<1>1. CASE Crash(r)
  BY <1>1 DEF Ends
<1>2. CASE Run(r)
  <2>1. \/ \E tier \in Tiers : PlanRun(r, tier)
        \/ \E thinned \in SUBSET Snaps : EmergencyPreflight(r, thinned)
        \/ \E shed \in SUBSET Drives : ShedAwayPins(r, shed)
        \/ \E d \in Drives : Send(r, d) \/ Unpin(r, d)
        \/ Turns(r) \/ LockBusy(r) \/ Release(r) \/ Delete(r)
    BY <1>2 DEF Run, Turns
  <2> QED
    BY <2>1 DEF Edges, Ends
<1> QED
  BY <1>1, <1>2

\* Every plan a run makes or edits is a plan, and it touches no other run's.
LEMMA PlansTyped ==
    ASSUME TypeOK, NEW r \in Runs, Run(r) \/ Crash(r)
    PROVE  plan' \in [Runs -> Plan] /\ \A q \in Runs \ {r} : plan'[q] = plan[q]
<1>1. plan \in [Runs -> Plan] /\ plan[r] \in Plan /\ now \in Snaps /\ local \in SUBSET Snaps
  BY DEF TypeOK
<1> SUFFICES \/ UNCHANGED plan
             \/ \E p \in Plan : plan' = [plan EXCEPT ![r] = p]
             \/ plan' \in [Runs -> Plan] /\ \A q \in Runs \ {r} : plan'[q] = plan[q]
  BY <1>1
<1>2. CASE \E tier \in Tiers : PlanRun(r, tier)
  <2>1. AwayOnly \in SUBSET Drives /\ Tiers \subseteq {"roomy", "tight", "critical"}
    BY TierAssumption DEF AwayOnly
  <2> QED
    BY <1>1, <1>2, <2>1, MadePlan DEF PlanRun
<1>3. CASE Replan(r)
  <2>1. /\ plan[r].at \in Snaps \cup {NoSnap} /\ plan[r].away \in SUBSET Drives
        /\ plan[r].tier \in {"roomy", "tight", "critical"}
    BY <1>1 DEF Plan
  <2>2. MakePlan(r, plan[r].at, plan[r].tier, plan[r].away)
    BY <1>3 DEF Replan
  <2>3. plan' \in [Runs -> Plan] /\ \A q \in Runs \ {r} : plan'[q] = plan[q]
    BY <2>1, <2>2, MadePlan
  <2> QED
    BY <2>3
<1>4. CASE LockBusy(r) \/ Release(r) \/ Crash(r)
  BY <1>4, NothingTyped DEF LockBusy, Release, Crash, Forget
<1>5. CASE CreateSnapshot(r) \/ CreateFails(r)
  BY <1>1, <1>5, PlanEdits DEF CreateSnapshot, CreateFails
<1>6. CASE \E s \in Snaps : DropLocal(r, s)
  <2>1. PICK s \in Snaps : plan' = [plan EXCEPT ![r].localDel = @ \ {s}]
    BY <1>6 DEF DropLocal
  <2>2. plan[r].localDel \ {s} \in SUBSET Snaps
    BY <1>1, PlanEdits
  <2> QED
    BY <1>1, <2>1, <2>2, PlanEdits
<1>7. CASE DeleteLocal(r)
  <2>1. plan[r].localDel \ {acc[r].target} \in SUBSET Snaps
    BY <1>1, PlanEdits
  <2> QED
    BY <1>1, <1>7, <2>1, PlanEdits DEF DeleteLocal
<1>8. CASE \E d \in Drives : DeleteExt(r, d) \/ \E s \in Snaps : DropExt(r, d, s)
  <2>1. PICK d \in Drives, s \in Snaps \cup {acc[r].target} :
          plan' = [plan EXCEPT ![r].extDel[d] = @ \ {s}]
    BY <1>8 DEF DeleteExt, DropExt
  <2>2. plan[r].extDel[d] \ {s} \in SUBSET Snaps
    BY <1>1, PlanEdits
  <2> QED
    BY <1>1, <2>1, <2>2, PlanEdits
<1>9. CASE StopEarly(r)
  <2>1. NoPlan.extDel \in [Drives -> SUBSET Snaps]
    BY DEF NoPlan
  <2>2. [plan[r] EXCEPT !.create = FALSE, !.localDel = {}, !.extDel = NoPlan.extDel] \in Plan
    BY <1>1, <2>1 DEF Plan
  <2> QED
    BY <1>9, <2>2 DEF StopEarly
<1>10. CASE Cleanup(r) \/ UnpinFails(r)
  <2>1. CleanupTargets(r) \in SUBSET Snaps
    BY <1>1 DEF CleanupTargets
  <2> QED
    BY <1>1, <1>10, <2>1, PlanEdits DEF Cleanup, UnpinFails
<1>11. CASE AcquireLock(r) \/ NothingPlanned(r) \/ EndOps(r) \/ UnpinDone(r) \/ EndClean(r)
            \/ \E thinned \in SUBSET Snaps : EmergencyPreflight(r, thinned)
            \/ \E shed \in SUBSET Drives : ShedAwayPins(r, shed)
            \/ \E d \in Drives : Unpin(r, d)
  BY <1>11 DEF AcquireLock, NothingPlanned, EndOps, UnpinDone, EndClean, EmergencyPreflight,
              ShedAwayPins, Unpin
<1>12. CASE \E d \in Drives : Send(r, d)
  <2>1. PICK d \in Drives : Send(r, d)
    BY <1>12
  <2>2. CASE SkipSend(r, d) \/ SendFails(r, d) \/ AlreadySent(r, d) \/ FindComplete(r, d)
             \/ FindPartial(r, d) \/ DeletePartial(r, d) \/ StartReceiveBlind(r, d)
    BY <2>2 DEF SkipSend, SendFails, AlreadySent, FindComplete, FindPartial, DeletePartial,
                StartReceiveBlind
  <2>3. CASE \/ \E swept \in SUBSET Snaps : StartReceive(r, d, swept)
             \/ ReceiveSucceeds(r, d)
             \/ \E left \in {"none", "partial", "complete"} :
                   ReceiveFails(r, d, left) \/ ClobberFails(r, d, left)
    BY <2>3 DEF StartReceive, ReceiveSucceeds, ReceiveFails, ClobberFails
  <2>4. CASE WritePin(r, d) \/ WritePinFails(r, d)
    BY <2>4 DEF WritePin, WritePinFails
  <2> QED
    BY <2>1, <2>2, <2>3, <2>4 DEF Send
<1>13. CASE Delete(r)
  <2>1. CASE \E s \in Snaps : CheckLocal(r, s)
    BY <2>1 DEF CheckLocal
  <2>2. CASE \E d \in Drives, s \in Snaps : CheckExt(r, d, s)
    BY <2>2 DEF CheckExt
  <2> QED
    BY <1>6, <1>7, <1>8, <1>13, <2>1, <2>2 DEF Delete
<1> QED
  BY <1>2, <1>3, <1>4, <1>5, <1>10, <1>9, <1>11, <1>12, <1>13 DEF Run

LEMMA AccountEdits ==
    ASSUME NEW a \in Account
    PROVE  /\ \A s \in Snaps \cup {NoSnap} : [a EXCEPT !.target = s] \in Account
           /\ [a EXCEPT !.createFailed = TRUE] \in Account
           /\ a.target \in Snaps \cup {NoSnap}
           /\ a.tried \in SUBSET Drives /\ a.succ \in SUBSET Drives /\ a.old \in SUBSET Snaps
BY DEF Account

\* The outcome of a send is entered.
LEMMA Settled ==
    ASSUME TypeOK, NEW r \in Runs, NEW d \in Drives, Settle(r, d, TRUE) \/ Settle(r, d, FALSE)
    PROVE  \E a \in Account : acc' = [acc EXCEPT ![r] = a]
<1>1. acc[r] \in Account
  BY DEF TypeOK
<1>2. acc[r].tried \cup {d} \in SUBSET Drives /\ acc[r].succ \cup {d} \in SUBSET Drives
  BY <1>1, AccountEdits
<1>3. acc[r].old \cup ({plan[r].parent[d]} \cap Snaps) \in SUBSET Snaps
  BY <1>1, AccountEdits
<1>4. CASE Settle(r, d, TRUE)
  <2> DEFINE a == [acc[r] EXCEPT !.tried = @ \cup {d}, !.succ = @ \cup {d},
                                 !.old = @ \cup ({plan[r].parent[d]} \cap Snaps)]
  <2>1. acc' = [acc EXCEPT ![r] = a]
    BY <1>4 DEF Settle
  <2>2. a \in Account
    BY <1>1, <1>2, <1>3 DEF Account
  <2> QED
    BY <2>1, <2>2
<1>5. CASE Settle(r, d, FALSE)
  <2> DEFINE a == [acc[r] EXCEPT !.tried = @ \cup {d}, !.succ = @, !.old = @]
  <2>1. acc' = [acc EXCEPT ![r] = a]
    BY <1>5 DEF Settle
  <2>2. a \in Account
    BY <1>1, <1>2 DEF Account
  <2> QED
    BY <2>1, <2>2
<1> QED
  BY <1>4, <1>5

\* The bookkeeping stays typed, and is a run's own.
LEMMA AccountsTyped ==
    ASSUME TypeOK, NEW r \in Runs, Run(r) \/ Crash(r)
    PROVE  acc' \in [Runs -> Account] /\ \A q \in Runs \ {r} : acc'[q] = acc[q]
<1>1. acc \in [Runs -> Account] /\ acc[r] \in Account /\ plan[r] \in Plan
  BY DEF TypeOK
<1> SUFFICES \/ UNCHANGED acc
             \/ \E a \in Account : acc' = [acc EXCEPT ![r] = a]
  BY <1>1
<1>2. CASE LockBusy(r) \/ Release(r) \/ Crash(r)
  BY <1>2, NothingTyped DEF LockBusy, Release, Crash, Forget
<1>3. CASE CreateFails(r)
  BY <1>1, <1>3, AccountEdits DEF CreateFails
<1>4. CASE Delete(r)
  <2>1. NoSnap \in Snaps \cup {NoSnap}
    OBVIOUS
  <2>2. CASE DeleteLocal(r)
    BY <1>1, <2>1, <2>2, AccountEdits DEF DeleteLocal
  <2>3. CASE \E s \in Snaps : CheckLocal(r, s) \/ DropLocal(r, s)
    BY <1>1, <2>3, AccountEdits DEF CheckLocal, DropLocal
  <2>4. CASE \E d \in Drives : DeleteExt(r, d) \/ \E s \in Snaps : CheckExt(r, d, s) \/ DropExt(r, d, s)
    <3>1. CASE \E d \in Drives : DeleteExt(r, d)
      BY <1>1, <2>1, <3>1, AccountEdits DEF DeleteExt
    <3>2. CASE \E d \in Drives, s \in Snaps : CheckExt(r, d, s) \/ DropExt(r, d, s)
      BY <1>1, <3>2, AccountEdits DEF CheckExt, DropExt
    <3> QED
      BY <2>4, <3>1, <3>2
  <2> QED
    BY <1>4, <2>2, <2>3, <2>4 DEF Delete
<1>5. CASE \E d \in Drives : Send(r, d)
  <2>1. PICK d \in Drives : Send(r, d)
    BY <1>5
  <2>2. CASE SkipSend(r, d) \/ SendFails(r, d) \/ AlreadySent(r, d) \/ DeletePartial(r, d) \/ WritePin(r, d)
             \/ \E left \in {"none", "partial", "complete"} :
                   ReceiveFails(r, d, left) \/ ClobberFails(r, d, left)
    BY <2>2, Settled DEF SkipSend, SendFails, AlreadySent, DeletePartial, WritePin, ReceiveFails,
                         ClobberFails
  <2>3. CASE WritePinFails(r, d)
    <3> DEFINE a == [acc[r] EXCEPT !.tried = @ \cup {d}, !.succ = @ \cup {d},
                                   !.old = @ \cup ({plan[r].parent[d]} \cap Snaps),
                                   !.pinFailed = TRUE]
    <3>1. acc' = [acc EXCEPT ![r] = a]
      BY <2>3 DEF WritePinFails
    <3>2. a \in Account
      <4>1. /\ acc[r].tried \cup {d} \in SUBSET Drives /\ acc[r].succ \cup {d} \in SUBSET Drives
            /\ acc[r].old \cup ({plan[r].parent[d]} \cap Snaps) \in SUBSET Snaps
        BY <1>1, AccountEdits
      <4> QED
        BY <1>1, <4>1 DEF Account
    <3> QED
      BY <3>1, <3>2
  <2>4. CASE FindComplete(r, d) \/ FindPartial(r, d) \/ StartReceiveBlind(r, d) \/ ReceiveSucceeds(r, d)
             \/ \E swept \in SUBSET Snaps : StartReceive(r, d, swept)
    BY <2>4 DEF FindComplete, FindPartial, StartReceiveBlind, ReceiveSucceeds, StartReceive
  <2> QED
    BY <2>1, <2>2, <2>3, <2>4 DEF Send
<1>6. CASE Turns(r) \/ Edges(r)
  <2>1. CASE Turns(r) /\ ~CreateFails(r)
    BY <2>1 DEF Turns, AcquireLock, NothingPlanned, EndOps, UnpinDone, EndClean, Replan,
                CreateSnapshot, StopEarly, Cleanup, UnpinFails
  <2>2. CASE Edges(r)
    BY <2>2 DEF Edges, PlanRun, EmergencyPreflight, ShedAwayPins, Unpin
  <2> QED
    BY <1>3, <1>6, <2>1, <2>2
<1> QED
  BY <1>2, <1>4, <1>5, <1>6, RunSteps DEF Ends

\* So do the program counters.
LEMMA PointsTyped ==
    ASSUME TypeOK, NEW r \in Runs, Run(r) \/ Crash(r)
    PROVE  pc' \in [Runs -> Points] /\ \A q \in Runs \ {r} : pc'[q] = pc[q]
<1>1. pc \in [Runs -> Points]
  BY DEF TypeOK
<1> SUFFICES UNCHANGED pc \/ \E point \in Points : Go(r, point)
  BY <1>1 DEF Go
<1>2. CASE \E d \in Drives : Send(r, d)
  <2>1. PICK d \in Drives : Send(r, d)
    BY <1>2
  <2>2. CASE SkipSend(r, d) \/ SendFails(r, d) \/ AlreadySent(r, d) \/ FindComplete(r, d)
             \/ FindPartial(r, d) \/ DeletePartial(r, d) \/ StartReceiveBlind(r, d)
    BY <2>2 DEF SkipSend, SendFails, AlreadySent, FindComplete, FindPartial, DeletePartial,
                StartReceiveBlind, Points
  <2>3. CASE \/ \E swept \in SUBSET Snaps : StartReceive(r, d, swept)
             \/ ReceiveSucceeds(r, d)
             \/ \E left \in {"none", "partial", "complete"} :
                   ReceiveFails(r, d, left) \/ ClobberFails(r, d, left)
    BY <2>3 DEF StartReceive, ReceiveSucceeds, ReceiveFails, ClobberFails, Points
  <2>4. CASE WritePin(r, d) \/ WritePinFails(r, d)
    BY <2>4 DEF WritePin, WritePinFails, Points
  <2> QED
    BY <2>1, <2>2, <2>3, <2>4 DEF Send
<1>3. CASE Delete(r)
  BY <1>3 DEF Delete, DeleteLocal, DeleteExt, CheckLocal, CheckExt, DropLocal, DropExt, Points
<1>4. CASE Turns(r)
  BY <1>4 DEF Turns, AcquireLock, NothingPlanned, EndOps, UnpinDone, EndClean, Replan,
              CreateSnapshot, CreateFails, StopEarly, Cleanup, UnpinFails, Points
<1>5. CASE Edges(r)
  BY <1>5 DEF Edges, PlanRun, EmergencyPreflight, ShedAwayPins, Unpin, Points
<1>6. CASE Ends(r)
  BY <1>6 DEF Ends, LockBusy, Release, Crash, Forget, Points
<1> QED
  BY <1>2, <1>3, <1>4, <1>5, <1>6, RunSteps

\* Copies stay absent, partial or complete.
LEMMA CopiesTyped ==
    ASSUME TypeOK, NEW r \in Runs, Run(r) \/ Crash(r)
    PROVE  ext' \in [Drives -> [Snaps -> {"none", "partial", "complete"}]]
<1> DEFINE Kinds == {"none", "partial", "complete"}
<1>1. ext \in [Drives -> [Snaps -> Kinds]]
  BY DEF TypeOK
<1> SUFFICES \/ UNCHANGED ext
             \/ \E d \in Drives, s \in Snaps \cup {NoSnap}, k \in Kinds : ext' = [ext EXCEPT ![d][s] = k]
             \/ \E d \in Drives, row \in [Snaps -> Kinds] : ext' = [ext EXCEPT ![d] = row]
  BY <1>1
<1>2. plan[r].snap \in Snaps \cup {NoSnap} /\ acc[r].target \in Snaps \cup {NoSnap}
  BY PlanEdits, AccountEdits DEF TypeOK
<1>3. CASE \E d \in Drives : Send(r, d)
  <2>1. PICK d \in Drives : Send(r, d)
    BY <1>3
  <2>2. CASE SkipSend(r, d) \/ SendFails(r, d) \/ AlreadySent(r, d) \/ FindComplete(r, d)
             \/ FindPartial(r, d) \/ StartReceiveBlind(r, d) \/ WritePin(r, d) \/ WritePinFails(r, d)
    BY <2>2 DEF SkipSend, SendFails, AlreadySent, FindComplete, FindPartial, StartReceiveBlind,
                WritePin, WritePinFails, disk
  <2>3. CASE DeletePartial(r, d) \/ ReceiveSucceeds(r, d)
    BY <1>2, <2>3 DEF DeletePartial, ReceiveSucceeds
  <2>4. CASE \E left \in Kinds : ReceiveFails(r, d, left) \/ ClobberFails(r, d, left)
    BY <1>2, <2>4 DEF ReceiveFails, ClobberFails
  <2>5. CASE \E swept \in SUBSET Snaps : StartReceive(r, d, swept)
    <3>1. PICK swept \in SUBSET Snaps :
            ext' = [ext EXCEPT ![d] = [s \in Snaps |->
                      IF s = plan[r].snap THEN "partial"
                      ELSE IF s \in swept THEN "none" ELSE ext[d][s]]]
      BY <1>1, <2>5 DEF StartReceive
    <3>2. [s \in Snaps |-> IF s = plan[r].snap THEN "partial"
                           ELSE IF s \in swept THEN "none" ELSE ext[d][s]] \in [Snaps -> Kinds]
      BY <1>1
    <3> QED
      BY <3>1, <3>2
  <2> QED
    BY <2>1, <2>2, <2>3, <2>4, <2>5 DEF Send
<1>4. CASE Delete(r)
  <2>1. CASE \E d \in Drives : DeleteExt(r, d)
    BY <1>2, <2>1 DEF DeleteExt
  <2>2. CASE \/ DeleteLocal(r)
             \/ \E s \in Snaps : CheckLocal(r, s) \/ DropLocal(r, s)
             \/ \E d \in Drives, s \in Snaps : CheckExt(r, d, s) \/ DropExt(r, d, s)
    BY <2>2 DEF DeleteLocal, CheckLocal, DropLocal, CheckExt, DropExt, disk
  <2> QED
    BY <1>4, <2>1, <2>2 DEF Delete
<1>5. CASE Turns(r)
  BY <1>5 DEF Turns, AcquireLock, NothingPlanned, EndOps, UnpinDone, EndClean, Replan,
              CreateSnapshot, CreateFails, StopEarly, Cleanup, UnpinFails, disk
<1>6. CASE Edges(r)
  BY <1>6 DEF Edges, PlanRun, EmergencyPreflight, ShedAwayPins, Unpin, disk
<1>7. CASE Ends(r)
  BY <1>2, <1>7 DEF Ends, LockBusy, Release, Crash, disk
<1> QED
  BY <1>3, <1>4, <1>5, <1>6, <1>7, RunSteps

\* The local directory and the pins stay typed; the clock and the drives are
\* not a run's to change.
LEMMA LocalTyped ==
    ASSUME TypeOK, Dated, NEW r \in Runs, Run(r) \/ Crash(r)
    PROVE  /\ local' \in SUBSET Snaps
           /\ pin' \in [Drives -> Snaps \cup {NoSnap, BadPin}]
           /\ UNCHANGED world
           /\ lock' \in Runs \cup {NoRun}
<1>1. /\ local \in SUBSET Snaps /\ pin \in [Drives -> Snaps \cup {NoSnap, BadPin}]
      /\ lock \in Runs \cup {NoRun} /\ plan[r] \in Plan
      /\ plan[r].snap \in Snaps \cup {NoSnap} /\ plan[r].at \in Snaps \cup {NoSnap}
  BY PlanEdits DEF TypeOK
<1> SUFFICES /\ local' \in SUBSET Snaps
             /\ pin' \in [Drives -> Snaps \cup {NoSnap, BadPin}]
             /\ UNCHANGED world /\ lock' \in {lock, r, NoRun}
  BY <1>1
<1>2. CASE \E d \in Drives : Send(r, d)
  <2>1. PICK d \in Drives : Send(r, d)
    BY <1>2
  <2>2. CASE SkipSend(r, d) \/ SendFails(r, d) \/ AlreadySent(r, d) \/ FindComplete(r, d)
             \/ FindPartial(r, d) \/ StartReceiveBlind(r, d) \/ DeletePartial(r, d)
    BY <1>1, <2>2 DEF SkipSend, SendFails, AlreadySent, FindComplete, FindPartial,
                      StartReceiveBlind, DeletePartial, disk
  <2>3. CASE \/ \E swept \in SUBSET Snaps : StartReceive(r, d, swept)
             \/ ReceiveSucceeds(r, d)
             \/ \E left \in {"none", "partial", "complete"} :
                   ReceiveFails(r, d, left) \/ ClobberFails(r, d, left)
    BY <1>1, <2>3 DEF StartReceive, ReceiveSucceeds, ReceiveFails, ClobberFails
  <2>4. CASE WritePin(r, d) \/ WritePinFails(r, d)
    BY <1>1, <2>4 DEF WritePin, WritePinFails, disk
  <2> QED
    BY <2>1, <2>2, <2>3, <2>4 DEF Send
<1>3. CASE Delete(r)
  BY <1>1, <1>3 DEF Delete, DeleteLocal, DeleteExt, CheckLocal, DropLocal, CheckExt, DropExt, disk
<1>4. CASE Turns(r)
  <2>1. CASE CreateSnapshot(r)
    <3>1. plan[r].at \in Snaps
      BY <2>1 DEF CreateSnapshot, Dated
    <3> QED
      BY <1>1, <2>1, <3>1 DEF CreateSnapshot
  <2>2. CASE Turns(r) /\ ~CreateSnapshot(r)
    BY <1>1, <2>2 DEF Turns, AcquireLock, NothingPlanned, EndOps, UnpinDone, EndClean, Replan,
                      CreateFails, StopEarly, Cleanup, UnpinFails, disk
  <2> QED
    BY <1>4, <2>1, <2>2
<1>5. CASE Edges(r)
  BY <1>1, <1>5 DEF Edges, PlanRun, EmergencyPreflight, ShedAwayPins, Unpin, disk
<1>6. CASE Ends(r)
  BY <1>1, <1>6 DEF Ends, LockBusy, Release, Crash, disk
<1> QED
  BY <1>2, <1>3, <1>4, <1>5, <1>6, RunSteps

LEMMA DatesKept ==
    ASSUME TypeOK, Dated, NEW r \in Runs, Run(r) \/ Crash(r)
    PROVE  Dated'
<1>1. /\ plan \in [Runs -> Plan] /\ pc \in [Runs -> Points] /\ now \in Snaps
      /\ plan[r].at \in Snaps \cup {NoSnap} /\ plan[r].away \in SUBSET Drives
      /\ plan[r].tier \in {"roomy", "tight", "critical"}
  BY DEF TypeOK, Plan
<1> SUFFICES pc'[r] # "idle" => plan'[r].at \in Snaps
  BY PlansTyped, PointsTyped DEF Dated
<1>2. CASE Ends(r)
  BY <1>1, <1>2 DEF Ends, LockBusy, Release, Crash, Forget, Go
<1>3. CASE \E tier \in Tiers : PlanRun(r, tier)
  <2>1. AwayOnly \in SUBSET Drives /\ Tiers \subseteq {"roomy", "tight", "critical"}
    BY TierAssumption DEF AwayOnly
  <2> QED
    BY <1>1, <1>3, <2>1, MadePlan DEF PlanRun
<1>4. CASE Replan(r)
  BY <1>1, <1>4, MadePlan DEF Replan, Dated
<1>5. CASE plan'[r].at = plan[r].at /\ pc[r] # "idle"
  BY <1>5 DEF Dated
<1>6. CASE \E d \in Drives : Send(r, d)
  <2>1. PICK d \in Drives : Send(r, d)
    BY <1>6
  <2>2. UNCHANGED plan
    BY <2>1 DEF Send, SkipSend, SendFails, AlreadySent, FindComplete, FindPartial, DeletePartial,
                StartReceiveBlind, StartReceive, ReceiveSucceeds, ReceiveFails, ClobberFails,
                WritePin, WritePinFails
  <2>3. pc[r] # "idle"
    <3>1. AtSend(r, d) \/ AtExisting(r, d) \/ SendTurn(r, d) => pc[r] \in {"ops", "free"}
      BY DEF AtSend, AtExisting, SendTurn, DriveTurn
    <3> QED
      BY <2>1, <3>1 DEF Send, SkipSend, SendFails, AlreadySent, FindComplete, FindPartial,
           DeletePartial, StartReceiveBlind, StartReceive, CanFinalize, ReceiveSucceeds, ReceiveFails,
           ClobberFails, WritePin, WritePinFails
  <2> QED
    BY <1>5, <2>2, <2>3
<1>7. CASE Delete(r)
  <2>1. pc[r] # "idle"
    BY <1>7 DEF Delete, DeleteLocal, DeleteExt, CheckLocal, DropLocal, CheckExt, DropExt, LocalTurn,
                ExtTurn, DriveTurn
  <2>2. plan'[r].at = plan[r].at
    BY <1>1, <1>7 DEF Delete, DeleteLocal, DeleteExt, CheckLocal, DropLocal, CheckExt, DropExt, Plan
  <2> QED
    BY <1>5, <2>1, <2>2
<1>8. CASE Turns(r)
  <2>1. pc[r] # "idle"
    BY <1>8 DEF Turns, AcquireLock, NothingPlanned, EndOps, UnpinDone, EndClean, Replan,
                CreateSnapshot, CreateFails, StopEarly, Cleanup, UnpinFails
  <2>2. CASE ~Replan(r)
    <3>1. plan'[r].at = plan[r].at
      BY <1>1, <1>8, <2>2 DEF Turns, AcquireLock, NothingPlanned, EndOps, UnpinDone, EndClean,
                  CreateSnapshot, CreateFails, StopEarly, Cleanup, UnpinFails, Plan
    <3> QED
      BY <1>5, <2>1, <3>1
  <2> QED
    BY <1>4, <2>2
<1>9. CASE Edges(r) /\ ~\E tier \in Tiers : PlanRun(r, tier)
  BY <1>5, <1>9 DEF Edges, EmergencyPreflight, ShedAwayPins, Unpin
<1> QED
  BY <1>2, <1>3, <1>6, <1>7, <1>8, <1>9, RunSteps

(********************************* exclusion *******************************)

\* Whoever executes holds the lock.
Exclusion == \A r \in Runs : pc[r] \in Executing => lock = r

LEMMA ExclusionKept ==
    ASSUME TypeOK, Exclusion, NEW r \in Runs, Run(r) \/ Crash(r)
    PROVE  Exclusion'
<1>1. pc \in [Runs -> Points] /\ pc' \in [Runs -> Points] /\ \A q \in Runs \ {r} : pc'[q] = pc[q]
  BY PointsTyped DEF TypeOK
<1>2. CASE UNCHANGED lock /\ pc[r] \in Executing
  <2>1. lock = r /\ lock' = r
    BY <1>2 DEF Exclusion
  <2>2. \A q \in Runs : pc[q] \in Executing => q = r
    BY <2>1 DEF Exclusion
  <2> QED
    BY <1>1, <2>1, <2>2 DEF Exclusion
<1>3. CASE UNCHANGED lock /\ pc'[r] \notin Executing
  BY <1>1, <1>3 DEF Exclusion
<1>4. CASE AcquireLock(r)
  <2>1. lock = NoRun /\ lock' = r /\ \A q \in Runs : q # NoRun
    BY <1>4, RunAssumption DEF AcquireLock
  <2>2. \A q \in Runs : pc[q] \notin Executing
    BY <2>1 DEF Exclusion
  <2> QED
    BY <1>1, <2>1, <2>2 DEF Exclusion
<1>5. CASE Release(r) \/ Crash(r)
  <2>1. pc'[r] = "idle" /\ lock' = IF lock = r THEN NoRun ELSE lock
    <3>1. CASE Release(r)
      <4>1. lock = r
        BY <3>1 DEF Release, Exclusion, Executing, Points
      <4> QED
        BY <1>1, <3>1, <4>1 DEF Release, Forget, Go
    <3>2. CASE Crash(r)
      BY <1>1, <3>2 DEF Crash, Forget, Go
    <3> QED
      BY <1>5, <3>1, <3>2
  <2>2. ASSUME NEW q \in Runs, pc'[q] \in Executing PROVE lock' = q
    <3>1. q # r
      BY <2>1, <2>2 DEF Executing
    <3>2. lock = q
      BY <1>1, <2>2, <3>1 DEF Exclusion
    <3> QED
      BY <2>1, <3>1, <3>2
  <2> QED
    BY <2>2 DEF Exclusion
<1>6. CASE \E d \in Drives : Send(r, d)
  <2>1. PICK d \in Drives : Send(r, d)
    BY <1>6
  <2>2. UNCHANGED lock
    BY <2>1 DEF Send, SkipSend, SendFails, AlreadySent, FindComplete, FindPartial, DeletePartial,
                StartReceiveBlind, StartReceive, ReceiveSucceeds, ReceiveFails, ClobberFails,
                WritePin, WritePinFails
  <2>3. pc[r] \in {"ops", "free", "recovering", "receiving", "clobbering", "pinning"}
    <3>1. AtSend(r, d) \/ AtExisting(r, d) \/ SendTurn(r, d) => pc[r] \in {"ops", "free"}
      BY DEF AtSend, AtExisting, SendTurn, DriveTurn
    <3> QED
      BY <2>1, <3>1 DEF Send, SkipSend, SendFails, AlreadySent, FindComplete, FindPartial,
           DeletePartial, StartReceiveBlind, StartReceive, CanFinalize, ReceiveSucceeds, ReceiveFails,
           ClobberFails, WritePin, WritePinFails
  <2> QED
    BY <1>2, <2>2, <2>3 DEF Executing, Points
<1>7. CASE Delete(r)
  <2>1. UNCHANGED lock
    BY <1>7 DEF Delete, DeleteLocal, DeleteExt, CheckLocal, DropLocal, CheckExt, DropExt
  <2>2. pc[r] \in {"ops", "clean", "opsDelete", "cleanDelete", "extDelete"}
    BY <1>7 DEF Delete, DeleteLocal, DeleteExt, CheckLocal, DropLocal, CheckExt, DropExt, LocalTurn,
                ExtTurn, DriveTurn
  <2> QED
    BY <1>2, <2>1, <2>2 DEF Executing, Points
<1>8. CASE Turns(r) /\ ~AcquireLock(r)
  <2>1. UNCHANGED lock
    BY <1>8 DEF Turns, NothingPlanned, EndOps, UnpinDone, EndClean, Replan,
                CreateSnapshot, CreateFails, StopEarly, Cleanup, UnpinFails
  <2>2. pc[r] \in {"replan", "armed", "ops", "cleanup", "unpin", "clean"}
    BY <1>8 DEF Turns, NothingPlanned, EndOps, UnpinDone, EndClean, Replan,
                CreateSnapshot, CreateFails, StopEarly, Cleanup, UnpinFails
  <2> QED
    BY <1>2, <2>1, <2>2 DEF Executing, Points
<1>9. CASE Edges(r)
  <2>1. UNCHANGED lock
    BY <1>9 DEF Edges, PlanRun, EmergencyPreflight, ShedAwayPins, Unpin
  <2>2. CASE \E tier \in Tiers : PlanRun(r, tier)
    <3>1. pc'[r] = "planned"
      BY <1>1, <2>2 DEF PlanRun, Go
    <3> QED
      BY <1>3, <2>1, <3>1 DEF Executing
  <2>3. CASE ~\E tier \in Tiers : PlanRun(r, tier)
    <3>1. pc[r] \in {"locked", "armed", "unpin"}
      BY <1>9, <2>3 DEF Edges, EmergencyPreflight, ShedAwayPins, Unpin
    <3> QED
      BY <1>2, <2>1, <3>1 DEF Executing, Points
  <2> QED
    BY <2>2, <2>3
<1>10. CASE LockBusy(r)
  <2>1. UNCHANGED lock /\ pc'[r] = "idle"
    BY <1>1, <1>10 DEF LockBusy, Go
  <2> QED
    BY <1>3, <2>1 DEF Executing
<1> QED
  BY <1>4, <1>5, <1>6, <1>7, <1>8, <1>9, <1>10, RunSteps DEF Ends

\* While one run executes the others leave the disk, and the run, alone.
LEMMA OthersStandStill ==
    ASSUME TypeOK, Exclusion, NEW q \in Runs, pc[q] \in Executing,
           NEW r \in Runs \ {q}, Run(r) \/ Crash(r)
    PROVE  UNCHANGED disk /\ pc'[q] = pc[q] /\ plan'[q] = plan[q] /\ acc'[q] = acc[q]
<1>1. pc[r] \notin Executing /\ lock = q /\ pc[r] \in Points /\ lock # NoRun
  BY RunAssumption DEF Exclusion, TypeOK
<1>2. pc[r] \in {"idle", "planned"}
  BY <1>1 DEF Executing
<1> SUFFICES UNCHANGED disk
  BY PointsTyped, PlansTyped, AccountsTyped
<1>3. CASE \E d \in Drives : Send(r, d)
  <2>1. PICK d \in Drives : Send(r, d)
    BY <1>3
  <2>2. ~AtSend(r, d) /\ ~AtExisting(r, d) /\ ~SendTurn(r, d)
    BY <1>2 DEF AtSend, AtExisting, SendTurn, DriveTurn
  <2> QED
    BY <1>2, <2>1, <2>2 DEF Send, SkipSend, SendFails, AlreadySent, FindComplete, FindPartial,
         DeletePartial, StartReceiveBlind, StartReceive, CanFinalize, ReceiveSucceeds, ReceiveFails,
         ClobberFails, WritePin, WritePinFails
<1>4. CASE Delete(r)
  BY <1>2, <1>4 DEF Delete, DeleteLocal, DeleteExt, CheckLocal, DropLocal, CheckExt, DropExt,
                    LocalTurn, ExtTurn, DriveTurn
<1>5. CASE Turns(r)
  BY <1>1, <1>2, <1>5 DEF Turns, AcquireLock, NothingPlanned, EndOps, UnpinDone, EndClean, Replan,
                          CreateSnapshot, CreateFails, StopEarly, Cleanup, UnpinFails
<1>6. CASE Edges(r)
  BY <1>2, <1>6 DEF Edges, PlanRun, EmergencyPreflight, ShedAwayPins, Unpin
<1>7. CASE Ends(r)
  BY <1>2, <1>7 DEF Ends, LockBusy, Release, Crash, CanFinalize, disk
<1> QED
  BY <1>3, <1>4, <1>5, <1>6, <1>7, RunSteps

BaseInv == TypeOK /\ Dated /\ Exclusion

LEMMA BaseKept ==
    ASSUME BaseInv, [Next]_vars
    PROVE  BaseInv'
<1>1. TypeOK /\ Dated /\ Exclusion
  BY DEF BaseInv
<1>2. CASE \E r \in Runs : Run(r) \/ Crash(r)
  <2>1. PICK r \in Runs : Run(r) \/ Crash(r)
    BY <1>2
  <2>2. now' \in Snaps /\ mounted' \in SUBSET Drives
    BY <1>1, <2>1, LocalTyped DEF TypeOK, world
  <2>3. TypeOK'
    BY <1>1, <2>1, <2>2, LocalTyped, CopiesTyped, PointsTyped, PlansTyped, AccountsTyped DEF TypeOK
  <2> QED
    BY <1>1, <2>1, <2>3, DatesKept, ExclusionKept DEF BaseInv
<1>3. CASE \E d \in Drives : Plug(d) \/ PinRots(d)
  BY <1>1, <1>3 DEF Plug, PinRots, BaseInv, TypeOK, Dated, Exclusion, disk, world
<1>4. CASE Tick
  <2>1. now' \in Snaps
    BY <1>1, <1>4, SnapAssumption DEF Tick, TypeOK, Snaps
  <2> QED
    BY <1>1, <1>4, <2>1 DEF Tick, BaseInv, TypeOK, Dated, Exclusion, disk
<1>5. CASE UNCHANGED vars
  BY <1>1, <1>5 DEF vars, BaseInv, TypeOK, Dated, Exclusion
<1> QED
  BY <1>2, <1>3, <1>4, <1>5 DEF Next

LEMMA BaseStarts == Init => BaseInv
<1> SUFFICES ASSUME Init PROVE BaseInv
  OBVIOUS
<1>1. TypeOK
  <2>1. now \in Snaps
    BY SnapAssumption DEF Init, Snaps
  <2>2. NoPlan \in Plan /\ NoAccount \in Account
    BY NothingTyped
  <2>3. local \in SUBSET Snaps /\ mounted \in SUBSET Drives /\ lock \in Runs \cup {NoRun}
    BY DEF Init
  <2>4. /\ ext \in [Drives -> [Snaps -> {"none", "partial", "complete"}]]
        /\ pin \in [Drives -> Snaps \cup {NoSnap, BadPin}]
    BY DEF Init
  <2>5. pc \in [Runs -> Points]
    BY DEF Init, Points
  <2>6. plan \in [Runs -> Plan] /\ acc \in [Runs -> Account]
    BY <2>2 DEF Init
  <2> QED
    BY <2>1, <2>3, <2>4, <2>5, <2>6 DEF TypeOK
<1>2. Dated /\ Exclusion
  BY DEF Init, Dated, Exclusion, Executing
<1> QED
  BY <1>1, <1>2 DEF BaseInv

\* A run that plans, waits for the lock, executes or dies, and the world around
\* it, leave every variable in its type.
THEOREM TypeCorrect == Spec => []TypeOK
<1>1. BaseInv => TypeOK
  BY DEF BaseInv
<1> QED
  BY <1>1, BaseStarts, BaseKept, PTL DEF Spec

\* At most one run executes at a time, the holder of the lock, whatever run
\* died and whenever the plans were made.
THEOREM HolderExecutes == Spec => []Exclusion
<1>1. BaseInv => Exclusion
  BY DEF BaseInv
<1> QED
  BY <1>1, BaseStarts, BaseKept, PTL DEF Spec

(****************************** pins and copies ****************************)

\* What a run knows of the copy it is at, when it carries a snapshot: a partial is deleted or received
\* over, and what is about to be pinned is complete.
InFlight(r) ==
    \A d \in Drives : d = DriveAt(r) /\ plan[r].snap \in Snaps =>
        /\ pc[r] \in {"recovering", "receiving"} => Copy(r, d) = "partial"
        /\ pc[r] = "pinning" => Copy(r, d) = "complete"

\* Between the second look at the pins and the delete nothing pins the target.
DoomedUnpinned(r) ==
    pc[r] \in {"opsDelete", "cleanDelete", "extDelete"} =>
        \A d \in Drives : pin[d] # acc[r].target

\* A receive against a copy that exists needs a query that failed.
NeverBlind(r) == pc[r] = "clobbering" => ShowMayFail

KnowInv == \A r \in Runs : InFlight(r) /\ DoomedUnpinned(r) /\ NeverBlind(r)

CopyInv == KnowInv /\ PinNamesCompleteCopy

LEMMA DriveAtStays ==
    ASSUME NEW q \in Runs, plan'[q] = plan[q], acc'[q] = acc[q]
    PROVE  DriveAt(q)' = DriveAt(q)
BY DEF DriveAt, DrivesLeft, SendsLeft

\* What a run knows is not disturbed by another.
LEMMA KnowledgeStays ==
    ASSUME BaseInv, KnowInv, NEW q \in Runs, NEW r \in Runs \ {q}, Run(r) \/ Crash(r)
    PROVE  (InFlight(q) /\ DoomedUnpinned(q) /\ NeverBlind(q))'
<1>1. TypeOK /\ Exclusion /\ InFlight(q) /\ DoomedUnpinned(q) /\ NeverBlind(q)
  BY DEF BaseInv, KnowInv
<1>2. pc'[q] = pc[q]
  BY <1>1, PointsTyped
<1>3. CASE pc[q] \in Executing
  <2>1. UNCHANGED disk /\ plan'[q] = plan[q] /\ acc'[q] = acc[q]
    BY <1>1, <1>3, OthersStandStill
  <2>2. DriveAt(q)' = DriveAt(q)
    BY <2>1, DriveAtStays
  <2>3. InFlight(q)'
    BY <1>1, <1>2, <2>1, <2>2 DEF InFlight, Copy, disk
  <2>4. DoomedUnpinned(q)'
    BY <1>1, <1>2, <2>1 DEF DoomedUnpinned, disk
  <2> QED
    BY <1>1, <1>2, <2>3, <2>4 DEF NeverBlind
<1>4. CASE pc[q] \notin Executing
  <2>1. pc'[q] \in {"idle", "planned"}
    BY <1>1, <1>2, <1>4 DEF TypeOK, Executing
  <2> QED
    BY <2>1 DEF InFlight, DoomedUnpinned, NeverBlind
<1> QED
  BY <1>3, <1>4

\* The other end of each guard: where the deletes look.
LEMMA UncheckedIsUnpinned ==
    ASSUME TypeOK, NEW s \in Snaps, ~PinnedAtDelete(s)
    PROVE  \A d \in Drives : pin[d] # s
BY DEF PinnedAtDelete, Pinned

\* A complete copy goes only by the delete of a retention plan.
LEMMA LossIsDelete ==
    ASSUME BaseInv, KnowInv, ~ShowMayFail, NEW r \in Runs, Run(r) \/ Crash(r),
           NEW d \in Drives, NEW s \in Snaps, ext[d][s] = "complete", ext'[d][s] # "complete"
    PROVE  pc[r] = "extDelete" /\ acc[r].target = s /\ d = DriveAt(r)
<1>1. /\ ext \in [Drives -> [Snaps -> {"none", "partial", "complete"}]]
      /\ InFlight(r) /\ NeverBlind(r)
  BY DEF BaseInv, TypeOK, KnowInv
<1>2. CASE \E e \in Drives : Send(r, e)
  <2>1. PICK e \in Drives : Send(r, e)
    BY <1>2
  <2>2. CASE SkipSend(r, e) \/ SendFails(r, e) \/ AlreadySent(r, e) \/ FindComplete(r, e)
             \/ FindPartial(r, e) \/ StartReceiveBlind(r, e) \/ WritePin(r, e) \/ WritePinFails(r, e)
    BY <2>2 DEF SkipSend, SendFails, AlreadySent, FindComplete, FindPartial, StartReceiveBlind,
                WritePin, WritePinFails, disk
  <2>3. CASE ReceiveSucceeds(r, e)
    BY <1>1, <2>3 DEF ReceiveSucceeds
  <2>4. CASE DeletePartial(r, e)
    <3>1. plan[r].snap \in Snaps => ext[e][plan[r].snap] = "partial"
      BY <1>1, <2>4 DEF DeletePartial, InFlight, Copy
    <3>2. UNCHANGED ext \/ ext' = [ext EXCEPT ![e][plan[r].snap] = "none"]
      BY <2>4 DEF DeletePartial
    <3> QED
      BY <1>1, <3>1, <3>2
  <2>5. CASE \E left \in {"none", "partial", "complete"} : ReceiveFails(r, e, left)
    <3>1. plan[r].snap \in Snaps => ext[e][plan[r].snap] = "partial"
      BY <1>1, <2>5 DEF ReceiveFails, InFlight, Copy
    <3>2. PICK left \in {"none", "partial", "complete"} :
            ext' = [ext EXCEPT ![e][plan[r].snap] = left]
      BY <2>5 DEF ReceiveFails
    <3> QED
      BY <1>1, <3>1, <3>2
  <2>6. CASE \E left \in {"none", "partial", "complete"} : ClobberFails(r, e, left)
    BY <1>1, <2>6 DEF ClobberFails, NeverBlind
  <2>7. CASE \E swept \in SUBSET Snaps : StartReceive(r, e, swept)
    <3>1. PICK swept \in SUBSET Snaps : StartReceive(r, e, swept)
      BY <2>7
    <3>2. ext[e][plan[r].snap] = "none" /\ \A t \in swept : ext[e][t] = "partial"
      BY <3>1 DEF StartReceive, Copy, Sweepable
    <3>3. ext' = [ext EXCEPT ![e] = [t \in Snaps |->
                     IF t = plan[r].snap THEN "partial"
                     ELSE IF t \in swept THEN "none" ELSE ext[e][t]]]
      BY <1>1, <3>1 DEF StartReceive
    <3>4. CASE d # e
      BY <1>1, <3>3, <3>4
    <3>5. CASE d = e
      <4>1. ext'[d][s] = IF s = plan[r].snap THEN "partial"
                         ELSE IF s \in swept THEN "none" ELSE ext[e][s]
        BY <1>1, <3>3, <3>5
      <4> QED
        BY <3>2, <3>5, <4>1
    <3> QED
      BY <3>4, <3>5
  <2> QED
    BY <2>1, <2>2, <2>3, <2>4, <2>5, <2>6, <2>7 DEF Send
<1>3. CASE Delete(r)
  <2>1. CASE \E e \in Drives : DeleteExt(r, e)
    BY <1>1, <2>1 DEF DeleteExt
  <2>2. CASE \/ DeleteLocal(r)
             \/ \E t \in Snaps : CheckLocal(r, t) \/ DropLocal(r, t)
             \/ \E e \in Drives, t \in Snaps : CheckExt(r, e, t) \/ DropExt(r, e, t)
    BY <2>2 DEF DeleteLocal, CheckLocal, DropLocal, CheckExt, DropExt, disk
  <2> QED
    BY <1>3, <2>1, <2>2 DEF Delete
<1>4. CASE Turns(r)
  BY <1>4 DEF Turns, AcquireLock, NothingPlanned, EndOps, UnpinDone, EndClean, Replan,
              CreateSnapshot, CreateFails, StopEarly, Cleanup, UnpinFails, disk
<1>5. CASE Edges(r)
  BY <1>5 DEF Edges, PlanRun, EmergencyPreflight, ShedAwayPins, Unpin, disk
<1>6. CASE Ends(r)
  BY <1>1, <1>6 DEF Ends, LockBusy, Release, Crash, disk
<1> QED
  BY <1>2, <1>3, <1>4, <1>5, <1>6, RunSteps

\* A pin moves only to nothing or to the complete copy of what was sent.
LEMMA PinMoves ==
    ASSUME BaseInv, KnowInv, NEW r \in Runs, Run(r) \/ Crash(r),
           NEW d \in Drives, pin'[d] # pin[d]
    PROVE  \/ pin'[d] = NoSnap
           \/ /\ pin'[d] = plan[r].snap /\ pc[r] = "pinning" /\ UNCHANGED local
              /\ plan[r].snap \in Snaps => ext'[d][plan[r].snap] = "complete"
<1>1. pin \in [Drives -> Snaps \cup {NoSnap, BadPin}] /\ InFlight(r)
  BY DEF BaseInv, TypeOK, KnowInv
<1>2. CASE \E e \in Drives : Send(r, e)
  <2>1. PICK e \in Drives : Send(r, e)
    BY <1>2
  <2>2. CASE WritePin(r, e)
    <3>1. plan[r].snap \in Snaps => ext[e][plan[r].snap] = "complete"
      BY <1>1, <2>2 DEF WritePin, InFlight, Copy
    <3> QED
      BY <1>1, <2>2, <3>1 DEF WritePin
  <2>3. CASE SkipSend(r, e) \/ SendFails(r, e) \/ AlreadySent(r, e) \/ FindComplete(r, e)
             \/ FindPartial(r, e) \/ DeletePartial(r, e) \/ StartReceiveBlind(r, e) \/ WritePinFails(r, e)
    BY <2>3 DEF SkipSend, SendFails, AlreadySent, FindComplete, FindPartial, DeletePartial,
                StartReceiveBlind, WritePinFails, disk
  <2>4. CASE \/ \E swept \in SUBSET Snaps : StartReceive(r, e, swept)
             \/ ReceiveSucceeds(r, e)
             \/ \E left \in {"none", "partial", "complete"} :
                   ReceiveFails(r, e, left) \/ ClobberFails(r, e, left)
    BY <2>4 DEF StartReceive, ReceiveSucceeds, ReceiveFails, ClobberFails
  <2> QED
    BY <2>1, <2>2, <2>3, <2>4 DEF Send
<1>3. CASE Delete(r)
  BY <1>3 DEF Delete, DeleteLocal, DeleteExt, CheckLocal, DropLocal, CheckExt, DropExt, disk
<1>4. CASE Turns(r)
  BY <1>4 DEF Turns, AcquireLock, NothingPlanned, EndOps, UnpinDone, EndClean, Replan,
              CreateSnapshot, CreateFails, StopEarly, Cleanup, UnpinFails, disk
<1>5. CASE Edges(r)
  <2>1. CASE \E shed \in SUBSET Drives : ShedAwayPins(r, shed)
    BY <1>1, <2>1 DEF ShedAwayPins
  <2>2. CASE \E e \in Drives : Unpin(r, e)
    BY <1>1, <2>2 DEF Unpin
  <2>3. CASE \/ \E tier \in Tiers : PlanRun(r, tier)
             \/ \E thinned \in SUBSET Snaps : EmergencyPreflight(r, thinned)
    BY <2>3 DEF PlanRun, EmergencyPreflight, disk
  <2> QED
    BY <1>5, <2>1, <2>2, <2>3 DEF Edges
<1>6. CASE Ends(r)
  BY <1>6 DEF Ends, LockBusy, Release, Crash, disk
<1> QED
  BY <1>2, <1>3, <1>4, <1>5, <1>6, RunSteps

\* What leaves the local directory is named by no pin.
LEMMA LocalLoss ==
    ASSUME BaseInv, KnowInv, NEW r \in Runs, Run(r) \/ Crash(r), NEW s \in local \ local'
    PROVE  \A d \in Drives : pin[d] # s
<1>1. local \in SUBSET Snaps /\ TypeOK /\ DoomedUnpinned(r)
  BY DEF BaseInv, TypeOK, KnowInv
<1>2. CASE \E e \in Drives : Send(r, e)
  <2>1. PICK e \in Drives : Send(r, e)
    BY <1>2
  <2>2. UNCHANGED local
    BY <2>1 DEF Send, SkipSend, SendFails, AlreadySent, FindComplete, FindPartial, DeletePartial,
                StartReceiveBlind, StartReceive, ReceiveSucceeds, ReceiveFails, ClobberFails,
                WritePin, WritePinFails, disk
  <2> QED
    BY <2>2
<1>3. CASE Delete(r)
  <2>1. CASE DeleteLocal(r)
    <3>1. acc[r].target = s /\ pc[r] \in {"opsDelete", "cleanDelete"}
      BY <2>1 DEF DeleteLocal
    <3> QED
      BY <1>1, <3>1 DEF DoomedUnpinned
  <2>2. CASE \/ \E t \in Snaps : CheckLocal(r, t) \/ DropLocal(r, t)
             \/ \E e \in Drives : DeleteExt(r, e)
             \/ \E e \in Drives, t \in Snaps : CheckExt(r, e, t) \/ DropExt(r, e, t)
    BY <2>2 DEF DeleteExt, CheckLocal, DropLocal, CheckExt, DropExt, disk
  <2> QED
    BY <1>3, <2>1, <2>2 DEF Delete
<1>4. CASE Turns(r)
  BY <1>4 DEF Turns, AcquireLock, NothingPlanned, EndOps, UnpinDone, EndClean, Replan,
              CreateSnapshot, CreateFails, StopEarly, Cleanup, UnpinFails, disk
<1>5. CASE Edges(r)
  <2>1. CASE \E thinned \in SUBSET Snaps : EmergencyPreflight(r, thinned)
    <3>1. s \in Thinnable
      BY <2>1 DEF EmergencyPreflight
    <3>2. s \in Snaps /\ ~PinnedAtDelete(s)
      BY <1>1, <3>1 DEF Thinnable
    <3> QED
      BY <1>1, <3>2, UncheckedIsUnpinned
  <2>2. CASE \/ \E tier \in Tiers : PlanRun(r, tier)
             \/ \E shed \in SUBSET Drives : ShedAwayPins(r, shed)
             \/ \E e \in Drives : Unpin(r, e)
    BY <2>2 DEF PlanRun, ShedAwayPins, Unpin, disk
  <2> QED
    BY <1>5, <2>1, <2>2 DEF Edges
<1>6. CASE Ends(r)
  BY <1>6 DEF Ends, LockBusy, Release, Crash, disk
<1> QED
  BY <1>2, <1>3, <1>4, <1>5, <1>6, RunSteps

\* What a run knows after a step of its own.
LEMMA KnowledgeKept ==
    ASSUME BaseInv, KnowInv, NEW r \in Runs, Run(r) \/ Crash(r)
    PROVE  (InFlight(r) /\ DoomedUnpinned(r) /\ NeverBlind(r))'
<1>1. /\ TypeOK /\ InFlight(r) /\ DoomedUnpinned(r) /\ NeverBlind(r)
      /\ pc \in [Runs -> Points] /\ acc \in [Runs -> Account] /\ plan[r] \in Plan
      /\ ext \in [Drives -> [Snaps -> {"none", "partial", "complete"}]]
  BY DEF BaseInv, TypeOK, KnowInv
<1>2. plan'[r] = plan[r] /\ acc'[r] = acc[r] => DriveAt(r)' = DriveAt(r)
  BY DriveAtStays
<1> DEFINE Quiet == Points \ {"recovering", "receiving", "pinning", "clobbering",
                              "opsDelete", "cleanDelete", "extDelete"}
<1>3. SUFFICES ASSUME pc'[r] \notin Quiet
               PROVE  (InFlight(r) /\ DoomedUnpinned(r) /\ NeverBlind(r))'
  <2>1. pc'[r] \in Quiet => (InFlight(r) /\ DoomedUnpinned(r) /\ NeverBlind(r))'
    BY DEF InFlight, DoomedUnpinned, NeverBlind
  <2> QED
    BY <2>1
<1>4. CASE \E d \in Drives : Send(r, d)
  <2>1. PICK d \in Drives : Send(r, d)
    BY <1>4
  <2>2. CASE SkipSend(r, d) \/ AlreadySent(r, d)
    BY <1>1, <1>3, <2>2 DEF SkipSend, AlreadySent, AtExisting, SendTurn, DriveTurn, Points
  <2>3. CASE \/ SendFails(r, d) \/ DeletePartial(r, d) \/ WritePin(r, d) \/ WritePinFails(r, d)
             \/ \E left \in {"none", "partial", "complete"} :
                   ReceiveFails(r, d, left) \/ ClobberFails(r, d, left)
    BY <1>1, <1>3, <2>3 DEF SendFails, DeletePartial, WritePin, WritePinFails, ReceiveFails,
                            ClobberFails, Go, Points
  <2>4. CASE StartReceiveBlind(r, d)
    <3>1. ShowMayFail /\ pc'[r] = "clobbering"
      BY <1>1, <2>4 DEF StartReceiveBlind, Go
    <3> QED
      BY <3>1 DEF InFlight, DoomedUnpinned, NeverBlind
  <2>5. CASE \/ FindComplete(r, d) \/ FindPartial(r, d) \/ ReceiveSucceeds(r, d)
             \/ \E swept \in SUBSET Snaps : StartReceive(r, d, swept)
    <3>1. d = DriveAt(r)
      BY <2>5 DEF FindComplete, FindPartial, ReceiveSucceeds, StartReceive, CanFinalize, AtExisting,
                  AtSend, SendTurn, DriveTurn
    <3>2. DriveAt(r)' = d /\ plan'[r] = plan[r] /\ acc'[r] = acc[r]
      BY <1>2, <2>5, <3>1 DEF FindComplete, FindPartial, ReceiveSucceeds, StartReceive
    <3>3. plan[r].snap \in Snaps =>
            \/ pc'[r] = "pinning" /\ ext'[d][plan[r].snap] = "complete"
            \/ pc'[r] \in {"recovering", "receiving"} /\ ext'[d][plan[r].snap] = "partial"
      <4>1. CASE FindComplete(r, d) \/ FindPartial(r, d)
        BY <1>1, <4>1 DEF FindComplete, FindPartial, Copy, Go, disk
      <4>2. CASE ReceiveSucceeds(r, d)
        BY <1>1, <4>2 DEF ReceiveSucceeds, Go
      <4>3. CASE \E swept \in SUBSET Snaps : StartReceive(r, d, swept)
        BY <1>1, <4>3 DEF StartReceive, Go
      <4> QED
        BY <2>5, <4>1, <4>2, <4>3
    <3>4. pc'[r] \in {"pinning", "recovering", "receiving"}
      BY <1>1, <2>5 DEF FindComplete, FindPartial, ReceiveSucceeds, StartReceive, Go
    <3> QED
      BY <3>2, <3>3, <3>4 DEF InFlight, DoomedUnpinned, NeverBlind, Copy
  <2> QED
    BY <2>1, <2>2, <2>3, <2>4, <2>5 DEF Send
<1>5. CASE Delete(r)
  <2>1. CASE \E s \in Snaps : CheckLocal(r, s)
    <3>1. PICK s \in Snaps : CheckLocal(r, s)
      BY <2>1
    <3>2. \A d \in Drives : pin[d] # s
      BY <1>1, <3>1, UncheckedIsUnpinned DEF CheckLocal
    <3>3. acc'[r].target = s /\ pc'[r] \in {"opsDelete", "cleanDelete"} /\ UNCHANGED pin
      BY <1>1, <3>1 DEF CheckLocal, Go, disk, Account
    <3> QED
      BY <3>2, <3>3 DEF InFlight, DoomedUnpinned, NeverBlind
  <2>2. CASE \E d \in Drives, s \in Snaps : CheckExt(r, d, s)
    <3>1. PICK d \in Drives, s \in Snaps : CheckExt(r, d, s)
      BY <2>2
    <3>2. \A e \in Drives : pin[e] # s
      BY <1>1, <3>1, UncheckedIsUnpinned DEF CheckExt
    <3>3. acc'[r].target = s /\ pc'[r] = "extDelete" /\ UNCHANGED pin
      BY <1>1, <3>1 DEF CheckExt, Go, disk, Account
    <3> QED
      BY <3>2, <3>3 DEF InFlight, DoomedUnpinned, NeverBlind
  <2>3. CASE DeleteLocal(r) \/ \E d \in Drives : DeleteExt(r, d)
    BY <1>1, <1>3, <2>3 DEF DeleteLocal, DeleteExt, Go, Points
  <2>4. CASE \/ \E s \in Snaps : DropLocal(r, s)
             \/ \E d \in Drives, s \in Snaps : DropExt(r, d, s)
    BY <1>1, <1>3, <2>4 DEF DropLocal, DropExt, LocalTurn, ExtTurn, DriveTurn, Points
  <2> QED
    BY <1>5, <2>1, <2>2, <2>3, <2>4 DEF Delete
<1>6. CASE Turns(r)
  BY <1>1, <1>3, <1>6 DEF Turns, AcquireLock, NothingPlanned, EndOps, UnpinDone, EndClean, Replan,
              CreateSnapshot, CreateFails, StopEarly, Cleanup, UnpinFails, Go, Points
<1>7. CASE Edges(r)
  BY <1>1, <1>3, <1>7 DEF Edges, PlanRun, EmergencyPreflight, ShedAwayPins, Unpin, Go, Points
<1>8. CASE Ends(r)
  BY <1>1, <1>3, <1>8 DEF Ends, LockBusy, Release, Crash, Forget, Go, Points
<1> QED
  BY <1>4, <1>5, <1>6, <1>7, <1>8, RunSteps

LEMMA KnowKept ==
    ASSUME BaseInv, KnowInv, [Next]_vars
    PROVE  KnowInv'
<1> SUFFICES ASSUME NEW q \in Runs PROVE (InFlight(q) /\ DoomedUnpinned(q) /\ NeverBlind(q))'
  BY DEF KnowInv
<1>1. TypeOK /\ pin \in [Drives -> Snaps \cup {NoSnap, BadPin}]
  BY DEF BaseInv, TypeOK
<1>2. CASE \E r \in Runs : Run(r) \/ Crash(r)
  BY <1>2, KnowledgeStays, KnowledgeKept
<1>3. CASE UNCHANGED <<local, ext, pc, plan, acc>> /\ \A d \in Drives : pin'[d] \in {pin[d], BadPin}
  <2>1. DriveAt(q)' = DriveAt(q)
    BY <1>3, DriveAtStays
  <2>2. acc[q].target \in Snaps \cup {NoSnap}
    BY <1>1, AccountEdits DEF TypeOK
  <2>3. acc[q].target # BadPin
    BY <2>2, SnapAssumption DEF Snaps, NoSnap, BadPin
  <2>4. InFlight(q) /\ DoomedUnpinned(q) /\ NeverBlind(q)
    BY DEF KnowInv
  <2>5. InFlight(q)'
    BY <1>3, <2>1, <2>4 DEF InFlight, Copy
  <2> QED
    BY <1>3, <2>3, <2>4, <2>5 DEF DoomedUnpinned, NeverBlind
<1>4. CASE \E d \in Drives : Plug(d) \/ PinRots(d)
  BY <1>1, <1>3, <1>4 DEF Plug, PinRots, disk
<1>5. CASE Tick \/ UNCHANGED vars
  BY <1>1, <1>3, <1>5 DEF Tick, disk, vars
<1> QED
  BY <1>2, <1>4, <1>5 DEF Next

LEMMA CopyKept ==
    ASSUME BaseInv, CopyInv, ~ShowMayFail, [Next]_vars
    PROVE  CopyInv'
<1>1. KnowInv /\ KnowInv' /\ PinNamesCompleteCopy
  BY KnowKept DEF CopyInv
<1>2. CASE \E r \in Runs : Run(r) \/ Crash(r)
  <2>1. PICK r \in Runs : Run(r) \/ Crash(r)
    BY <1>2
  <2>2. ASSUME NEW d \in Drives, pin'[d] \in Snaps PROVE ext'[d][pin'[d]] = "complete"
    <3>1. CASE pin'[d] # pin[d]
      BY <1>1, <2>1, <2>2, <3>1, PinMoves DEF NoSnap, Snaps
    <3>2. CASE pin'[d] = pin[d]
      <4>1. ext[d][pin[d]] = "complete" /\ pin[d] \in Snaps
        BY <1>1, <2>2, <3>2 DEF PinNamesCompleteCopy
      <4>2. ~ (pc[r] = "extDelete" /\ acc[r].target = pin[d])
        BY <1>1 DEF KnowInv, DoomedUnpinned
      <4> QED
        BY <1>1, <2>1, <3>2, <4>1, <4>2, LossIsDelete
    <3> QED
      BY <3>1, <3>2
  <2> QED
    BY <1>1, <2>2 DEF CopyInv, PinNamesCompleteCopy
<1>3. CASE UNCHANGED ext /\ \A d \in Drives : pin'[d] \in {pin[d], BadPin}
  <2>1. BadPin \notin Snaps
    BY SnapAssumption DEF Snaps, BadPin
  <2> QED
    BY <1>1, <1>3, <2>1 DEF CopyInv, PinNamesCompleteCopy
<1>4. CASE \E d \in Drives : Plug(d) \/ PinRots(d)
  <2>1. pin \in [Drives -> Snaps \cup {NoSnap, BadPin}]
    BY DEF BaseInv, TypeOK
  <2> QED
    BY <1>3, <1>4, <2>1 DEF Plug, PinRots, disk
<1>5. CASE Tick \/ UNCHANGED vars
  BY <1>3, <1>5 DEF Tick, disk, vars
<1> QED
  BY <1>2, <1>4, <1>5 DEF Next

LEMMA CopyStarts == Init => CopyInv
<1> SUFFICES ASSUME Init PROVE CopyInv
  OBVIOUS
<1>1. \A r \in Runs : pc[r] = "idle"
  BY DEF Init
<1>2. \A d \in Drives : pin[d] \notin Snaps
  BY SnapAssumption DEF Init, NoSnap, Snaps
<1> QED
  BY <1>1, <1>2 DEF CopyInv, KnowInv, InFlight, DoomedUnpinned, NeverBlind, PinNamesCompleteCopy

\* A pin file names a complete copy on its drive, for any number of processes,
\* drives and tiers, plans of any age, crashes, unplugged drives, failing
\* listings and rotten pins, as long as `subvolume_exists` answers.
THEOREM PinsNameCompleteCopies ==
    ASSUME ~ShowMayFail
    PROVE  Spec => []PinNamesCompleteCopy
<1>1. BaseInv /\ CopyInv => PinNamesCompleteCopy
  BY DEF CopyInv
<1> QED
  BY <1>1, BaseStarts, BaseKept, CopyStarts, CopyKept, PTL DEF Spec

\* Whatever deletes a complete snapshot, on either end, deletes none that a pin
\* file names at that step.
THEOREM PinnedSnapshotsStay ==
    ASSUME ~ShowMayFail
    PROVE  Spec => PinnedSnapshotNotDeleted
<1> DEFINE Gone(s) == \/ s \in local \ local'
                      \/ \E d \in Drives : ext[d][s] = "complete" /\ ext'[d][s] # "complete"
           Spares == \A s \in Snaps : Gone(s) => \A d \in Drives : pin[d] # s
<1>1. ASSUME BaseInv, CopyInv, [Next]_vars PROVE [Spares]_vars
  <2> SUFFICES ASSUME NEW s \in Snaps, Gone(s) PROVE \A d \in Drives : pin[d] # s
    OBVIOUS
  <2>1. CASE \E r \in Runs : Run(r) \/ Crash(r)
    <3>1. PICK r \in Runs : Run(r) \/ Crash(r)
      BY <2>1
    <3>2. CASE s \in local \ local'
      BY <1>1, <3>1, <3>2, LocalLoss DEF CopyInv
    <3>3. CASE \E d \in Drives : ext[d][s] = "complete" /\ ext'[d][s] # "complete"
      <4>1. pc[r] = "extDelete" /\ acc[r].target = s
        BY <1>1, <3>1, <3>3, LossIsDelete DEF CopyInv
      <4> QED
        BY <1>1, <4>1 DEF CopyInv, KnowInv, DoomedUnpinned
    <3> QED
      BY <3>2, <3>3
  <2>2. CASE UNCHANGED <<local, ext>>
    BY <2>2
  <2> QED
    BY <1>1, <2>1, <2>2 DEF Next, Plug, PinRots, Tick, vars, disk
<1> QED
  BY <1>1, BaseStarts, BaseKept, CopyStarts, CopyKept, PTL DEF Spec, PinnedSnapshotNotDeleted

\* A complete copy on a drive goes only by a delete that retention planned,
\* never because it was taken for a partial.
THEOREM NoDeleteOnInference ==
    ASSUME ~ShowMayFail
    PROVE  Spec => DestinationDeleteNeedsProof
<1> DEFINE Planned == \A d \in Drives, s \in Snaps :
                        ext[d][s] = "complete" /\ ext'[d][s] # "complete" =>
                          \E r \in Runs : pc[r] = "extDelete" /\ acc[r].target = s
<1>1. ASSUME BaseInv, CopyInv, [Next]_vars PROVE [Planned]_vars
  <2>1. CASE \E r \in Runs : Run(r) \/ Crash(r)
    BY <1>1, <2>1, LossIsDelete DEF CopyInv
  <2>2. CASE UNCHANGED ext
    BY <2>2
  <2> QED
    BY <1>1, <2>1, <2>2 DEF Next, Plug, PinRots, Tick, vars, disk
<1> QED
  BY <1>1, BaseStarts, BaseKept, CopyStarts, CopyKept, PTL DEF Spec, DestinationDeleteNeedsProof

(*************************** sends before the cleanup **********************)

\* A plan never expires on a drive the snapshot it is to send there.
PlanSafe(p) == \A d \in p.sendTo : p.snap \in Snaps /\ p.snap \notin p.extDel[d]

Early == {"idle", "planned", "locked", "replan", "armed"}
AtDrive == {"recovering", "free", "receiving", "clobbering", "pinning"}
Cleaning == {"unpin", "clean", "cleanDelete"}

\* What the bookkeeping of a run stands for: a send that is counted has left a
\* complete copy, and the cleanup is entered only when all that were tried have.
Bookkept(r) ==
    /\ PlanSafe(plan[r])
    /\ acc[r].tried \subseteq plan[r].sendTo /\ acc[r].succ \subseteq acc[r].tried
    /\ acc[r].old # {} => acc[r].succ # {}
    /\ \A d \in acc[r].succ : ext[d][plan[r].snap] = "complete"
    /\ pc[r] \in Early => acc[r].tried = {}
    /\ pc[r] \in Cleaning => acc[r].succ = acc[r].tried /\ acc[r].tried # {}
    /\ pc[r] = "extDelete" => acc[r].target \in plan[r].extDel[DriveAt(r)]
    /\ pc[r] \in AtDrive => DriveAt(r) \in SendsLeft(r)

LEMMA MadePlanSafe ==
    ASSUME TypeOK, NEW r \in Runs, NEW at \in Snaps \cup {NoSnap}, NEW tier, NEW away,
           MakePlan(r, at, tier, away)
    PROVE  PlanSafe(plan'[r])
<1> DEFINE had(create, lost) == SeenLocal(lost) \cup (IF create THEN {at} ELSE {})
<1>1. PICK create \in BOOLEAN, lost \in Losses :
        \E sendTo \in SUBSET Sendable(Newest(had(create, lost)), lost),
           localDel \in SUBSET (SeenLocal(lost) \ Protected(tier, SeenLocal(lost))),
           extDel \in {f \in [Drives -> SUBSET Snaps] :
                         \A d \in Drives :
                           f[d] \subseteq Expirable(tier, Newest(had(create, lost)), lost)[d]} :
          \E gated \in SUBSET (sendTo \cap Gateable(ParentsIn(had(create, lost), lost))) :
            plan' = [plan EXCEPT ![r] =
              [at |-> at, tier |-> tier, away |-> away, create |-> create,
               snap |-> Newest(had(create, lost)), sendTo |-> sendTo, gated |-> gated,
               parent |-> ParentsIn(had(create, lost), lost),
               localDel |-> localDel, extDel |-> extDel]]
  BY DEF MakePlan
<1> DEFINE have == had(create, lost)
           snap == Newest(have)
<1>2. plan \in [Runs -> Plan] /\ local \in SUBSET Snaps
  BY DEF TypeOK
<1>3. snap \in Snaps \cup {NoSnap}
  <2>1. have \in SUBSET (Snaps \cup {NoSnap})
    BY <1>2 DEF SeenLocal
  <2> HIDE DEF have
  <2> QED
    BY <2>1, NewestTyped
<1> HIDE DEF snap, have
<1>4. \E sendTo \in SUBSET Sendable(snap, lost),
         extDel \in {f \in [Drives -> SUBSET Snaps] :
                       \A d \in Drives : f[d] \subseteq Expirable(tier, snap, lost)[d]} :
        \E localDel, gated :
          plan' = [plan EXCEPT ![r] =
            [at |-> at, tier |-> tier, away |-> away, create |-> create,
             snap |-> snap, sendTo |-> sendTo, gated |-> gated,
             parent |-> ParentsIn(have, lost),
             localDel |-> localDel, extDel |-> extDel]]
  BY <1>1 DEF snap, have
<1>5. PICK sendTo \in SUBSET Sendable(snap, lost),
           extDel \in {f \in [Drives -> SUBSET Snaps] :
                         \A d \in Drives : f[d] \subseteq Expirable(tier, snap, lost)[d]} :
        plan'[r].sendTo = sendTo /\ plan'[r].extDel = extDel /\ plan'[r].snap = snap
  BY <1>2, <1>4
<1>6. ASSUME NEW d \in sendTo PROVE snap \in Snaps /\ snap \notin extDel[d]
  <2>1. d \in Drives /\ snap # NoSnap /\ snap \notin ListedOn(d, lost)
    BY DEF Sendable, TypeOK
  <2>2. Expirable(tier, snap, lost)[d] \subseteq ListedOn(d, lost)
    BY <2>1 DEF Expirable
  <2> QED
    BY <1>3, <2>1, <2>2
<1> QED
  BY <1>5, <1>6 DEF PlanSafe

\* The outcome of a send, field by field.
LEMMA SettledFields ==
    ASSUME TypeOK, NEW r \in Runs, NEW d \in Drives, NEW ok \in BOOLEAN, Settle(r, d, ok)
    PROVE  /\ acc'[r].tried = acc[r].tried \cup {d}
           /\ acc'[r].succ = IF ok THEN acc[r].succ \cup {d} ELSE acc[r].succ
           /\ ~ok => acc'[r].old = acc[r].old
<1>1. acc \in [Runs -> Account]
  BY DEF TypeOK
<1> QED
  BY <1>1 DEF Settle, Account

\* A copy that a counted send left stays while the run lasts.
LEMMA CountedStays ==
    ASSUME BaseInv, CopyInv, ~ShowMayFail, NEW r \in Runs, Bookkept(r), Run(r) \/ Crash(r),
           NEW d \in acc[r].succ
    PROVE  ext'[d][plan[r].snap] = "complete"
<1>1. d \in Drives /\ plan[r].snap \in Snaps /\ plan[r].snap \notin plan[r].extDel[d]
  <2>1. d \in plan[r].sendTo /\ plan[r].sendTo \subseteq Drives
    BY DEF BaseInv, TypeOK, Plan, Bookkept
  <2> QED
    BY <2>1 DEF Bookkept, PlanSafe
<1>2. SUFFICES ASSUME ext'[d][plan[r].snap] # "complete" PROVE FALSE
  OBVIOUS
<1>3. ext[d][plan[r].snap] = "complete"
  BY DEF Bookkept
<1>4. pc[r] = "extDelete" /\ acc[r].target = plan[r].snap /\ d = DriveAt(r)
  BY <1>1, <1>2, <1>3, LossIsDelete DEF CopyInv
<1> QED
  BY <1>1, <1>4 DEF Bookkept

\* A step that neither tries a send nor comes to a drive.
LEMMA BookkeptFrame ==
    ASSUME NEW r \in Runs, Bookkept(r), \A d \in acc[r].succ : ext'[d][plan[r].snap] = "complete",
           plan'[r].sendTo = plan[r].sendTo, plan'[r].snap = plan[r].snap,
           \A d \in plan[r].sendTo : plan'[r].extDel[d] \subseteq plan[r].extDel[d],
           acc'[r].tried = acc[r].tried, acc'[r].succ = acc[r].succ, acc'[r].old = acc[r].old,
           pc'[r] \in Early => pc[r] \in Early, pc'[r] \in Cleaning => pc[r] \in Cleaning,
           pc'[r] \notin AtDrive \cup {"extDelete"}
    PROVE  Bookkept(r)'
BY DEF Bookkept, PlanSafe

\* A send that is counted has left a complete copy on its drive.
LEMMA SendBookkept ==
    ASSUME BaseInv, CopyInv, ~ShowMayFail, NEW r \in Runs, Bookkept(r), NEW d \in Drives, Send(r, d)
    PROVE  Bookkept(r)'
<1>1. /\ TypeOK /\ pc \in [Runs -> Points] /\ plan[r] \in Plan /\ acc[r] \in Account
      /\ acc \in [Runs -> Account] /\ InFlight(r) /\ PinNamesCompleteCopy
  BY DEF BaseInv, TypeOK, CopyInv, KnowInv
<1>2. UNCHANGED plan
  BY DEF Send, SkipSend, SendFails, AlreadySent, FindComplete, FindPartial, DeletePartial,
         StartReceiveBlind, StartReceive, ReceiveSucceeds, ReceiveFails, ClobberFails,
         WritePin, WritePinFails
<1>3. \A e \in acc[r].succ : ext'[e][plan[r].snap] = "complete"
  BY CountedStays DEF Run
<1>4. d = DriveAt(r) /\ d \in SendsLeft(r)
  <2>1. SendTurn(r, d) => d = DriveAt(r) /\ d \in SendsLeft(r)
    BY DEF SendTurn, DriveTurn
  <2>2. pc[r] \in AtDrive /\ d = DriveAt(r) => d \in SendsLeft(r)
    BY DEF Bookkept
  <2>3. AtSend(r, d) \/ AtExisting(r, d) => d = DriveAt(r) /\ d \in SendsLeft(r)
    BY <2>1, <2>2 DEF AtSend, AtExisting, AtDrive
  <2> QED
    BY <2>1, <2>2, <2>3 DEF Send, SkipSend, SendFails, AlreadySent, FindComplete, FindPartial,
       DeletePartial, StartReceiveBlind, StartReceive, CanFinalize, ReceiveSucceeds, ReceiveFails,
       ClobberFails, WritePin, WritePinFails, AtDrive
<1>5. ASSUME Settle(r, d, FALSE), pc'[r] = "ops" PROVE Bookkept(r)'
  <2>1. /\ acc'[r].tried = acc[r].tried \cup {d} /\ acc'[r].succ = acc[r].succ
        /\ acc'[r].old = acc[r].old
    BY <1>1, <1>5, SettledFields
  <2>2. d \in plan[r].sendTo
    BY <1>4 DEF SendsLeft
  <2> QED
    BY <1>2, <1>3, <1>5, <2>1, <2>2 DEF Bookkept, Early, AtDrive, Cleaning
<1>6. ASSUME acc'[r].tried = acc[r].tried \cup {d}, acc'[r].succ = acc[r].succ \cup {d},
             pc'[r] = "ops", ext'[d][plan[r].snap] = "complete"
      PROVE  Bookkept(r)'
  <2>1. d \in plan[r].sendTo
    BY <1>4 DEF SendsLeft
  <2> QED
    BY <1>2, <1>3, <1>6, <2>1 DEF Bookkept, Early, AtDrive, Cleaning
<1>7. ASSUME acc'[r] = acc[r], pc'[r] \in AtDrive PROVE Bookkept(r)'
  <2>1. DriveAt(r)' = DriveAt(r) /\ SendsLeft(r)' = SendsLeft(r)
    BY <1>2, <1>7, DriveAtStays DEF SendsLeft
  <2> QED
    BY <1>2, <1>3, <1>4, <1>7, <2>1 DEF Bookkept, Early, AtDrive, Cleaning
<1>8. CASE SkipSend(r, d)
  BY <1>5, <1>8 DEF SkipSend, SendTurn, DriveTurn
<1>9. CASE SendFails(r, d) \/ \E left \in {"none", "partial", "complete"} :
                                ReceiveFails(r, d, left) \/ ClobberFails(r, d, left)
  BY <1>1, <1>5, <1>9 DEF SendFails, ReceiveFails, ClobberFails, Go
<1>10. CASE DeletePartial(r, d)
  BY <1>1, <1>5, <1>7, <1>10 DEF DeletePartial, Go, AtDrive
<1>11. plan[r].snap \in Snaps
  BY <1>4 DEF SendsLeft, Bookkept, PlanSafe
<1>12. CASE AlreadySent(r, d)
  <2>1. ext[d][plan[r].snap] = "complete"
    BY <1>1, <1>11, <1>12 DEF AlreadySent, PinNamesCompleteCopy
  <2>2. pc'[r] = "ops" /\ UNCHANGED ext /\ Settle(r, d, TRUE)
    BY <1>12 DEF AlreadySent, AtExisting, SendTurn, DriveTurn, disk
  <2> QED
    BY <1>1, <1>6, <2>1, <2>2, SettledFields
<1>13. CASE WritePin(r, d) \/ WritePinFails(r, d)
  <2>1. ext[d][plan[r].snap] = "complete" /\ UNCHANGED ext /\ pc'[r] = "ops"
    BY <1>1, <1>4, <1>11, <1>13 DEF WritePin, WritePinFails, InFlight, Copy, disk, Go
  <2>2. acc'[r].tried = acc[r].tried \cup {d} /\ acc'[r].succ = acc[r].succ \cup {d}
    <3>1. CASE WritePin(r, d)
      BY <1>1, <3>1, SettledFields DEF WritePin
    <3>2. CASE WritePinFails(r, d)
      BY <1>1, <3>2 DEF WritePinFails, Account
    <3> QED
      BY <1>13, <3>1, <3>2
  <2> QED
    BY <1>6, <2>1, <2>2
<1>14. CASE FindComplete(r, d) \/ FindPartial(r, d) \/ StartReceiveBlind(r, d)
            \/ ReceiveSucceeds(r, d) \/ \E swept \in SUBSET Snaps : StartReceive(r, d, swept)
  <2>1. acc'[r] = acc[r] /\ pc'[r] \in AtDrive
    BY <1>1, <1>14 DEF FindComplete, FindPartial, StartReceiveBlind, ReceiveSucceeds, StartReceive,
                       Go, AtDrive
  <2> QED
    BY <1>7, <2>1
<1> QED
  BY <1>8, <1>9, <1>10, <1>12, <1>13, <1>14 DEF Send

\* The deletes leave the bookkeeping alone.
LEMMA DeleteBookkept ==
    ASSUME BaseInv, CopyInv, ~ShowMayFail, NEW r \in Runs, Bookkept(r), Delete(r)
    PROVE  Bookkept(r)'
<1>1. /\ pc \in [Runs -> Points] /\ plan \in [Runs -> Plan] /\ acc \in [Runs -> Account]
  BY DEF BaseInv, TypeOK
<1>2. \A e \in acc[r].succ : ext'[e][plan[r].snap] = "complete"
  BY CountedStays DEF Run
<1>3. /\ acc'[r].tried = acc[r].tried /\ acc'[r].succ = acc[r].succ /\ acc'[r].old = acc[r].old
  BY <1>1 DEF Delete, DeleteLocal, DeleteExt, CheckLocal, DropLocal, CheckExt, DropExt, Account
<1>4. /\ plan'[r].sendTo = plan[r].sendTo /\ plan'[r].snap = plan[r].snap
      /\ \A d \in Drives : plan'[r].extDel[d] \subseteq plan[r].extDel[d]
  <2>1. CASE DeleteLocal(r) \/ \E s \in Snaps : CheckLocal(r, s) \/ DropLocal(r, s)
    <3>1. UNCHANGED plan \/ \E S : plan' = [plan EXCEPT ![r].localDel = S]
      BY <2>1 DEF DeleteLocal, CheckLocal, DropLocal
    <3>2. ASSUME NEW S, plan' = [plan EXCEPT ![r].localDel = S]
          PROVE  /\ plan'[r].sendTo = plan[r].sendTo /\ plan'[r].snap = plan[r].snap
                 /\ plan'[r].extDel = plan[r].extDel
      BY <1>1, <3>2 DEF Plan
    <3> QED
      BY <3>1, <3>2
  <2>2. CASE \E d \in Drives, s \in Snaps : CheckExt(r, d, s)
    BY <2>2 DEF CheckExt
  <2>3. CASE \E d \in Drives : DeleteExt(r, d) \/ \E s \in Snaps : DropExt(r, d, s)
    <3>1. PICK d \in Drives, s \in Snaps \cup {acc[r].target} :
            plan' = [plan EXCEPT ![r].extDel[d] = @ \ {s}]
      BY <2>3 DEF DeleteExt, DropExt
    <3> QED
      BY <1>1, <3>1 DEF Plan
  <2> QED
    BY <2>1, <2>2, <2>3 DEF Delete
<1>5. plan[r].sendTo \subseteq Drives
  BY <1>1 DEF Plan
<1>6. CASE \E d \in Drives, s \in Snaps : CheckExt(r, d, s)
  <2>1. PICK d \in Drives, s \in Snaps : CheckExt(r, d, s)
    BY <1>6
  <2>2. /\ d = DriveAt(r) /\ s \in plan[r].extDel[d] /\ acc'[r].target = s
        /\ pc'[r] = "extDelete" /\ UNCHANGED plan
    BY <1>1, <2>1 DEF CheckExt, ExtTurn, DriveTurn, Go, Account
  <2>3. DriveAt(r)' = DriveAt(r)
    BY <1>3, <2>2 DEF DriveAt, DrivesLeft, SendsLeft
  <2> QED
    BY <1>2, <1>3, <2>2, <2>3 DEF Bookkept, Early, AtDrive, Cleaning
<1>7. CASE ~\E d \in Drives, s \in Snaps : CheckExt(r, d, s)
  <2>1. /\ pc'[r] \in Cleaning => pc[r] \in Cleaning
        /\ pc'[r] \notin Early \cup AtDrive \cup {"extDelete"}
    BY <1>1, <1>7 DEF Delete, DeleteLocal, DeleteExt, CheckLocal, DropLocal, DropExt, LocalTurn,
                      ExtTurn, DriveTurn, Go, Cleaning, Early, AtDrive
  <2> QED
    BY <1>2, <1>3, <1>4, <1>5, <2>1, BookkeptFrame
<1> QED
  BY <1>6, <1>7

\* The other steps of a run: it is planned before any send, it ends with
\* nothing counted, and the cleanup is entered through its gate.
LEMMA OtherBookkept ==
    ASSUME BaseInv, CopyInv, ~ShowMayFail, NEW r \in Runs, Bookkept(r), Edges(r) \/ Turns(r) \/ Ends(r),
           Run(r) \/ Crash(r)
    PROVE  Bookkept(r)'
<1>1. /\ pc \in [Runs -> Points] /\ plan \in [Runs -> Plan] /\ acc \in [Runs -> Account] /\ TypeOK
      /\ now \in Snaps /\ plan[r].at \in Snaps \cup {NoSnap} /\ plan[r].sendTo \subseteq Drives
  BY DEF BaseInv, TypeOK, Plan
<1>2. \A e \in acc[r].succ : ext'[e][plan[r].snap] = "complete"
  BY CountedStays
<1>3. ASSUME PlanSafe(plan'[r]), acc'[r] = acc[r], pc[r] \in Early, pc'[r] \in Early
      PROVE  Bookkept(r)'
  <2>1. acc[r].tried = {} /\ acc[r].succ = {} /\ acc[r].old = {}
    BY <1>3 DEF Bookkept
  <2> QED
    BY <1>3, <2>1 DEF Bookkept, Early, AtDrive, Cleaning
<1>4. CASE \E tier \in Tiers : PlanRun(r, tier)
  <2>1. pc[r] \in Early /\ pc'[r] \in Early /\ acc'[r] = acc[r]
    BY <1>1, <1>4 DEF PlanRun, Go, Early
  <2>2. PlanSafe(plan'[r])
    BY <1>1, <1>4, MadePlanSafe DEF PlanRun
  <2> QED
    BY <1>3, <2>1, <2>2
<1>5. CASE Replan(r)
  <2>1. pc[r] \in Early /\ pc'[r] \in Early /\ acc'[r] = acc[r]
    BY <1>1, <1>5 DEF Replan, Go, Early
  <2>2. PlanSafe(plan'[r])
    BY <1>1, <1>5, MadePlanSafe DEF Replan
  <2> QED
    BY <1>3, <2>1, <2>2
<1>6. CASE LockBusy(r)
  <2>1. pc[r] \in Early /\ pc'[r] \in Early /\ acc'[r] = acc[r] /\ plan'[r] = NoPlan
    BY <1>1, <1>6 DEF LockBusy, Go, Early
  <2>2. PlanSafe(plan'[r])
    BY <2>1 DEF PlanSafe, NoPlan
  <2> QED
    BY <1>3, <2>1, <2>2
<1>7. CASE Release(r) \/ Crash(r)
  <2>1. pc'[r] = "idle" /\ plan'[r] = NoPlan /\ acc'[r] = NoAccount
    BY <1>1, <1>7 DEF Release, Crash, Forget, Go
  <2> QED
    BY <2>1 DEF Bookkept, PlanSafe, NoPlan, NoAccount, Early, AtDrive, Cleaning
<1>8. CASE Cleanup(r)
  <2>1. /\ plan'[r].sendTo = plan[r].sendTo /\ plan'[r].snap = plan[r].snap
        /\ plan'[r].extDel = plan[r].extDel /\ acc'[r] = acc[r]
        /\ \/ pc'[r] = "release"
           \/ pc'[r] \in Cleaning /\ CleanupWork(r) /\ CleanupGate(r)
    BY <1>1, <1>8 DEF Cleanup, Go, Cleaning, Plan
  <2>2. CleanupWork(r) /\ CleanupGate(r) => acc[r].succ = acc[r].tried /\ acc[r].tried # {}
    BY DEF CleanupWork, CleanupGate, Bookkept
  <2> QED
    BY <1>2, <2>1, <2>2 DEF Bookkept, PlanSafe, Early, AtDrive, Cleaning
<1>9. CASE StopEarly(r)
  <2>1. /\ plan'[r].sendTo = plan[r].sendTo /\ plan'[r].snap = plan[r].snap
        /\ \A d \in Drives : plan'[r].extDel[d] = {}
    BY <1>1, <1>9 DEF StopEarly, Plan, NoPlan
  <2>2. acc'[r] = acc[r] /\ pc'[r] = "cleanup"
    BY <1>1, <1>9 DEF StopEarly, Go
  <2> QED
    BY <1>1, <1>2, <2>1, <2>2, BookkeptFrame DEF Early, AtDrive, Cleaning
<1>10. CASE \/ AcquireLock(r) \/ NothingPlanned(r) \/ CreateSnapshot(r) \/ CreateFails(r) \/ EndOps(r)
            \/ UnpinFails(r) \/ UnpinDone(r) \/ EndClean(r)
            \/ \E thinned \in SUBSET Snaps : EmergencyPreflight(r, thinned)
            \/ \E shed \in SUBSET Drives : ShedAwayPins(r, shed)
            \/ \E d \in Drives : Unpin(r, d)
  <2>1. /\ plan'[r].sendTo = plan[r].sendTo /\ plan'[r].snap = plan[r].snap
        /\ plan'[r].extDel = plan[r].extDel
    BY <1>1, <1>10 DEF AcquireLock, NothingPlanned, CreateSnapshot, CreateFails, EndOps, UnpinFails,
         UnpinDone, EndClean, EmergencyPreflight, ShedAwayPins, Unpin, Plan
  <2>2. acc'[r].tried = acc[r].tried /\ acc'[r].succ = acc[r].succ /\ acc'[r].old = acc[r].old
    BY <1>1, <1>10 DEF AcquireLock, NothingPlanned, CreateSnapshot, CreateFails, EndOps, UnpinFails,
         UnpinDone, EndClean, EmergencyPreflight, ShedAwayPins, Unpin, Account
  <2>3. /\ pc'[r] \in Early => pc[r] \in Early
        /\ pc'[r] \in Cleaning => pc[r] \in Cleaning
        /\ pc'[r] \notin AtDrive \cup {"extDelete"}
    BY <1>1, <1>10 DEF AcquireLock, NothingPlanned, CreateSnapshot, CreateFails, EndOps, UnpinFails,
         UnpinDone, EndClean, EmergencyPreflight, ShedAwayPins, Unpin, Go, Early, AtDrive, Cleaning
  <2> QED
    BY <1>2, <2>1, <2>2, <2>3, BookkeptFrame
<1> QED
  BY <1>4, <1>5, <1>6, <1>7, <1>8, <1>9, <1>10 DEF Edges, Turns, Ends

BookInv == \A r \in Runs : Bookkept(r)

LEMMA BookKept ==
    ASSUME BaseInv, CopyInv, BookInv, ~ShowMayFail, [Next]_vars
    PROVE  BookInv'
<1> SUFFICES ASSUME NEW q \in Runs PROVE Bookkept(q)'
  BY DEF BookInv
<1>1. Bookkept(q) /\ TypeOK /\ Exclusion /\ pc[q] \in Points
  BY DEF BookInv, BaseInv, TypeOK
<1>2. ASSUME UNCHANGED ext, plan'[q] = plan[q], acc'[q] = acc[q], pc'[q] = pc[q] PROVE Bookkept(q)'
  <2>1. DriveAt(q)' = DriveAt(q) /\ SendsLeft(q)' = SendsLeft(q)
    BY <1>2, DriveAtStays DEF SendsLeft
  <2> QED
    BY <1>1, <1>2, <2>1 DEF Bookkept
<1>3. ASSUME NEW r \in Runs, Run(r) \/ Crash(r) PROVE Bookkept(q)'
  <2>1. CASE q = r
    BY <1>1, <1>3, <2>1, RunSteps, SendBookkept, DeleteBookkept, OtherBookkept
  <2>2. CASE q # r /\ pc[q] \in Executing
    BY <1>1, <1>2, <1>3, <2>2, OthersStandStill DEF disk
  <2>3. CASE q # r /\ pc[q] \notin Executing
    <3>1. plan'[q] = plan[q] /\ acc'[q] = acc[q] /\ pc'[q] = pc[q]
      BY <1>1, <1>3, <2>3, PlansTyped, AccountsTyped, PointsTyped
    <3>2. pc[q] \in {"idle", "planned"}
      BY <1>1, <2>3 DEF Executing
    <3>3. acc[q].tried = {} /\ acc[q].succ = {}
      BY <1>1, <3>2 DEF Bookkept, Early
    <3> QED
      BY <1>1, <3>1, <3>2, <3>3 DEF Bookkept, Early, AtDrive, Cleaning
  <2> QED
    BY <2>1, <2>2, <2>3
<1>4. CASE \/ \E d \in Drives : Plug(d) \/ PinRots(d)
           \/ Tick \/ UNCHANGED vars
  BY <1>2, <1>4 DEF Plug, PinRots, Tick, disk, vars
<1> QED
  BY <1>3, <1>4 DEF Next

LEMMA BookStarts == Init => BookInv
BY DEF Init, BookInv, Bookkept, PlanSafe, NoPlan, NoAccount, Early, AtDrive, Cleaning

\* What the pins of the counted drives are: the send has moved them, unless a
\* write failed and closed the gate; a clear-all writes none and removes them.
PinsFollow(r) ==
    /\ pc[r] \in Cleaning => ~acc[r].pinFailed
    /\ pc[r] = "unpin" => ClearAll(r)
    /\ \A d \in acc[r].succ :
         /\ ~ClearAll(r) /\ ~acc[r].pinFailed => pin[d] \in {plan[r].snap, BadPin}
         /\ ClearAll(r) /\ pc[r] \in {"clean", "cleanDelete"} => pin[d] = NoSnap

\* A step that counts no send, enters no phase of the cleanup and moves no pin,
\* but for one that becomes unreadable.
LEMMA PinsFollowFrame ==
    ASSUME TypeOK, NEW r \in Runs, PinsFollow(r), acc[r].succ \subseteq Drives,
           plan'[r].tier = plan[r].tier, plan'[r].away = plan[r].away,
           plan'[r].snap = plan[r].snap,
           acc'[r].succ = acc[r].succ, acc'[r].pinFailed = acc[r].pinFailed,
           pc'[r] \in Cleaning => pc[r] \in Cleaning,
           pc'[r] = "unpin" => pc[r] = "unpin",
           pc'[r] \in {"clean", "cleanDelete"} => pc[r] \in {"clean", "cleanDelete"},
           \A d \in acc[r].succ : \/ pin'[d] = pin[d]
                                  \/ pin'[d] = BadPin /\ pin[d] # NoSnap
    PROVE  PinsFollow(r)'
BY DEF PinsFollow, ClearAll

\* While no send is counted there is nothing to show but the phase.
LEMMA PinsFollowEarly ==
    ASSUME NEW r \in Runs, acc'[r].succ = {}, pc'[r] \notin Cleaning
    PROVE  PinsFollow(r)'
BY DEF PinsFollow, Cleaning

\* A send that is counted has moved its pin, or closed the gate.
LEMMA SendPins ==
    ASSUME BaseInv, NEW r \in Runs, Bookkept(r), PinsFollow(r), NEW d \in Drives, Send(r, d)
    PROVE  PinsFollow(r)'
<1>1. /\ TypeOK /\ pc \in [Runs -> Points] /\ acc[r] \in Account /\ acc \in [Runs -> Account]
      /\ pin \in [Drives -> Snaps \cup {NoSnap, BadPin}] /\ acc[r].succ \subseteq Drives
  BY DEF BaseInv, TypeOK, Account
<1>2. UNCHANGED plan /\ pc'[r] \notin Cleaning
  BY <1>1 DEF Send, SkipSend, SendFails, AlreadySent, FindComplete, FindPartial, DeletePartial,
         StartReceiveBlind, StartReceive, ReceiveSucceeds, ReceiveFails, ClobberFails,
         WritePin, WritePinFails, AtExisting, SendTurn, DriveTurn, Go, Cleaning
<1>3. ASSUME \/ acc'[r] = acc[r] \/ Settle(r, d, FALSE), UNCHANGED pin PROVE PinsFollow(r)'
  <2>1. acc'[r].succ = acc[r].succ /\ acc'[r].pinFailed = acc[r].pinFailed
    BY <1>1, <1>3 DEF Settle, Account
  <2> QED
    BY <1>1, <1>2, <1>3, <2>1, PinsFollowFrame DEF Cleaning
<1>4. ASSUME Settle(r, d, TRUE), ClearAll(r) \/ pin'[d] = plan[r].snap,
             \A e \in Drives \ {d} : pin'[e] = pin[e]
      PROVE  PinsFollow(r)'
  <2>1. acc'[r].succ = acc[r].succ \cup {d} /\ acc'[r].pinFailed = acc[r].pinFailed
    BY <1>1, <1>4 DEF Settle, Account
  <2>2. ClearAll(r)' <=> ClearAll(r)
    BY <1>2 DEF ClearAll
  <2>3. ASSUME NEW e \in acc'[r].succ, ~ClearAll(r), ~acc[r].pinFailed
        PROVE  pin'[e] \in {plan[r].snap, BadPin}
    BY <1>1, <1>4, <2>1, <2>3 DEF PinsFollow
  <2> QED
    BY <1>2, <2>1, <2>2, <2>3 DEF PinsFollow, Cleaning
<1>5. CASE \/ SkipSend(r, d) \/ SendFails(r, d) \/ FindComplete(r, d) \/ FindPartial(r, d)
           \/ StartReceiveBlind(r, d) \/ ReceiveSucceeds(r, d)
  BY <1>3, <1>5 DEF SkipSend, SendFails, FindComplete, FindPartial, StartReceiveBlind,
                    ReceiveSucceeds, disk
<1>6. CASE \/ DeletePartial(r, d) \/ \E swept \in SUBSET Snaps : StartReceive(r, d, swept)
           \/ \E left \in {"none", "partial", "complete"} :
                ReceiveFails(r, d, left) \/ ClobberFails(r, d, left)
  BY <1>3, <1>6 DEF DeletePartial, StartReceive, ReceiveFails, ClobberFails
<1>7. CASE AlreadySent(r, d)
  BY <1>4, <1>7 DEF AlreadySent, disk
<1>8. CASE WritePin(r, d)
  BY <1>1, <1>4, <1>8 DEF WritePin
<1>9. CASE WritePinFails(r, d)
  <2>1. acc'[r].pinFailed /\ ~ClearAll(r)
    BY <1>1, <1>9 DEF WritePinFails, Account
  <2>2. ~ClearAll(r)'
    BY <1>2, <2>1 DEF ClearAll
  <2> QED
    BY <1>2, <2>1, <2>2 DEF PinsFollow, Cleaning
<1> QED
  BY <1>5, <1>6, <1>7, <1>8, <1>9 DEF Send

\* The cleanup is entered through its gate, and deletes once the pins are gone.
LEMMA OtherPins ==
    ASSUME BaseInv, NEW r \in Runs, Bookkept(r), PinsFollow(r),
           Edges(r) \/ Turns(r) \/ Ends(r) \/ Delete(r)
    PROVE  PinsFollow(r)'
<1>1. /\ TypeOK /\ pc \in [Runs -> Points] /\ plan \in [Runs -> Plan] /\ acc \in [Runs -> Account]
      /\ pin \in [Drives -> Snaps \cup {NoSnap, BadPin}] /\ acc[r].succ \subseteq Drives
  BY DEF BaseInv, TypeOK, Account
<1>2. pc[r] \in Early => acc[r].succ = {}
  BY DEF Bookkept
<1>3. CASE \/ \E tier \in Tiers : PlanRun(r, tier)
           \/ Replan(r) \/ \E shed \in SUBSET Drives : ShedAwayPins(r, shed)
  BY <1>1, <1>2, <1>3, PinsFollowEarly DEF PlanRun, Replan, ShedAwayPins, Go, Early, Cleaning
<1>4. CASE Ends(r)
  <2>1. acc'[r].succ = {} /\ pc'[r] = "idle"
    BY <1>1, <1>2, <1>4 DEF Ends, LockBusy, Release, Crash, Forget, Go, NoAccount, Early
  <2> QED
    BY <2>1, PinsFollowEarly DEF Cleaning
<1>5. CASE Cleanup(r)
  <2>1. /\ acc' = acc /\ UNCHANGED pin
        /\ UNCHANGED plan \/ \E S : plan' = [plan EXCEPT ![r].localDel = S]
    BY <1>5 DEF Cleanup, disk
  <2>2. /\ plan'[r].tier = plan[r].tier /\ plan'[r].away = plan[r].away
        /\ plan'[r].snap = plan[r].snap
    BY <1>1, <2>1 DEF Plan
  <2>3. ClearAll(r)' <=> ClearAll(r)
    BY <2>2 DEF ClearAll
  <2>4. \/ pc'[r] = "release"
        \/ CleanupGate(r) /\ pc'[r] = IF ClearAll(r) THEN "unpin" ELSE "clean"
    BY <1>1, <1>5 DEF Cleanup, Go
  <2>5. CASE pc'[r] = "release"
    BY <2>1, <2>2, <2>3, <2>5 DEF PinsFollow, Cleaning
  <2>6. CASE CleanupGate(r) /\ ClearAll(r) /\ pc'[r] = "unpin"
    BY <2>1, <2>3, <2>6 DEF PinsFollow, CleanupGate
  <2>7. CASE CleanupGate(r) /\ ~ClearAll(r) /\ pc'[r] = "clean"
    BY <2>1, <2>2, <2>3, <2>7 DEF PinsFollow, CleanupGate
  <2> QED
    BY <2>4, <2>5, <2>6, <2>7
<1>6. CASE \E d \in Drives : Unpin(r, d)
  <2>1. ClearAll(r) /\ UNCHANGED <<plan, acc, pc>> /\ pc[r] = "unpin"
    BY <1>6 DEF Unpin, PinsFollow
  <2>2. ClearAll(r)'
    BY <2>1 DEF ClearAll
  <2> QED
    BY <2>1, <2>2 DEF PinsFollow
<1>7. CASE UnpinDone(r)
  <2>1. /\ UNCHANGED <<plan, acc, pin>> /\ pc[r] = "unpin" /\ pc'[r] = "clean"
        /\ \A d \in acc[r].succ : pin[d] = NoSnap
    BY <1>1, <1>7 DEF UnpinDone, PinsToClear, Go, disk
  <2>2. ClearAll(r) /\ ClearAll(r)'
    BY <2>1 DEF PinsFollow, ClearAll
  <2> QED
    BY <2>1, <2>2 DEF PinsFollow, Cleaning
<1>8. CASE \/ AcquireLock(r) \/ NothingPlanned(r) \/ CreateSnapshot(r) \/ CreateFails(r)
           \/ EndOps(r) \/ StopEarly(r) \/ UnpinFails(r) \/ EndClean(r) \/ Delete(r)
           \/ \E thinned \in SUBSET Snaps : EmergencyPreflight(r, thinned)
  <2>1. UNCHANGED pin
    BY <1>8 DEF AcquireLock, NothingPlanned, CreateSnapshot, CreateFails, EndOps, StopEarly,
         UnpinFails, EndClean, EmergencyPreflight, Delete, DeleteLocal, DeleteExt, CheckLocal,
         DropLocal, CheckExt, DropExt, disk
  <2>2. acc'[r].succ = acc[r].succ /\ acc'[r].pinFailed = acc[r].pinFailed
    BY <1>1, <1>8 DEF AcquireLock, NothingPlanned, CreateSnapshot, CreateFails, EndOps, StopEarly,
         UnpinFails, EndClean, EmergencyPreflight, Delete, DeleteLocal, DeleteExt, CheckLocal,
         DropLocal, CheckExt, DropExt, Account
  <2>3. /\ plan'[r].tier = plan[r].tier /\ plan'[r].away = plan[r].away
        /\ plan'[r].snap = plan[r].snap
    BY <1>1, <1>8 DEF AcquireLock, NothingPlanned, CreateSnapshot, CreateFails, EndOps, StopEarly,
         UnpinFails, EndClean, EmergencyPreflight, Delete, DeleteLocal, DeleteExt, CheckLocal,
         DropLocal, CheckExt, DropExt, Plan
  <2>4. /\ pc'[r] \in Cleaning => pc[r] \in Cleaning
        /\ pc'[r] = "unpin" => pc[r] = "unpin"
        /\ pc'[r] \in {"clean", "cleanDelete"} => pc[r] \in {"clean", "cleanDelete"}
    BY <1>1, <1>8 DEF AcquireLock, NothingPlanned, CreateSnapshot, CreateFails, EndOps, StopEarly,
         UnpinFails, EndClean, EmergencyPreflight, Delete, DeleteLocal, DeleteExt, CheckLocal,
         DropLocal, CheckExt, DropExt, LocalTurn, ExtTurn, DriveTurn, Go, Cleaning
  <2> QED
    BY <1>1, <2>1, <2>2, <2>3, <2>4, PinsFollowFrame
<1> QED
  BY <1>3, <1>4, <1>5, <1>6, <1>7, <1>8 DEF Edges, Turns

PinBook == \A r \in Runs : PinsFollow(r)

LEMMA PinBookKept ==
    ASSUME BaseInv, BookInv, PinBook, [Next]_vars
    PROVE  PinBook'
<1> SUFFICES ASSUME NEW q \in Runs PROVE PinsFollow(q)'
  BY DEF PinBook
<1>1. /\ Bookkept(q) /\ PinsFollow(q) /\ TypeOK /\ Exclusion /\ pc[q] \in Points
      /\ pin \in [Drives -> Snaps \cup {NoSnap, BadPin}] /\ acc[q].succ \subseteq Drives
  BY DEF BookInv, PinBook, BaseInv, TypeOK, Account
<1>2. ASSUME UNCHANGED pin, plan'[q] = plan[q], acc'[q] = acc[q], pc'[q] = pc[q]
      PROVE  PinsFollow(q)'
  BY <1>1, <1>2, PinsFollowFrame
<1>3. ASSUME NEW r \in Runs, Run(r) \/ Crash(r) PROVE PinsFollow(q)'
  <2>1. CASE q = r
    BY <1>1, <1>3, <2>1, RunSteps, SendPins, OtherPins
  <2>2. CASE q # r /\ pc[q] \in Executing
    BY <1>1, <1>2, <1>3, <2>2, OthersStandStill DEF disk
  <2>3. CASE q # r /\ pc[q] \notin Executing
    <3>1. plan'[q] = plan[q] /\ acc'[q] = acc[q] /\ pc'[q] = pc[q]
      BY <1>1, <1>3, <2>3, PlansTyped, AccountsTyped, PointsTyped
    <3>2. pc[q] \in {"idle", "planned"}
      BY <1>1, <2>3 DEF Executing
    <3>3. acc[q].succ = {}
      BY <1>1, <3>2 DEF Bookkept, Early
    <3> QED
      BY <3>1, <3>2, <3>3, PinsFollowEarly DEF Cleaning
  <2> QED
    BY <2>1, <2>2, <2>3
<1>4. CASE \E d \in Drives : PinRots(d)
  <2>1. PICK d \in Drives : /\ pin[d] \in Snaps /\ pin' = [pin EXCEPT ![d] = BadPin]
                            /\ UNCHANGED <<pc, plan, acc>>
    BY <1>4 DEF PinRots
  <2>2. NoSnap \notin Snaps
    BY SnapAssumption DEF Snaps, NoSnap
  <2> QED
    BY <1>1, <2>1, <2>2, PinsFollowFrame
<1>5. CASE (\E d \in Drives : Plug(d)) \/ Tick \/ UNCHANGED vars
  BY <1>2, <1>5 DEF Plug, Tick, disk, vars
<1> QED
  BY <1>3, <1>4, <1>5 DEF Next

LEMMA PinBookStarts == Init => PinBook
BY DEF Init, PinBook, PinsFollow, NoAccount, Cleaning

\* The cleanup of a transient run deletes only when every drive a send was
\* tried on holds the snapshot of the run complete and no pin still leads back
\* to an older one, for any number of drives and of runs planning beside it.
THEOREM CleanupFollowsEverySend ==
    ASSUME ~ShowMayFail
    PROVE  Spec => CleanupAfterEverySend
<1> DEFINE Sent == \A r \in Runs : pc[r] = "cleanDelete" /\ local' # local =>
                     /\ acc[r].tried # {}
                     /\ \A d \in acc[r].tried :
                          /\ ext[d][plan[r].snap] = "complete"
                          /\ pin[d] \in IF ClearAll(r) THEN {NoSnap}
                                                        ELSE {plan[r].snap, BadPin}
<1>1. ASSUME BookInv, PinBook PROVE [Sent]_vars
  BY <1>1 DEF BookInv, Bookkept, PinBook, PinsFollow, Cleaning
<1>2. Init => BaseInv /\ CopyInv /\ BookInv /\ PinBook
  BY BaseStarts, CopyStarts, BookStarts, PinBookStarts
<1>3. BaseInv /\ CopyInv /\ BookInv /\ PinBook /\ [Next]_vars
        => (BaseInv /\ CopyInv /\ BookInv /\ PinBook)'
  BY BaseKept, CopyKept, BookKept, PinBookKept
<1> QED
  BY <1>1, <1>2, <1>3, PTL DEF Spec, CleanupAfterEverySend

(************************* the local end of a chain ************************)

\* Runs follow each other, as the timer starts them: none plans beside another.
OneAtATime == \A q, r \in Runs : q = r

\* From the plan to the last send.
Sending == {"planned", "locked", "armed", "ops", "opsDelete", "extDelete"} \cup AtDrive

\* What a run is to send is in the local directory, unless it is the snapshot
\* the run has still to take, or failed to.  No delete comes between: a
\* graduated plan spares it, and a transient run sends before it deletes.
CarriedIsLocal(r) ==
    plan[r].snap \in Snaps =>
        /\ pc[r] \in AtDrive => plan[r].snap \in local
        /\ pc[r] \in Sending /\ SendsLeft(r) # {} =>
             /\ \/ plan[r].snap \in local
                \/ plan[r].snap = plan[r].at /\ (plan[r].create \/ acc[r].createFailed)
             /\ ~IsTransient(r) => plan[r].snap \notin plan[r].localDel
             /\ pc[r] = "opsDelete" => acc[r].target # plan[r].snap

ParentInv == PinHasLocalParent /\ \A r \in Runs : CarriedIsLocal(r)

\* What a plan made while every pin has its parent carries and spares: what it
\* sends, and a snapshot of those it found.
LEMMA MadePlanSpares ==
    ASSUME TypeOK, PinHasLocalParent, NEW r \in Runs, NEW at \in Snaps \cup {NoSnap},
           NEW tier, NEW away, MakePlan(r, at, tier, away)
    PROVE  /\ plan'[r].tier = tier
           /\ \/ plan'[r].snap \in local \/ plan'[r].snap = NoSnap
              \/ plan'[r].snap = plan'[r].at /\ plan'[r].create
           /\ ~Transient(tier) =>
                /\ plan'[r].snap \notin plan'[r].localDel
                /\ plan'[r].localDel # {} => local \ plan'[r].localDel # {}
<1> DEFINE had(create, lost) == SeenLocal(lost) \cup (IF create THEN {at} ELSE {})
<1>1. PICK create \in BOOLEAN, lost \in Losses :
        \E sendTo \in SUBSET Sendable(Newest(had(create, lost)), lost),
           localDel \in SUBSET (SeenLocal(lost) \ Protected(tier, SeenLocal(lost))),
           extDel \in {f \in [Drives -> SUBSET Snaps] :
                         \A d \in Drives :
                           f[d] \subseteq Expirable(tier, Newest(had(create, lost)), lost)[d]} :
          \E gated \in SUBSET (sendTo \cap Gateable(ParentsIn(had(create, lost), lost))) :
            plan' = [plan EXCEPT ![r] =
              [at |-> at, tier |-> tier, away |-> away, create |-> create,
               snap |-> Newest(had(create, lost)), sendTo |-> sendTo, gated |-> gated,
               parent |-> ParentsIn(had(create, lost), lost),
               localDel |-> localDel, extDel |-> extDel]]
  BY DEF MakePlan
<1> DEFINE seen == SeenLocal(lost)
           have == had(create, lost)
           snap == Newest(have)
<1>2. /\ plan \in [Runs -> Plan] /\ local \in SUBSET Snaps
      /\ pin \in [Drives -> Snaps \cup {NoSnap, BadPin}]
  BY DEF TypeOK
<1>3. /\ have = seen \cup (IF create THEN {at} ELSE {})
      /\ seen \in SUBSET local /\ (seen # {} => seen = local)
  BY DEF SeenLocal
<1>4. PICK localDel \in SUBSET (seen \ Protected(tier, seen)) :
        /\ plan'[r].localDel = localDel /\ plan'[r].snap = snap /\ plan'[r].at = at
        /\ plan'[r].create = create /\ plan'[r].tier = tier
  <2> HIDE DEF had
  <2> QED
    BY <1>1, <1>2
<1> HIDE DEF seen, have, snap, had
<1>5. have \in SUBSET (Snaps \cup {NoSnap})
  BY <1>2, <1>3
<1>6. snap \in have \/ snap = NoSnap
  <2>1. CASE have = {}
    BY <2>1 DEF snap, Newest
  <2>2. CASE have # {}
    BY <1>5, <2>2, NewestIsLatest DEF snap
  <2> QED
    BY <2>1, <2>2
<1>7. ASSUME ~Transient(tier)
      PROVE  snap \notin localDel /\ (localDel # {} => local \ localDel # {})
  <2>1. localDel \cap (Pinned \cup IF Pinned = {} THEN seen ELSE Newer(seen, Pinned)) = {}
    BY <1>4, <1>7 DEF Protected, GraduatedProtected
  <2>2. SUFFICES ASSUME localDel # {}
                 PROVE  snap \notin localDel /\ local \ localDel # {}
    OBVIOUS
  <2>3. seen = local /\ Pinned # {}
    BY <1>3, <1>4, <2>1, <2>2
  <2>4. Pinned \in SUBSET Snaps /\ Pinned \subseteq local
    BY <1>2 DEF Pinned, PinHasLocalParent
  <2>5. Min(Pinned) \in Pinned
    BY <2>3, <2>4, MinIsOldest
  <2>6. snap \in have /\ snap >= Min(Pinned)
    <3>1. Min(Pinned) \in have
      BY <1>3, <2>3, <2>4, <2>5
    <3> QED
      BY <1>5, <3>1, NewestIsLatest DEF snap
  <2>7. snap = Min(Pinned) \/ snap > Min(Pinned)
    <3>1. snap \in Snaps \cup {NoSnap} /\ Min(Pinned) \in Snaps
      BY <1>5, <2>4, <2>5, <2>6
    <3>2. \A s \in Snaps \cup {NoSnap} : s \in Int
      BY SnapAssumption DEF Snaps, NoSnap
    <3> QED
      BY <2>6, <3>1, <3>2
  <2>8. snap \in localDel => snap \in Pinned \cup Newer(seen, Pinned)
    BY <1>4, <2>3, <2>5, <2>7 DEF Newer
  <2> QED
    BY <2>1, <2>3, <2>4, <2>5, <2>8
<1> QED
  BY <1>3, <1>4, <1>6, <1>7

\* A step that leaves the plan, the directory and the account, but for sends done.
LEMMA CarriedFrame ==
    ASSUME NEW r \in Runs, CarriedIsLocal(r), UNCHANGED local,
           plan'[r].snap = plan[r].snap, plan'[r].at = plan[r].at, plan'[r].tier = plan[r].tier,
           plan'[r].create = plan[r].create, plan'[r].sendTo = plan[r].sendTo,
           plan'[r].localDel \subseteq plan[r].localDel,
           acc[r].createFailed => acc'[r].createFailed, acc[r].tried \subseteq acc'[r].tried,
           pc'[r] \in AtDrive => pc[r] \in AtDrive, pc'[r] \in Sending => pc[r] \in Sending,
           pc'[r] # "opsDelete"
    PROVE  CarriedIsLocal(r)'
BY DEF CarriedIsLocal, SendsLeft, IsTransient

\* The sends of a run find what they carry.
LEMMA SendCarries ==
    ASSUME BaseInv, NEW r \in Runs, CarriedIsLocal(r), NEW d \in Drives, Send(r, d)
    PROVE  CarriedIsLocal(r)'
<1>1. pc \in [Runs -> Points] /\ acc \in [Runs -> Account] /\ TypeOK
  BY DEF BaseInv, TypeOK
<1>2. UNCHANGED <<local, plan>>
  BY DEF Send, SkipSend, SendFails, AlreadySent, FindComplete, FindPartial, DeletePartial,
         StartReceiveBlind, StartReceive, ReceiveSucceeds, ReceiveFails, ClobberFails,
         WritePin, WritePinFails, disk
<1>3. pc[r] \in AtDrive \cup {"ops"}
  <2>1. AtSend(r, d) \/ AtExisting(r, d) \/ SendTurn(r, d) => pc[r] \in {"ops", "free"}
    BY DEF AtSend, AtExisting, SendTurn, DriveTurn
  <2> QED
    BY <2>1 DEF Send, SkipSend, SendFails, AlreadySent, FindComplete, FindPartial, DeletePartial,
       StartReceiveBlind, StartReceive, CanFinalize, ReceiveSucceeds, ReceiveFails, ClobberFails,
       WritePin, WritePinFails, AtDrive
<1>4. acc'[r].createFailed = acc[r].createFailed /\ acc[r].tried \subseteq acc'[r].tried
  <2>1. ASSUME NEW ok \in BOOLEAN, Settle(r, d, ok)
        PROVE  acc'[r].createFailed = acc[r].createFailed /\ acc[r].tried \subseteq acc'[r].tried
    BY <1>1, <2>1 DEF Settle, Account
  <2>2. CASE WritePinFails(r, d)
    BY <1>1, <2>2 DEF WritePinFails, Account
  <2>3. \/ UNCHANGED acc \/ Settle(r, d, TRUE) \/ Settle(r, d, FALSE) \/ WritePinFails(r, d)
    BY DEF Send, SkipSend, SendFails, AlreadySent, FindComplete, FindPartial, DeletePartial,
           StartReceiveBlind, StartReceive, ReceiveSucceeds, ReceiveFails, ClobberFails, WritePin
  <2> QED
    BY <2>1, <2>2, <2>3
<1>5. CASE pc'[r] \notin AtDrive
  <2>1. pc'[r] = "ops"
    BY <1>1, <1>5 DEF Send, SkipSend, SendFails, AlreadySent, FindComplete, FindPartial,
         DeletePartial, StartReceiveBlind, StartReceive, ReceiveSucceeds, ReceiveFails, ClobberFails,
         WritePin, WritePinFails, AtExisting, SendTurn, DriveTurn, AtDrive, Go
  <2> QED
    BY <1>2, <1>3, <1>4, <2>1, CarriedFrame DEF Sending, AtDrive
<1>6. CASE pc[r] \in AtDrive /\ pc'[r] \in AtDrive
  BY <1>2, <1>4, <1>6, CarriedFrame DEF Sending, AtDrive
<1>7. CASE pc[r] = "ops" /\ pc'[r] \in AtDrive
  <2>1. ~Skipped(r, d) /\ SendTurn(r, d)
    BY <1>1, <1>7 DEF Send, SkipSend, SendFails, AlreadySent, FindComplete, FindPartial,
         DeletePartial, StartReceiveBlind, StartReceive, CanFinalize, ReceiveSucceeds, ReceiveFails,
         ClobberFails, WritePin, WritePinFails, AtExisting, AtSend, SendTurn, DriveTurn, AtDrive, Go
  <2>2. ~plan[r].create /\ SendsLeft(r) # {} /\ ~(acc[r].createFailed /\ plan[r].snap = plan[r].at)
    BY <2>1 DEF SendTurn, DriveTurn, Skipped
  <2>3. plan[r].snap \in Snaps =>
          plan[r].snap \in local /\ (~IsTransient(r) => plan[r].snap \notin plan[r].localDel)
    BY <1>7, <2>2 DEF CarriedIsLocal, Sending
  <2>4. IsTransient(r)' <=> IsTransient(r)
    BY <1>2 DEF IsTransient
  <2>5. pc'[r] # "opsDelete"
    BY <1>7 DEF AtDrive
  <2> QED
    BY <1>2, <2>3, <2>4, <2>5 DEF CarriedIsLocal
<1> QED
  BY <1>3, <1>5, <1>6, <1>7

\* So do its other steps.
LEMMA StepCarries ==
    ASSUME BaseInv, PinHasLocalParent, NEW r \in Runs, CarriedIsLocal(r), Run(r) \/ Crash(r)
    PROVE  CarriedIsLocal(r)'
<1>1. /\ pc \in [Runs -> Points] /\ plan \in [Runs -> Plan] /\ acc \in [Runs -> Account] /\ TypeOK
      /\ now \in Snaps /\ plan[r].at \in Snaps \cup {NoSnap}
  BY DEF BaseInv, TypeOK, Plan
<1>2. CASE \E d \in Drives : Send(r, d)
  BY <1>2, SendCarries
<1>3. CASE Ends(r)
  <2>1. plan'[r].snap = NoSnap
    BY <1>1, <1>3 DEF Ends, LockBusy, Release, Crash, Forget, NoPlan
  <2> QED
    BY <2>1, SnapAssumption DEF CarriedIsLocal, Snaps, NoSnap
<1>4. CASE Replan(r) \/ \E tier \in Tiers : PlanRun(r, tier)
  <2>1. PICK at \in Snaps \cup {NoSnap}, tier \in Tiers \cup {plan[r].tier},
             away \in {AwayOnly, plan[r].away} :
          MakePlan(r, at, tier, away) /\ pc'[r] \in {"planned", "armed"} /\ UNCHANGED <<local, acc>>
    <3>1. CASE Replan(r)
      BY <1>1, <3>1 DEF Replan, Go, disk
    <3>2. CASE \E tier \in Tiers : PlanRun(r, tier)
      <4>1. PICK tier \in Tiers : PlanRun(r, tier)
        BY <3>2
      <4>2. MakePlan(r, now, tier, AwayOnly) /\ pc'[r] = "planned" /\ UNCHANGED <<local, acc>>
        BY <1>1, <4>1 DEF PlanRun, Go, disk
      <4> QED
        BY <1>1, <4>2
    <3> QED
      BY <1>4, <3>1, <3>2
  <2>2. /\ \/ plan'[r].snap \in local \/ plan'[r].snap = NoSnap
           \/ plan'[r].snap = plan'[r].at /\ plan'[r].create
        /\ ~Transient(plan'[r].tier) => plan'[r].snap \notin plan'[r].localDel
    BY <1>1, <2>1, MadePlanSpares
  <2>3. NoSnap \notin Snaps
    BY SnapAssumption DEF Snaps, NoSnap
  <2> QED
    BY <2>1, <2>2, <2>3 DEF CarriedIsLocal, IsTransient, AtDrive
<1>5. CASE CreateSnapshot(r)
  <2>1. /\ plan'[r].snap = plan[r].snap /\ plan'[r].at = plan[r].at /\ plan'[r].tier = plan[r].tier
        /\ plan'[r].sendTo = plan[r].sendTo /\ plan'[r].localDel = plan[r].localDel
    BY <1>1, <1>5 DEF CreateSnapshot, Plan
  <2>2. local' = local \cup {plan[r].at} /\ UNCHANGED acc /\ pc[r] = "ops" /\ pc'[r] = "ops"
    BY <1>5 DEF CreateSnapshot
  <2> QED
    BY <2>1, <2>2 DEF CarriedIsLocal, SendsLeft, IsTransient, Sending, AtDrive
<1>6. CASE CreateFails(r)
  <2>1. /\ plan'[r].snap = plan[r].snap /\ plan'[r].at = plan[r].at /\ plan'[r].tier = plan[r].tier
        /\ plan'[r].sendTo = plan[r].sendTo /\ plan'[r].localDel = plan[r].localDel
    BY <1>1, <1>6 DEF CreateFails, Plan
  <2>2. acc'[r].createFailed = TRUE /\ acc'[r].tried = acc[r].tried
    BY <1>1, <1>6 DEF CreateFails, Account
  <2>3. UNCHANGED local /\ pc[r] = "ops" /\ pc'[r] = "ops"
    BY <1>6 DEF CreateFails, disk
  <2> QED
    BY <2>1, <2>2, <2>3 DEF CarriedIsLocal, SendsLeft, IsTransient, Sending, AtDrive
<1>7. CASE EndOps(r) \/ StopEarly(r) \/ Cleanup(r) \/ UnpinFails(r) \/ UnpinDone(r) \/ EndClean(r)
           \/ NothingPlanned(r) \/ \E d \in Drives : Unpin(r, d)
  <2>1. pc'[r] \in {"cleanup", "release"} \cup Cleaning
    BY <1>1, <1>7 DEF EndOps, StopEarly, Cleanup, UnpinFails, UnpinDone, EndClean, NothingPlanned,
                      Unpin, Go, Cleaning
  <2> QED
    BY <2>1 DEF CarriedIsLocal, Sending, AtDrive, Cleaning
<1>8. CASE AcquireLock(r) \/ \E shed \in SUBSET Drives : ShedAwayPins(r, shed)
  <2>1. pc[r] \in {"planned", "armed"} /\ pc'[r] \in {"locked", "ops"} /\ UNCHANGED <<local, plan, acc>>
    BY <1>1, <1>8 DEF AcquireLock, ShedAwayPins, Go, disk
  <2> QED
    BY <2>1, CarriedFrame DEF Sending, AtDrive
<1>9. CASE \E thinned \in SUBSET Snaps : EmergencyPreflight(r, thinned)
  <2>1. PICK thinned \in SUBSET Snaps : EmergencyPreflight(r, thinned)
    BY <1>9
  <2>2. CASE thinned = {}
    <3>1. pc[r] = "locked" /\ pc'[r] = "armed" /\ UNCHANGED <<local, plan, acc>>
      BY <1>1, <2>1, <2>2 DEF EmergencyPreflight, Go
    <3> QED
      BY <3>1, CarriedFrame DEF Sending, AtDrive
  <2>3. CASE thinned # {}
    <3>1. pc'[r] = "replan"
      BY <1>1, <2>1, <2>3 DEF EmergencyPreflight, Go
    <3> QED
      BY <3>1 DEF CarriedIsLocal, Sending, AtDrive
  <2> QED
    BY <2>2, <2>3
<1>10. CASE \E s \in Snaps : CheckLocal(r, s)
  <2>1. PICK s \in Snaps : CheckLocal(r, s)
    BY <1>10
  <2>2. CASE pc[r] = "clean"
    <3>1. pc'[r] = "cleanDelete"
      BY <1>1, <2>1, <2>2 DEF CheckLocal, Go
    <3> QED
      BY <3>1 DEF CarriedIsLocal, Sending, AtDrive
  <2>3. CASE pc[r] = "ops" /\ ~plan[r].create /\ (IsTransient(r) => DrivesLeft(r) = {})
    <3>1. /\ pc'[r] = "opsDelete" /\ acc'[r].target = s /\ s \in plan[r].localDel
          /\ UNCHANGED <<local, plan>>
          /\ acc'[r].tried = acc[r].tried /\ acc'[r].createFailed = acc[r].createFailed
      BY <1>1, <2>1, <2>3 DEF CheckLocal, Go, disk, Account
    <3>2. SendsLeft(r)' = SendsLeft(r) /\ SendsLeft(r) \subseteq DrivesLeft(r)
      BY <3>1 DEF SendsLeft, DrivesLeft
    <3>3. IsTransient(r)' <=> IsTransient(r)
      BY <3>1 DEF IsTransient
    <3> QED
      BY <2>3, <3>1, <3>2, <3>3 DEF CarriedIsLocal, Sending, AtDrive
  <2> QED
    BY <2>1, <2>2, <2>3 DEF CheckLocal, LocalTurn
<1>11. CASE DeleteLocal(r)
  <2>1. CASE pc[r] = "cleanDelete"
    <3>1. pc'[r] = "clean"
      BY <1>1, <1>11, <2>1 DEF DeleteLocal, Go
    <3> QED
      BY <3>1 DEF CarriedIsLocal, Sending, AtDrive
  <2>2. CASE pc[r] = "opsDelete"
    <3>1. /\ plan'[r].snap = plan[r].snap /\ plan'[r].at = plan[r].at /\ plan'[r].tier = plan[r].tier
          /\ plan'[r].create = plan[r].create /\ plan'[r].sendTo = plan[r].sendTo
          /\ plan'[r].localDel \subseteq plan[r].localDel
      BY <1>1, <1>11 DEF DeleteLocal, Plan
    <3>2. acc'[r].tried = acc[r].tried /\ acc'[r].createFailed = acc[r].createFailed
      BY <1>1, <1>11 DEF DeleteLocal, Account
    <3>3. local' = local \ {acc[r].target} /\ pc'[r] = "ops"
      BY <1>1, <1>11, <2>2 DEF DeleteLocal, Go
    <3>4. SendsLeft(r)' = SendsLeft(r) /\ (IsTransient(r)' <=> IsTransient(r))
      BY <3>1, <3>2 DEF SendsLeft, IsTransient
    <3> QED
      BY <2>2, <3>1, <3>2, <3>3, <3>4 DEF CarriedIsLocal, Sending, AtDrive
  <2> QED
    BY <1>11, <2>1, <2>2 DEF DeleteLocal
<1>12. CASE \/ \E s \in Snaps : DropLocal(r, s)
            \/ \E d \in Drives : DeleteExt(r, d) \/ \E s \in Snaps : CheckExt(r, d, s) \/ DropExt(r, d, s)
  <2>1. /\ plan'[r].snap = plan[r].snap /\ plan'[r].at = plan[r].at /\ plan'[r].tier = plan[r].tier
        /\ plan'[r].create = plan[r].create /\ plan'[r].sendTo = plan[r].sendTo
        /\ plan'[r].localDel \subseteq plan[r].localDel
    <3>1. CASE \E s \in Snaps : DropLocal(r, s)
      BY <1>1, <3>1 DEF DropLocal, Plan
    <3>2. CASE \E d \in Drives, s \in Snaps : CheckExt(r, d, s)
      BY <3>2 DEF CheckExt
    <3>3. CASE \E d \in Drives : DeleteExt(r, d) \/ \E s \in Snaps : DropExt(r, d, s)
      <4>1. PICK d \in Drives, s \in Snaps \cup {acc[r].target} :
              plan' = [plan EXCEPT ![r].extDel[d] = @ \ {s}]
        BY <3>3 DEF DeleteExt, DropExt
      <4> QED
        BY <1>1, <4>1 DEF Plan
    <3> QED
      BY <1>12, <3>1, <3>2, <3>3
  <2>2. /\ acc'[r].tried = acc[r].tried /\ acc'[r].createFailed = acc[r].createFailed
        /\ UNCHANGED local
    BY <1>1, <1>12 DEF DropLocal, DeleteExt, CheckExt, DropExt, disk, Account
  <2>3. \/ pc'[r] = pc[r] /\ pc[r] \in {"ops", "clean"}
        \/ pc'[r] \in {"ops", "extDelete"} /\ pc[r] \in {"ops", "extDelete"}
    BY <1>1, <1>12 DEF DropLocal, DeleteExt, CheckExt, DropExt, LocalTurn, ExtTurn, DriveTurn, Go
  <2> QED
    BY <2>1, <2>2, <2>3, CarriedFrame DEF Sending, AtDrive
<1>13. CASE Delete(r)
  BY <1>10, <1>11, <1>12, <1>13 DEF Delete
<1> QED
  BY <1>2, <1>3, <1>4, <1>5, <1>6, <1>7, <1>8, <1>9, <1>13, RunSteps DEF Turns, Edges

LEMMA ParentKept ==
    ASSUME OneAtATime, BaseInv, KnowInv, ParentInv, [Next]_vars
    PROVE  ParentInv'
<1>1. /\ pin \in [Drives -> Snaps \cup {NoSnap, BadPin}] /\ NoSnap \notin Snaps /\ BadPin \notin Snaps
      /\ PinHasLocalParent /\ \A q \in Runs : CarriedIsLocal(q)
  BY SnapAssumption DEF BaseInv, TypeOK, ParentInv, Snaps, NoSnap, BadPin
<1>2. CASE \E r \in Runs : Run(r) \/ Crash(r)
  <2>1. PICK r \in Runs : Run(r) \/ Crash(r)
    BY <1>2
  <2>2. \A q \in Runs : CarriedIsLocal(q)'
    BY <1>1, <2>1, StepCarries DEF OneAtATime
  <2>3. ASSUME NEW d \in Drives, pin'[d] \in Snaps PROVE pin'[d] \in local'
    <3>1. CASE pin'[d] # pin[d]
      <4>1. pin'[d] = plan[r].snap /\ pc[r] = "pinning" /\ UNCHANGED local
        BY <1>1, <2>1, <2>3, <3>1, PinMoves
      <4> QED
        BY <1>1, <2>3, <4>1 DEF CarriedIsLocal, AtDrive
    <3>2. CASE pin'[d] = pin[d]
      BY <1>1, <2>1, <2>3, <3>2, LocalLoss DEF PinHasLocalParent
    <3> QED
      BY <3>1, <3>2
  <2> QED
    BY <2>2, <2>3 DEF ParentInv, PinHasLocalParent
<1>3. CASE UNCHANGED <<local, pc, plan, acc>> /\ \A d \in Drives : pin'[d] \in {pin[d], BadPin}
  BY <1>1, <1>3 DEF ParentInv, PinHasLocalParent, CarriedIsLocal, SendsLeft, IsTransient
<1>4. CASE \E d \in Drives : Plug(d) \/ PinRots(d)
  BY <1>1, <1>3, <1>4 DEF Plug, PinRots, disk
<1>5. CASE Tick \/ UNCHANGED vars
  BY <1>3, <1>5 DEF Tick, disk, vars
<1> QED
  BY <1>2, <1>4, <1>5 DEF Next

LEMMA ParentStarts == Init => KnowInv /\ ParentInv
<1> SUFFICES ASSUME Init PROVE KnowInv /\ ParentInv
  OBVIOUS
<1>1. NoSnap \notin Snaps
  BY SnapAssumption DEF Snaps, NoSnap
<1>2. ParentInv
  BY <1>1 DEF Init, NoPlan, ParentInv, PinHasLocalParent, CarriedIsLocal
<1> QED
  BY <1>2, CopyStarts DEF CopyInv

\* Every pin file names a snapshot the local directory has, the parent of the
\* next incremental send: where runs follow each other, at every tier, under
\* both lifecycles, with lost listings, queries that fail and pins that rot.
THEOREM PinsHaveLocalParents ==
    ASSUME OneAtATime
    PROVE  Spec => []PinHasLocalParent
<1>1. ParentInv => PinHasLocalParent
  BY DEF ParentInv
<1>2. Init => BaseInv /\ KnowInv /\ ParentInv
  BY BaseStarts, ParentStarts
<1>3. BaseInv /\ KnowInv /\ ParentInv /\ [Next]_vars => (BaseInv /\ KnowInv /\ ParentInv)'
  BY BaseKept, KnowKept, ParentKept
<1> QED
  BY <1>1, <1>2, <1>3, PTL DEF Spec

(****************************** the last copy ******************************)

\* A roomy pool under graduated retention: the plan leaves a snapshot it found,
\* the deletes keep to the plan, and there is no cleanup.
LeavesOne(r) ==
    /\ plan[r].tier = "roomy" /\ pc[r] \notin Cleaning
    /\ pc[r] = "opsDelete" => acc[r].target \in plan[r].localDel
    /\ pc[r] \in Sending /\ plan[r].localDel # {} => local \ plan[r].localDel # {}

\* No drive holds a copy before the local directory holds a snapshot, which it
\* then keeps.
StoredHere == (\E d \in Drives, s \in Snaps : ext[d][s] = "complete") => local # {}

StoreInv == StoredHere /\ \A r \in Runs : LeavesOne(r)

\* A copy is made of what the local directory holds.
LEMMA CopiesComeFromHere ==
    ASSUME BaseInv, NEW r \in Runs, Run(r) \/ Crash(r), NEW d \in Drives, NEW s \in Snaps,
           ext[d][s] # "complete", ext'[d][s] = "complete"
    PROVE  local # {}
<1>1. ext \in [Drives -> [Snaps -> {"none", "partial", "complete"}]]
  BY DEF BaseInv, TypeOK
<1>2. CASE \E e \in Drives : Send(r, e)
  <2>1. PICK e \in Drives : Send(r, e)
    BY <1>2
  <2>2. CASE SkipSend(r, e) \/ SendFails(r, e) \/ AlreadySent(r, e) \/ FindComplete(r, e)
             \/ FindPartial(r, e) \/ StartReceiveBlind(r, e) \/ WritePin(r, e) \/ WritePinFails(r, e)
    BY <2>2 DEF SkipSend, SendFails, AlreadySent, FindComplete, FindPartial, StartReceiveBlind,
                WritePin, WritePinFails, disk
  <2>3. CASE ReceiveSucceeds(r, e)
    BY <2>3 DEF ReceiveSucceeds, CanFinalize
  <2>4. CASE DeletePartial(r, e)
    <3>1. UNCHANGED ext \/ ext' = [ext EXCEPT ![e][plan[r].snap] = "none"]
      BY <2>4 DEF DeletePartial
    <3> QED
      BY <1>1, <3>1
  <2>5. CASE \E left \in {"none", "partial", "complete"} : ReceiveFails(r, e, left)
    BY <1>1, <2>5 DEF ReceiveFails
  <2>6. CASE \E left \in {"none", "partial", "complete"} : ClobberFails(r, e, left)
    BY <1>1, <2>6 DEF ClobberFails, Copy
  <2>7. CASE \E swept \in SUBSET Snaps : StartReceive(r, e, swept)
    <3>1. PICK swept \in SUBSET Snaps :
            ext' = [ext EXCEPT ![e] = [t \in Snaps |->
                     IF t = plan[r].snap THEN "partial"
                     ELSE IF t \in swept THEN "none" ELSE ext[e][t]]]
      BY <1>1, <2>7 DEF StartReceive
    <3>2. ext'[d][s] \in {"partial", "none", ext[d][s]}
      BY <1>1, <3>1
    <3> QED
      BY <3>2
  <2> QED
    BY <2>1, <2>2, <2>3, <2>4, <2>5, <2>6, <2>7 DEF Send
<1>3. CASE Delete(r)
  <2>1. CASE \E e \in Drives : DeleteExt(r, e)
    BY <1>1, <2>1 DEF DeleteExt
  <2>2. CASE \/ DeleteLocal(r)
             \/ \E t \in Snaps : CheckLocal(r, t) \/ DropLocal(r, t)
             \/ \E e \in Drives, t \in Snaps : CheckExt(r, e, t) \/ DropExt(r, e, t)
    BY <2>2 DEF DeleteLocal, CheckLocal, DropLocal, CheckExt, DropExt, disk
  <2> QED
    BY <1>3, <2>1, <2>2 DEF Delete
<1>4. CASE Turns(r)
  BY <1>4 DEF Turns, AcquireLock, NothingPlanned, EndOps, UnpinDone, EndClean, Replan,
              CreateSnapshot, CreateFails, StopEarly, Cleanup, UnpinFails, disk
<1>5. CASE Edges(r)
  BY <1>5 DEF Edges, PlanRun, EmergencyPreflight, ShedAwayPins, Unpin, disk
<1>6. CASE Ends(r)
  <2>1. CASE LockBusy(r) \/ Release(r)
    BY <2>1 DEF LockBusy, Release, disk
  <2>2. CASE Crash(r)
    <3>1. PICK e \in Drives : CanFinalize(r, e)
      BY <2>2 DEF Crash
    <3> QED
      BY <3>1 DEF CanFinalize
  <2> QED
    BY <1>6, <2>1, <2>2 DEF Ends
<1> QED
  BY <1>2, <1>3, <1>4, <1>5, <1>6, RunSteps

\* The local directory, once it holds a snapshot, is never left without.
LEMMA LocalStays ==
    ASSUME BaseInv, NEW r \in Runs, LeavesOne(r), Run(r) \/ Crash(r), local # {}
    PROVE  local' # {}
<1>1. /\ local \in SUBSET Snaps /\ pc[r] # "cleanDelete"
  BY DEF BaseInv, TypeOK, LeavesOne, Cleaning
<1>2. CASE \E e \in Drives : Send(r, e)
  <2>1. UNCHANGED local
    BY <1>2 DEF Send, SkipSend, SendFails, AlreadySent, FindComplete, FindPartial, DeletePartial,
                StartReceiveBlind, StartReceive, ReceiveSucceeds, ReceiveFails, ClobberFails,
                WritePin, WritePinFails, disk
  <2> QED
    BY <2>1
<1>3. CASE Delete(r)
  <2>1. CASE DeleteLocal(r)
    <3>1. pc[r] = "opsDelete" /\ local' = local \ {acc[r].target}
      BY <1>1, <2>1 DEF DeleteLocal
    <3> QED
      BY <3>1 DEF LeavesOne, Sending
  <2>2. CASE \/ \E t \in Snaps : CheckLocal(r, t) \/ DropLocal(r, t)
             \/ \E e \in Drives : DeleteExt(r, e)
             \/ \E e \in Drives, t \in Snaps : CheckExt(r, e, t) \/ DropExt(r, e, t)
    BY <2>2 DEF DeleteExt, CheckLocal, DropLocal, CheckExt, DropExt, disk
  <2> QED
    BY <1>3, <2>1, <2>2 DEF Delete
<1>4. CASE Turns(r)
  BY <1>4 DEF Turns, AcquireLock, NothingPlanned, EndOps, UnpinDone, EndClean, Replan,
              CreateSnapshot, CreateFails, StopEarly, Cleanup, UnpinFails, disk
<1>5. CASE Edges(r)
  <2>1. CASE \E thinned \in SUBSET Snaps : EmergencyPreflight(r, thinned)
    <3>1. Newest(local) \in local
      BY <1>1, NewestIsLatest
    <3>2. Newest(local) \notin Thinnable
      BY DEF Thinnable
    <3> QED
      BY <2>1, <3>1, <3>2 DEF EmergencyPreflight
  <2>2. CASE \/ \E tier \in Tiers : PlanRun(r, tier)
             \/ \E shed \in SUBSET Drives : ShedAwayPins(r, shed)
             \/ \E e \in Drives : Unpin(r, e)
    BY <2>2 DEF PlanRun, ShedAwayPins, Unpin, disk
  <2> QED
    BY <1>5, <2>1, <2>2 DEF Edges
<1>6. CASE Ends(r)
  BY <1>6 DEF Ends, LockBusy, Release, Crash, disk
<1> QED
  BY <1>2, <1>3, <1>4, <1>5, <1>6, RunSteps

\* A step that adds nothing to the deletes and takes nothing from the directory.
LEMMA LeavesFrame ==
    ASSUME NEW r \in Runs, LeavesOne(r), local \subseteq local',
           plan'[r].tier = plan[r].tier, plan'[r].localDel \subseteq plan[r].localDel,
           pc'[r] \in Sending => pc[r] \in Sending,
           pc'[r] \notin Cleaning, pc'[r] # "opsDelete"
    PROVE  LeavesOne(r)'
BY DEF LeavesOne

LEMMA LeavesKept ==
    ASSUME Tiers \subseteq {"roomy"}, Declared = "graduated", BaseInv, PinHasLocalParent,
           NEW r \in Runs, LeavesOne(r), Run(r) \/ Crash(r)
    PROVE  LeavesOne(r)'
<1>1. /\ pc \in [Runs -> Points] /\ plan \in [Runs -> Plan] /\ acc \in [Runs -> Account] /\ TypeOK
      /\ now \in Snaps /\ plan[r].at \in Snaps \cup {NoSnap}
      /\ plan[r].tier = "roomy" /\ pc[r] \notin Cleaning
  BY DEF BaseInv, TypeOK, Plan, LeavesOne
<1>2. ~IsTransient(r) /\ ~Transient("roomy")
  BY <1>1 DEF IsTransient, Transient
<1>3. CASE \E d \in Drives : Send(r, d)
  <2>1. PICK d \in Drives : Send(r, d)
    BY <1>3
  <2>2. UNCHANGED <<local, plan>>
    BY <2>1 DEF Send, SkipSend, SendFails, AlreadySent, FindComplete, FindPartial, DeletePartial,
           StartReceiveBlind, StartReceive, ReceiveSucceeds, ReceiveFails, ClobberFails,
           WritePin, WritePinFails, disk
  <2>3. pc[r] \in AtDrive \cup {"ops"}
    <3>1. AtSend(r, d) \/ AtExisting(r, d) \/ SendTurn(r, d) => pc[r] \in {"ops", "free"}
      BY DEF AtSend, AtExisting, SendTurn, DriveTurn
    <3> QED
      BY <2>1, <3>1 DEF Send, SkipSend, SendFails, AlreadySent, FindComplete, FindPartial, DeletePartial,
         StartReceiveBlind, StartReceive, CanFinalize, ReceiveSucceeds, ReceiveFails, ClobberFails,
         WritePin, WritePinFails, AtDrive
  <2>4. pc'[r] \in AtDrive \cup {"ops"}
    BY <1>1, <2>1, <2>3 DEF Send, SkipSend, SendFails, AlreadySent, FindComplete, FindPartial,
         DeletePartial, StartReceiveBlind, StartReceive, ReceiveSucceeds, ReceiveFails, ClobberFails,
         WritePin, WritePinFails, AtDrive, Go
  <2> QED
    BY <2>2, <2>3, <2>4, LeavesFrame DEF Sending, AtDrive, Cleaning
<1>4. CASE Ends(r)
  <2>1. plan'[r] = NoPlan /\ pc'[r] = "idle"
    BY <1>1, <1>4 DEF Ends, LockBusy, Release, Crash, Forget, Go
  <2> QED
    BY <2>1 DEF NoPlan, LeavesOne, Cleaning
<1>5. CASE Replan(r) \/ \E tier \in Tiers : PlanRun(r, tier)
  <2>1. PICK at \in Snaps \cup {NoSnap}, away \in {AwayOnly, plan[r].away} :
          MakePlan(r, at, "roomy", away) /\ pc'[r] \in {"planned", "armed"} /\ UNCHANGED local
    <3>1. CASE Replan(r)
      BY <1>1, <3>1 DEF Replan, Go, disk
    <3>2. CASE \E tier \in Tiers : PlanRun(r, tier)
      <4>1. PlanRun(r, "roomy")
        BY <3>2
      <4>2. MakePlan(r, now, "roomy", AwayOnly) /\ pc'[r] = "planned" /\ UNCHANGED local
        BY <1>1, <4>1 DEF PlanRun, Go, disk
      <4> QED
        BY <1>1, <4>2
    <3> QED
      BY <1>5, <3>1, <3>2
  <2>2. plan'[r].tier = "roomy" /\ (plan'[r].localDel # {} => local \ plan'[r].localDel # {})
    BY <1>1, <1>2, <2>1, MadePlanSpares
  <2> QED
    BY <2>1, <2>2 DEF LeavesOne, Cleaning
<1>6. CASE CreateSnapshot(r) \/ CreateFails(r)
  <2>1. /\ plan'[r].tier = plan[r].tier /\ plan'[r].localDel = plan[r].localDel
        /\ local \subseteq local' /\ pc'[r] = pc[r] /\ pc[r] = "ops"
    BY <1>1, <1>6 DEF CreateSnapshot, CreateFails, Plan, disk
  <2> QED
    BY <2>1, LeavesFrame DEF Cleaning
<1>7. CASE EndOps(r) \/ StopEarly(r) \/ Cleanup(r) \/ NothingPlanned(r) \/ AcquireLock(r)
           \/ \E shed \in SUBSET Drives : ShedAwayPins(r, shed)
  <2>1. UNCHANGED local
    BY <1>7 DEF EndOps, StopEarly, Cleanup, NothingPlanned, AcquireLock, ShedAwayPins, disk
  <2>2. /\ plan'[r].tier = plan[r].tier /\ plan'[r].localDel \subseteq plan[r].localDel
    <3>1. CASE StopEarly(r)
      BY <1>1, <3>1 DEF StopEarly, Plan
    <3>2. CASE Cleanup(r)
      BY <1>2, <3>2 DEF Cleanup, CleanupWork
    <3> QED
      BY <1>7, <3>1, <3>2 DEF EndOps, NothingPlanned, AcquireLock, ShedAwayPins
  <2>3. /\ pc[r] \in {"planned", "armed", "ops", "cleanup"}
        /\ \/ pc'[r] \in {"cleanup", "release"}
           \/ pc'[r] \in {"locked", "ops"} /\ pc[r] \in {"planned", "armed"}
    BY <1>1, <1>2, <1>7 DEF EndOps, StopEarly, Cleanup, CleanupWork, NothingPlanned, AcquireLock,
                           ShedAwayPins, Go
  <2> QED
    BY <2>1, <2>2, <2>3, LeavesFrame DEF Sending, AtDrive, Cleaning
<1>8. CASE \E thinned \in SUBSET Snaps : EmergencyPreflight(r, thinned)
  <2>1. PICK thinned \in SUBSET Snaps : EmergencyPreflight(r, thinned)
    BY <1>8
  <2>2. /\ pc[r] = "locked" /\ UNCHANGED plan
        /\ \/ thinned = {} /\ pc'[r] = "armed" /\ local' = local
           \/ pc'[r] = "replan"
    BY <1>1, <2>1 DEF EmergencyPreflight, Go
  <2> QED
    BY <2>2, LeavesFrame DEF LeavesOne, Sending, AtDrive, Cleaning
<1>9. CASE UnpinFails(r) \/ UnpinDone(r) \/ EndClean(r) \/ \E d \in Drives : Unpin(r, d)
  BY <1>1, <1>9 DEF UnpinFails, UnpinDone, EndClean, Unpin, Cleaning
<1>10. CASE \E s \in Snaps : CheckLocal(r, s)
  <2>1. PICK s \in Snaps : CheckLocal(r, s)
    BY <1>10
  <2>2. /\ pc[r] = "ops" /\ pc'[r] = "opsDelete" /\ acc'[r].target = s /\ s \in plan[r].localDel
        /\ UNCHANGED <<local, plan>>
    BY <1>1, <2>1 DEF CheckLocal, LocalTurn, Cleaning, Go, disk, Account
  <2> QED
    BY <1>1, <2>2 DEF LeavesOne, Sending, Cleaning
<1>11. CASE DeleteLocal(r)
  <2>1. pc[r] = "opsDelete" /\ pc'[r] = "ops" /\ local' = local \ {acc[r].target}
    BY <1>1, <1>11 DEF DeleteLocal, Cleaning, Go
  <2>2. plan'[r].tier = plan[r].tier /\ plan'[r].localDel = plan[r].localDel \ {acc[r].target}
    BY <1>1, <1>11 DEF DeleteLocal, Plan
  <2> QED
    BY <1>1, <2>1, <2>2 DEF LeavesOne, Sending, Cleaning
<1>12. CASE \/ \E s \in Snaps : DropLocal(r, s)
            \/ \E d \in Drives : DeleteExt(r, d) \/ \E s \in Snaps : CheckExt(r, d, s) \/ DropExt(r, d, s)
  <2>1. plan'[r].tier = plan[r].tier /\ plan'[r].localDel \subseteq plan[r].localDel
    <3>1. CASE \E s \in Snaps : DropLocal(r, s)
      BY <1>1, <3>1 DEF DropLocal, Plan
    <3>2. CASE \E d \in Drives, s \in Snaps : CheckExt(r, d, s)
      BY <3>2 DEF CheckExt
    <3>3. CASE \E d \in Drives : DeleteExt(r, d) \/ \E s \in Snaps : DropExt(r, d, s)
      <4>1. PICK d \in Drives, s \in Snaps \cup {acc[r].target} :
              plan' = [plan EXCEPT ![r].extDel[d] = @ \ {s}]
        BY <3>3 DEF DeleteExt, DropExt
      <4> QED
        BY <1>1, <4>1 DEF Plan
    <3> QED
      BY <1>12, <3>1, <3>2, <3>3
  <2>2. UNCHANGED local /\ pc[r] \in {"ops", "extDelete"} /\ pc'[r] \in {"ops", "extDelete"}
    BY <1>1, <1>12 DEF DropLocal, DeleteExt, CheckExt, DropExt, LocalTurn, ExtTurn, DriveTurn, Go,
                       disk, Cleaning
  <2> QED
    BY <2>1, <2>2, LeavesFrame DEF Sending, AtDrive, Cleaning
<1>13. CASE Delete(r)
  BY <1>10, <1>11, <1>12, <1>13 DEF Delete
<1> QED
  BY <1>3, <1>4, <1>5, <1>6, <1>7, <1>8, <1>9, <1>13, RunSteps DEF Turns, Edges

LEMMA StoreKept ==
    ASSUME OneAtATime, Tiers \subseteq {"roomy"}, Declared = "graduated",
           BaseInv, PinHasLocalParent, StoreInv, [Next]_vars
    PROVE  StoreInv' /\ (local # {} => local' # {})
<1>1. CASE \E r \in Runs : Run(r) \/ Crash(r)
  <2>1. PICK r \in Runs : Run(r) \/ Crash(r)
    BY <1>1
  <2>2. LeavesOne(r) /\ StoredHere
    BY DEF StoreInv
  <2>3. \A q \in Runs : LeavesOne(q)'
    BY <2>1, <2>2, LeavesKept DEF OneAtATime
  <2>4. local # {} => local' # {}
    BY <2>1, <2>2, LocalStays
  <2>5. StoredHere'
    <3>1. SUFFICES ASSUME NEW d \in Drives, NEW s \in Snaps, ext'[d][s] = "complete"
                   PROVE  local' # {}
      BY DEF StoredHere
    <3> QED
      BY <2>1, <2>2, <2>4, <3>1, CopiesComeFromHere DEF StoredHere
  <2> QED
    BY <2>3, <2>4, <2>5 DEF StoreInv
<1>2. CASE UNCHANGED <<local, ext, pc, plan, acc>>
  BY <1>2 DEF StoreInv, StoredHere, LeavesOne
<1> QED
  BY <1>1, <1>2 DEF Next, Plug, PinRots, Tick, vars, disk

LEMMA StoreStarts == Init => StoreInv
BY DEF Init, NoPlan, StoreInv, StoredHere, LeavesOne, Cleaning

\* Neither the retention of a graduated subvolume nor the emergency pre-flight
\* takes the last snapshot, here or on a drive, while the pool is roomy and runs
\* follow each other: whatever cannot be listed, queried or read.
THEOREM LastCopyStays ==
    ASSUME OneAtATime, Tiers \subseteq {"roomy"}, Declared = "graduated"
    PROVE  Spec => LastCopySurvives
<1> DEFINE Stays == Stored => Stored'
<1>1. ASSUME BaseInv, PinHasLocalParent, StoreInv, [Next]_vars PROVE [Stays]_vars
  <2>1. local # {} => local' # {}
    BY <1>1, StoreKept
  <2>2. Stored => local # {}
    BY <1>1 DEF Stored, StoreInv, StoredHere
  <2> QED
    BY <2>1, <2>2 DEF Stored
<1>2. ParentInv => PinHasLocalParent
  BY DEF ParentInv
<1>3. Init => BaseInv /\ KnowInv /\ ParentInv /\ StoreInv
  BY BaseStarts, ParentStarts, StoreStarts
<1>4. BaseInv /\ KnowInv /\ ParentInv /\ StoreInv /\ [Next]_vars
        => (BaseInv /\ KnowInv /\ ParentInv /\ StoreInv)'
  BY <1>2, BaseKept, KnowKept, ParentKept, StoreKept
<1> QED
  BY <1>1, <1>2, <1>3, <1>4, PTL DEF Spec, LastCopySurvives

=============================================================================
