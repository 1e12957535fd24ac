------------------------- MODULE PoolPressureProofs -------------------------
(***************************************************************************)
(* The guard of a source pool, for any pools, floors, runs and readings:    *)
(* who holds the lock acts alone, the sentinel sheds only what was low      *)
(* under its lock, no armed tier hides a pool below its floor, and a tier   *)
(* that was lowered stays lowered while the readings hover.                 *)
(***************************************************************************)
EXTENDS PoolPressure, TLAPS

(******************************** the tier *********************************)

\* Whatever is read, the resolved tier is a tier.
LEMMA ResolveTyped ==
    ASSUME NEW p \in Pools, NEW prior \in Tiers, NEW f \in Nat \cup {Unread}
    PROVE  Resolve(p, prior, f) \in Tiers
<1>1. ByRatio(p, prior, f) \in Tiers
  BY DEF ByRatio, Classified, Tiers, Roomy, Tight, Critical
<1> QED
  BY <1>1 DEF Resolve, Tiers, Roomy, Critical

\* Below a floor that lies within the critical ratio, every reading arms.
LEMMA LowArms ==
    ASSUME NEW p \in Pools, NEW prior \in Tiers, NEW f \in Nat,
           f < Floor[p], 100 * Floor[p] <= 15 * Cap[p]
    PROVE  Resolve(p, prior, f) >= Tight
<1>1. Floor[p] \in Nat /\ Cap[p] \in Nat
  BY PoolAssumption
<1>2. ~GateForcesRoomy(p, prior, f)
  BY <1>1 DEF GateForcesRoomy
<1>3. Classified(p, f) = Critical
  BY <1>1 DEF Classified
<1>4. ByRatio(p, prior, f) = Critical
  BY <1>1, <1>3 DEF ByRatio, Tiers, Roomy, Tight, Critical
<1>5. f # Unread
  BY DEF Unread
<1> QED
  BY <1>2, <1>4, <1>5 DEF Resolve, Tight, Critical

\* The bands of the ratio and of the headroom gate absorb a small drop.
LEMMA LoweredStands ==
    ASSUME NEW p \in Pools, NEW prior \in Tiers, NEW f \in Nat,
           Resolve(p, prior, f) < prior
    PROVE  Stands(p, Resolve(p, prior, f), f)
<1> DEFINE t == Resolve(p, prior, f)
<1>1. Floor[p] \in Nat /\ Cap[p] \in Nat /\ f # Unread
  BY PoolAssumption DEF Unread
<1> SUFFICES ASSUME NEW g \in Levels[p],
                    2 * g + Floor[p] >= 2 * f, 100 * g + 5 * Cap[p] >= 100 * f
             PROVE  Resolve(p, t, g) <= t
  BY DEF Stands
<1>2. g \in Nat /\ g # Unread
  BY PoolAssumption DEF Unread
<1>3. CASE GateForcesRoomy(p, prior, f)
  <2>1. t = Roomy
    BY <1>1, <1>3 DEF Resolve
  <2>2. prior # Roomy
    BY <2>1 DEF Roomy
  <2>3. Floor[p] > 0 /\ g >= 3 * Floor[p]
    BY <1>1, <1>2, <1>3, <2>2 DEF GateForcesRoomy
  <2>4. GateForcesRoomy(p, t, g)
    BY <2>1, <2>3 DEF GateForcesRoomy
  <2> QED
    BY <1>2, <2>1, <2>4 DEF Resolve, Roomy
<1>4. CASE ~GateForcesRoomy(p, prior, f)
  <2>1. t = ByRatio(p, prior, f)
    BY <1>1, <1>4 DEF Resolve
  <2>2. ByRatio(p, t, g) <= t
    <3>1. CASE t = Roomy
      <4>1. 100 * f > 30 * Cap[p]
        BY <1>1, <2>1, <3>1 DEF ByRatio, Classified, Tiers, Roomy, Tight, Critical
      <4>2. Classified(p, g) = Roomy
        BY <1>1, <1>2, <4>1 DEF Classified
      <4> QED
        BY <3>1, <4>2 DEF ByRatio, Roomy, Tight, Critical
    <3>2. CASE t = Tight
      <4>1. prior = Critical /\ 100 * f > 25 * Cap[p]
        BY <1>1, <2>1, <3>2 DEF ByRatio, Classified, Tiers, Roomy, Tight, Critical
      <4>2. Classified(p, g) <= Tight
        BY <1>1, <1>2, <4>1 DEF Classified, Roomy, Tight
      <4> QED
        BY <3>2, <4>2 DEF ByRatio, Roomy, Tight, Critical
    <3> QED
      BY <3>1, <3>2, <1>1, ResolveTyped DEF Tiers, Roomy, Tight, Critical
  <2>3. CASE GateForcesRoomy(p, t, g)
    BY <1>1, <1>2, <2>3, ResolveTyped DEF Resolve, Tiers, Roomy, Critical
  <2>4. CASE ~GateForcesRoomy(p, t, g)
    BY <1>2, <2>2, <2>4 DEF Resolve
  <2> QED
    BY <2>3, <2>4
<1> QED
  BY <1>3, <1>4

(******************************* the typing ********************************)

HostTyped == free \in [Pools -> Nat] /\ sheddable \in SUBSET Pools
RunsTyped == /\ pc \in [Runs -> {"idle", "gathered", "locked", "sending"}]
             /\ arming \in [Runs -> Arming] /\ starts \in 0..MaxStarts
LockTyped == lock \in Runs \cup {Sentinel, Nobody}

ActorsTyped == /\ HostTyped /\ RunsTyped /\ LockTyped
               /\ armed \in [Pools -> Tiers] /\ eject \in Ejection

LEMMA TypeParts == TypeOK <=> ActorsTyped /\ lowSince \in SUBSET Pools
BY DEF TypeOK, ActorsTyped, HostTyped, RunsTyped, LockTyped

LEMMA NothingArmed == NoArming \in Arming
<1>1. [p \in Pools |-> Roomy] \in [Pools -> Tiers]
  BY DEF Tiers, Roomy, Critical
<1> QED
  BY <1>1 DEF NoArming, Arming

LEMMA GatherTyped ==
    ASSUME TypeOK, NEW r \in Runs, NEW dark, NEW lost, Gather(r, dark, lost)
    PROVE  RunsTyped'
<1> DEFINE prior(p) == IF lost \/ p \notin Keyed THEN Roomy ELSE armed[p]
           read(p) == IF p \in dark THEN Unread ELSE free[p]
           tier == [p \in Pools |-> Resolve(p, prior(p), read(p))]
           low == {p \in SendPools \ dark : Low(p)}
           new == [tier |-> tier, low |-> low, watched |-> {}, blind |-> {}]
<1>1. \A p \in Pools : prior(p) \in Tiers /\ read(p) \in Nat \cup {Unread}
  BY DEF TypeOK, Tiers, Roomy, Critical
<1>2. tier \in [Pools -> Tiers]
  BY <1>1, ResolveTyped
<1>3. new \in Arming
  BY <1>2 DEF Arming, SendPools
<1>4. arming' = [arming EXCEPT ![r] = new]
  BY DEF Gather
<1>5. arming' \in [Runs -> Arming]
  BY <1>3, <1>4 DEF TypeOK
<1>6. pc' \in [Runs -> {"idle", "gathered", "locked", "sending"}]
  BY DEF TypeOK, Gather
<1>7. starts' \in 0..MaxStarts
  BY ActorAssumption DEF TypeOK, Gather
<1> QED
  BY <1>5, <1>6, <1>7 DEF RunsTyped

LEMMA EndsTyped ==
    ASSUME TypeOK, NEW r \in Runs, Ends(r)
    PROVE  RunsTyped' /\ LockTyped' /\ HostTyped' /\ eject' = eject
<1>1. arming' \in [Runs -> Arming]
  BY NothingArmed DEF TypeOK, Ends
<1>2. pc' \in [Runs -> {"idle", "gathered", "locked", "sending"}]
  BY DEF TypeOK, Ends
<1> QED
  BY <1>1, <1>2 DEF TypeOK, Ends, RunsTyped, LockTyped, HostTyped, host

LEMMA ArmTyped ==
    ASSUME TypeOK, NEW r \in Runs, NEW dark, ArmWatchdog(r, dark)
    PROVE  RunsTyped'
<1> DEFINE armedPools == {p \in SendPools : arming[r].tier[p] >= Tight}
           new == [arming[r] EXCEPT !.watched = armedPools \ dark,
                                    !.blind = armedPools \cap dark]
<1>1. arming[r] \in Arming
  BY DEF TypeOK
<1>2. armedPools \in SUBSET Pools
  BY DEF SendPools
<1>3. new \in Arming
  BY <1>1, <1>2 DEF Arming
<1>4. arming' = [arming EXCEPT ![r] = new]
  BY <1>1 DEF ArmWatchdog, TypeOK
<1>5. arming' \in [Runs -> Arming]
  BY <1>3, <1>4 DEF TypeOK
<1>6. pc' \in [Runs -> {"idle", "gathered", "locked", "sending"}] /\ starts' = starts
  BY DEF TypeOK, ArmWatchdog
<1> QED
  BY <1>5, <1>6 DEF RunsTyped, TypeOK

LEMMA ShedTyped ==
    ASSUME TypeOK, NEW p, NEW readable, Shed(p, readable)
    PROVE  HostTyped'
BY DEF TypeOK, HostTyped, Shed

LEMMA AdvanceTyped ==
    ASSUME TypeOK, NEW queue \in SUBSET Pools, Advance(queue)
    PROVE  eject' \in Ejection /\ LockTyped'
<1>1. CASE queue = {}
  BY <1>1 DEF Advance, NoEjection, Ejection, LockTyped
<1>2. CASE queue # {}
  <2>1. lock' = Sentinel
    BY <1>2 DEF Advance
  <2>2. PICK p \in queue :
          eject' = [phase |-> "reconfirm", current |-> p, queue |-> queue \ {p}]
    BY <1>2 DEF Advance
  <2> QED
    BY <2>1, <2>2 DEF Ejection, LockTyped
<1> QED
  BY <1>1, <1>2

\* A run's step, and a step of the sentinel, keep every variable but the
\* history typed.
LEMMA RunKeepsType ==
    ASSUME TypeOK, NEW r \in Runs, Run(r)
    PROVE  ActorsTyped'
<1> USE DEF host, runs
<1>0. HostTyped /\ RunsTyped /\ LockTyped /\ armed \in [Pools -> Tiers] /\ eject \in Ejection
  BY TypeParts DEF ActorsTyped
<1>1. ASSUME NEW dark \in SUBSET Unreadable, NEW lost \in BOOLEAN, Gather(r, dark, lost)
      PROVE  ActorsTyped'
  <2>1. RunsTyped'
    BY <1>1, GatherTyped
  <2>2. UNCHANGED <<free, sheddable, armed, lock, eject>>
    BY <1>1 DEF Gather
  <2> QED
    BY <1>0, <2>1, <2>2 DEF ActorsTyped, HostTyped, LockTyped
<1>2. ASSUME AcquireLock(r) PROVE ActorsTyped'
  BY <1>0, <1>2 DEF AcquireLock, ActorsTyped, HostTyped, LockTyped, RunsTyped
<1>3. ASSUME Ends(r), armed' = armed PROVE ActorsTyped'
  BY <1>0, <1>3, EndsTyped DEF ActorsTyped
<1>4. ASSUME NEW dark \in SUBSET Unreadable, ArmWatchdog(r, dark) PROVE ActorsTyped'
  <2>1. RunsTyped'
    BY <1>4, ArmTyped
  <2>2. UNCHANGED <<free, sheddable, armed, lock, eject>>
    BY <1>4 DEF ArmWatchdog
  <2> QED
    BY <1>0, <2>1, <2>2 DEF ActorsTyped, HostTyped, LockTyped
<1>5. ASSUME NEW p \in Pools, SendFrom(r, p) PROVE ActorsTyped'
  BY <1>0, <1>5 DEF SendFrom, ActorsTyped, HostTyped, LockTyped, RunsTyped
<1>6. ASSUME NEW p \in Pools, NEW readable, WatchdogReclaims(r, p, readable)
      PROVE  ActorsTyped'
  <2>1. HostTyped'
    BY <1>6, ShedTyped DEF WatchdogReclaims
  <2>2. UNCHANGED <<armed, lock, pc, arming, starts, eject>>
    BY <1>6 DEF WatchdogReclaims
  <2> QED
    BY <1>0, <2>1, <2>2 DEF ActorsTyped, LockTyped, RunsTyped
<1>7. ASSUME NEW failed \in SUBSET Pools, WriteBack(r, failed) PROVE ActorsTyped'
  <2>1. arming[r].tier \in [Pools -> Tiers]
    BY <1>0 DEF RunsTyped, Arming
  <2>2. armed' \in [Pools -> Tiers]
    BY <1>0, <1>7, <2>1 DEF WriteBack
  <2>3. Ends(r)
    BY <1>7 DEF WriteBack
  <2> QED
    BY <1>0, <2>2, <2>3, EndsTyped DEF ActorsTyped
<1>8. CASE Refused(r) \/ EmptyPlan(r) \/ TailFails(r) \/ RunKilled(r)
  BY <1>3, <1>8 DEF Refused, EmptyPlan, TailFails, RunKilled
<1> QED
  BY <1>1, <1>2, <1>4, <1>5, <1>6, <1>7, <1>8 DEF Run

LEMMA EjectKeepsType ==
    ASSUME TypeOK, Eject
    PROVE  ActorsTyped'
<1> USE DEF host, runs
<1>0. HostTyped /\ RunsTyped /\ LockTyped /\ armed \in [Pools -> Tiers] /\ eject \in Ejection
  BY TypeParts DEF ActorsTyped
<1>q. eject.queue \in SUBSET Pools
  BY <1>0 DEF Ejection
<1>a. ASSUME UNCHANGED <<sheddable, free, armed, pc, arming, starts>>,
             eject' \in Ejection, LockTyped'
      PROVE  ActorsTyped'
  BY <1>0, <1>a DEF ActorsTyped, HostTyped, RunsTyped
<1>1. ASSUME NEW dark \in SUBSET Unreadable, Sample(dark) PROVE ActorsTyped'
  <2>1. eject' \in Ejection
    BY <1>1 DEF Sample, Ejection, Ejectable, SendPools
  <2> QED
    BY <1>0, <1>1, <1>a, <2>1 DEF Sample, LockTyped
<1>2. ASSUME Advance(eject.queue), UNCHANGED <<sheddable, free, armed, pc, arming, starts>>
      PROVE  ActorsTyped'
  BY <1>2, <1>a, <1>q, AdvanceTyped
<1>3. ASSUME EjectLock PROVE ActorsTyped'
  BY <1>2, <1>3 DEF EjectLock
<1>4. ASSUME EjectDefers PROVE ActorsTyped'
  <2>1. eject' \in Ejection
    BY <1>4 DEF EjectDefers, NoEjection, Ejection
  <2> QED
    BY <1>0, <1>4, <1>a, <2>1 DEF EjectDefers, LockTyped
<1>5. ASSUME NEW readable, Reconfirm(readable) PROVE ActorsTyped'
  <2>1. CASE readable /\ Low(eject.current)
    <3>1. eject' \in Ejection /\ lock' = lock
      BY <1>0, <1>5, <2>1 DEF Reconfirm, Ejection
    <3> QED
      BY <1>0, <1>5, <1>a, <3>1 DEF Reconfirm, LockTyped
  <2>2. CASE ~(readable /\ Low(eject.current))
    BY <1>2, <1>5, <2>2 DEF Reconfirm
  <2> QED
    BY <2>1, <2>2
<1>6. ASSUME NEW readable, ReclaimPool(readable) PROVE ActorsTyped'
  <2>1. HostTyped'
    BY <1>6, ShedTyped DEF ReclaimPool
  <2>2. eject' \in Ejection /\ LockTyped'
    BY <1>6, <1>q, AdvanceTyped DEF ReclaimPool
  <2> QED
    BY <1>0, <1>6, <2>1, <2>2 DEF ReclaimPool, ActorsTyped, RunsTyped
<1>7. ASSUME SentinelKilled PROVE ActorsTyped'
  <2>1. eject' \in Ejection
    BY <1>7 DEF SentinelKilled, NoEjection, Ejection
  <2> QED
    BY <1>0, <1>7, <1>a, <2>1 DEF SentinelKilled, LockTyped
<1> QED
  BY <1>1, <1>3, <1>4, <1>5, <1>6, <1>7 DEF Eject

LEMMA SpaceKeepsType ==
    ASSUME TypeOK, SpaceMoves
    PROVE  ActorsTyped'
<1>1. free' \in [Pools -> Nat]
  BY PoolAssumption DEF SpaceMoves, TypeOK
<1> QED
  BY <1>1 DEF SpaceMoves, runs, TypeOK, ActorsTyped, HostTyped, RunsTyped, LockTyped

LEMMA NextKeepsType == TypeOK /\ [Next]_vars => TypeOK'
<1> SUFFICES ASSUME TypeOK, [Next]_vars PROVE TypeOK'
  OBVIOUS
<1>1. CASE Next
  <2>1. ActorsTyped'
    BY <1>1, RunKeepsType, EjectKeepsType, SpaceKeepsType DEF Next, Step
  <2>2. lowSince' \in SUBSET Pools
    BY <1>1 DEF Next, Remember, TypeOK
  <2> QED
    BY <2>1, <2>2, TypeParts DEF TypeOK, ActorsTyped, HostTyped, RunsTyped, LockTyped
<1>2. CASE UNCHANGED vars
  BY <1>2 DEF vars, TypeOK
<1> QED
  BY <1>1, <1>2

LEMMA InitTyped == Init => TypeOK
<1> SUFFICES ASSUME Init PROVE TypeOK
  OBVIOUS
<1>1. HostTyped
  BY PoolAssumption DEF Init, HostTyped, SendPools
<1>2. RunsTyped
  BY NothingArmed, ActorAssumption DEF Init, RunsTyped
<1>3. eject \in Ejection /\ LockTyped
  BY DEF Init, NoEjection, Ejection, LockTyped
<1>4. armed \in [Pools -> Tiers] /\ lowSince \in SUBSET Pools
  BY DEF Init, Tiers, Roomy, Critical
<1> QED
  BY <1>1, <1>2, <1>3, <1>4, TypeParts DEF ActorsTyped

\* Every reachable state is well typed, whatever is read, lost or killed.
THEOREM Typing == Spec => []TypeOK
BY InitTyped, NextKeepsType, PTL DEF Spec

(************************* the lock and the floor **************************)

\* The inductive strengthening.  Who acts holds the lock, and what the sentinel
\* is about to shed it saw low under it; and what a run read low it has armed.
LockInv ==
    /\ \A r \in Runs : Holding(r) => lock = r
    /\ Ejecting => lock = Sentinel /\ eject.current \in Pools
    /\ eject.phase = "reclaim" => eject.current \in lowSince

ArmsLow(r) ==
    /\ \A p \in arming[r].low :
         p \in SendPools /\ (100 * Floor[p] <= 15 * Cap[p] => arming[r].tier[p] >= Tight)
    /\ pc[r] = "sending" =>
         \A p \in SendPools : arming[r].tier[p] >= Tight =>
             p \in arming[r].watched \cup arming[r].blind

LowInv == \A r \in Runs : ArmsLow(r)

\* A run that takes or keeps the lock is the only holder; the sentinel's part
\* of the invariant is not touched, as a run changes no `eject`.
LEMMA RunKeepsLock ==
    ASSUME TypeOK, LockInv, NEW r \in Runs, Run(r), Remember
    PROVE  LockInv'
<1> USE DEF host, runs
<1>0. pc \in [Runs -> {"idle", "gathered", "locked", "sending"}]
  BY DEF TypeOK
<1>e. eject' = eject
  BY DEF Run, Gather, AcquireLock, Refused, EmptyPlan, ArmWatchdog, SendFrom,
         WatchdogReclaims, WriteBack, TailFails, RunKilled, Ends
<1>1. ASSUME lock' = lock, \A s \in Runs : Holding(s)' => Holding(s)
      PROVE  LockInv'
  BY <1>1, <1>e DEF LockInv, Ejecting, Remember
<1>2. CASE \E dark \in SUBSET Unreadable, lost \in BOOLEAN : Gather(r, dark, lost)
  BY <1>0, <1>1, <1>2 DEF Gather, Holding
<1>3. CASE AcquireLock(r)
  <2>1. ~Ejecting
    BY <1>3, ActorAssumption DEF AcquireLock, LockInv
  <2>2. \A s \in Runs : ~Holding(s)
    BY <1>3, ActorAssumption DEF AcquireLock, LockInv
  <2>3. \A s \in Runs : Holding(s)' => s = r
    BY <1>0, <1>3, <2>2 DEF AcquireLock, Holding
  <2>4. lock' = r /\ ~Ejecting'
    BY <1>3, <1>e, <2>1 DEF AcquireLock, Ejecting
  <2> QED
    BY <2>3, <2>4 DEF LockInv, Ejecting
<1>4. CASE Ends(r)
  <2>1. \A s \in Runs : Holding(s)' => Holding(s) /\ s # r
    BY <1>0, <1>4 DEF Ends, Holding
  <2>2. CASE lock = r
    <3>1. ~Ejecting /\ \A s \in Runs : ~Holding(s)'
      BY <2>1, <2>2, ActorAssumption DEF LockInv
    <3> QED
      BY <3>1, <1>e DEF LockInv, Ejecting
  <2>3. CASE lock # r
    BY <1>1, <1>4, <2>1, <2>3 DEF Ends
  <2> QED
    BY <2>2, <2>3
<1>5. CASE \E dark \in SUBSET Unreadable : ArmWatchdog(r, dark)
  BY <1>0, <1>1, <1>5 DEF ArmWatchdog, Holding
<1>6. CASE \E p \in Pools : SendFrom(r, p) \/ \E readable \in BOOLEAN : WatchdogReclaims(r, p, readable)
  BY <1>1, <1>6 DEF SendFrom, WatchdogReclaims, Holding
<1> QED
  BY <1>2, <1>3, <1>4, <1>5, <1>6
     DEF Run, Refused, EmptyPlan, WriteBack, TailFails, RunKilled

LEMMA AdvanceKeepsLock ==
    ASSUME LockInv, NEW queue \in SUBSET Pools, Advance(queue), \A r \in Runs : ~Holding(r), UNCHANGED pc
    PROVE  LockInv'
<1>1. \A r \in Runs : ~Holding(r)'
  BY DEF Holding
<1>2. CASE queue = {}
  BY <1>1, <1>2 DEF Advance, NoEjection, LockInv, Ejecting
<1>3. CASE queue # {}
  BY <1>1, <1>3 DEF Advance, LockInv, Ejecting
<1> QED
  BY <1>2, <1>3

LEMMA EjectKeepsLock ==
    ASSUME TypeOK, LockInv, Eject, Remember
    PROVE  LockInv'
<1> USE DEF host, runs
<1>p. pc' = pc
  BY DEF Eject, Sample, EjectLock, EjectDefers, Reconfirm, ReclaimPool, SentinelKilled
<1>a. Ejecting => \A r \in Runs : ~Holding(r)
  BY ActorAssumption DEF LockInv
<1>s. eject.queue \in SUBSET Pools
  BY DEF TypeOK, Ejection
<1>q. Ejecting \/ lock = Nobody => \A r \in Runs : ~Holding(r)
  BY <1>a, ActorAssumption DEF LockInv
<1>1. CASE \E dark \in SUBSET Unreadable : Sample(dark)
  BY <1>1 DEF Sample, LockInv, Ejecting, Holding
<1>2. CASE EjectLock
  BY <1>2, <1>p, <1>q, <1>s, AdvanceKeepsLock DEF EjectLock
<1>3. CASE EjectDefers
  BY <1>3 DEF EjectDefers, NoEjection, LockInv, Ejecting, Holding
<1>4. ASSUME NEW readable, Reconfirm(readable) PROVE LockInv'
  <2>1. Ejecting
    BY <1>4 DEF Reconfirm, Ejecting
  <2>2. CASE readable /\ Low(eject.current)
    <3>1. lock' = Sentinel /\ free' = free
      BY <1>4, <2>1, <2>2 DEF Reconfirm, LockInv
    <3>2. eject'.phase = "reclaim" /\ eject'.current = eject.current
      BY <1>4, <2>2 DEF Reconfirm, TypeOK, Ejection
    <3>3. eject.current \in Pools
      BY <2>1 DEF LockInv
    <3>4. eject'.current \in lowSince'
      BY <2>2, <3>1, <3>2, <3>3 DEF Remember, Low
    <3> QED
      BY <1>p, <1>a, <2>1, <3>1, <3>2, <3>4 DEF LockInv, Ejecting, Holding
  <2>3. CASE ~(readable /\ Low(eject.current))
    BY <1>4, <1>p, <1>q, <1>s, <2>1, <2>3, AdvanceKeepsLock DEF Reconfirm
  <2> QED
    BY <2>2, <2>3
<1>5. ASSUME NEW readable, ReclaimPool(readable) PROVE LockInv'
  <2>1. Ejecting
    BY <1>5 DEF ReclaimPool, Ejecting
  <2> QED
    BY <1>5, <1>p, <1>q, <1>s, <2>1, AdvanceKeepsLock DEF ReclaimPool
<1>6. CASE SentinelKilled
  <2>1. CASE lock = Sentinel
    <3>1. \A r \in Runs : ~Holding(r)'
      BY <1>p, <2>1, ActorAssumption DEF LockInv, Holding
    <3> QED
      BY <1>6, <3>1 DEF SentinelKilled, NoEjection, LockInv, Ejecting
  <2>2. CASE lock # Sentinel
    BY <1>6, <1>p, <2>2 DEF SentinelKilled, NoEjection, LockInv, Ejecting, Holding
  <2> QED
    BY <2>1, <2>2
<1> QED
  BY <1>1, <1>2, <1>3, <1>4, <1>5, <1>6 DEF Eject

\* Only what a run gathers and arms matters: the rest leaves its arming alone.
LEMMA RunKeepsLow ==
    ASSUME TypeOK, LowInv, NEW r \in Runs, Run(r)
    PROVE  LowInv'
<1> USE DEF host, runs
<1>0. /\ pc \in [Runs -> {"idle", "gathered", "locked", "sending"}]
      /\ arming \in [Runs -> Arming]
  BY DEF TypeOK
<1>i. \A s \in Runs : ArmsLow(s)
  BY DEF LowInv
<1>r. ASSUME ArmsLow(r)', \A s \in Runs \ {r} : arming'[s] = arming[s] /\ pc'[s] = pc[s]
      PROVE  LowInv'
  BY <1>r, <1>i DEF LowInv, ArmsLow
<1>1. ASSUME NEW dark \in SUBSET Unreadable, NEW lost \in BOOLEAN, Gather(r, dark, lost)
      PROVE  LowInv'
  <2> DEFINE prior(p) == IF lost \/ p \notin Keyed THEN Roomy ELSE armed[p]
             read(p) == IF p \in dark THEN Unread ELSE free[p]
             tier == [p \in Pools |-> Resolve(p, prior(p), read(p))]
             low == {p \in SendPools \ dark : Low(p)}
             new == [tier |-> tier, low |-> low, watched |-> {}, blind |-> {}]
  <2>1. arming' = [arming EXCEPT ![r] = new] /\ pc' = [pc EXCEPT ![r] = "gathered"]
    BY <1>1 DEF Gather
  <2>2. arming'[r].low = low /\ arming'[r].tier = tier /\ pc'[r] = "gathered"
    BY <1>0, <2>1
  <2>3. ASSUME NEW p \in low, 100 * Floor[p] <= 15 * Cap[p] PROVE tier[p] >= Tight
    <3>1. p \in Pools /\ p \notin dark /\ free[p] < Floor[p] /\ free[p] \in Nat
      BY <2>3 DEF SendPools, Low, TypeOK
    <3>2. prior(p) \in Tiers
      BY <3>1 DEF TypeOK, Tiers, Roomy, Critical
    <3>3. Resolve(p, prior(p), free[p]) >= Tight
      BY <2>3, <3>1, <3>2, LowArms
    <3>4. tier[p] = Resolve(p, prior(p), free[p])
      BY <3>1
    <3> QED
      BY <3>3, <3>4
  <2>4. low \subseteq SendPools
    OBVIOUS
  <2>5. ArmsLow(r)'
    BY <2>2, <2>3, <2>4 DEF ArmsLow
  <2> QED
    BY <1>0, <1>r, <2>1, <2>5
<1>2. CASE AcquireLock(r)
  BY <1>0, <1>2, <1>i, <1>r DEF AcquireLock, ArmsLow
<1>3. CASE Ends(r)
  <2>1. arming'[r] = NoArming /\ pc'[r] = "idle"
    BY <1>0, <1>3 DEF Ends
  <2>2. ArmsLow(r)'
    BY <2>1 DEF ArmsLow, NoArming
  <2> QED
    BY <1>0, <1>3, <1>r, <2>2 DEF Ends
<1>4. ASSUME NEW dark \in SUBSET Unreadable, ArmWatchdog(r, dark) PROVE LowInv'
  <2> DEFINE armedPools == {p \in SendPools : arming[r].tier[p] >= Tight}
             new == [arming[r] EXCEPT !.watched = armedPools \ dark,
                                      !.blind = armedPools \cap dark]
  <2>1. arming' = [arming EXCEPT ![r] = new] /\ pc' = [pc EXCEPT ![r] = "sending"]
    BY <1>0, <1>4 DEF ArmWatchdog
  <2>2. arming[r] \in Arming
    BY <1>0
  <2>3. /\ new.low = arming[r].low /\ new.tier = arming[r].tier
        /\ new.watched = armedPools \ dark /\ new.blind = armedPools \cap dark
    BY <2>2 DEF Arming
  <2>4. arming'[r] = new
    BY <1>0, <2>1
  <2>5. ArmsLow(r)
    BY <1>i
  <2>6. ArmsLow(r)'
    BY <2>3, <2>4, <2>5 DEF ArmsLow
  <2> QED
    BY <1>0, <1>r, <2>1, <2>6
<1>5. CASE \E p \in Pools : SendFrom(r, p) \/ \E readable \in BOOLEAN : WatchdogReclaims(r, p, readable)
  BY <1>5, <1>i, <1>r DEF SendFrom, WatchdogReclaims, ArmsLow
<1> QED
  BY <1>1, <1>2, <1>3, <1>4, <1>5
     DEF Run, Refused, EmptyPlan, WriteBack, TailFails, RunKilled

Inv == TypeOK /\ LockInv /\ LowInv

LEMMA InitInv == Init => Inv
<1> SUFFICES ASSUME Init PROVE Inv
  OBVIOUS
<1>1. LockInv
  BY DEF Init, LockInv, Holding, Ejecting, NoEjection
<1>2. LowInv
  BY DEF Init, LowInv, ArmsLow, NoArming
<1> QED
  BY <1>1, <1>2, InitTyped DEF Inv

LEMMA NextKeepsInv == Inv /\ [Next]_vars => Inv'
<1> SUFFICES ASSUME Inv, [Next]_vars PROVE Inv'
  OBVIOUS
<1> USE DEF Inv
<1>1. TypeOK'
  BY NextKeepsType
<1>2. CASE UNCHANGED vars
  BY <1>1, <1>2 DEF vars, LockInv, LowInv, ArmsLow, Holding, Ejecting
<1>3. ASSUME NEW r \in Runs, Run(r), Remember PROVE Inv'
  BY <1>1, <1>3, RunKeepsLock, RunKeepsLow
<1>4. CASE Eject /\ Remember
  <2>1. UNCHANGED <<pc, arming>>
    BY <1>4 DEF Eject, Sample, EjectLock, EjectDefers, Reconfirm, ReclaimPool, SentinelKilled, runs
  <2> QED
    BY <1>1, <1>4, <2>1, EjectKeepsLock DEF LowInv, ArmsLow
<1>5. CASE SpaceMoves /\ Remember
  <2>1. UNCHANGED <<lock, pc, arming, eject>>
    BY <1>5 DEF SpaceMoves, runs
  <2>2. LockInv'
    BY <1>5, <2>1 DEF LockInv, Holding, Ejecting, Remember
  <2> QED
    BY <1>1, <2>1, <2>2 DEF LowInv, ArmsLow
<1> QED
  BY <1>2, <1>3, <1>4, <1>5 DEF Next, Step

LEMMA Invariance == Spec => []Inv
BY InitInv, NextKeepsInv, PTL DEF Spec

(******************************** theorems *********************************)

\* The sentinel's reclaims and a run's sends, deletes and watchdog never
\* overlap, and neither do two runs: one lock is held from before the reading
\* that decides to the last delete.
THEOREM OneActor == Spec => []OneActorOnThePools
<1>1. Inv => OneActorOnThePools
  BY ActorAssumption DEF Inv, LockInv, OneActorOnThePools
<1> QED
  BY <1>1, Invariance, PTL

\* A pool read below its floor is watched by the run that read it, whatever
\* tier was recorded and whether the record could be read.
THEOREM LowIsWatched == Spec => []LowPoolIsWatched
<1>1. Inv => LowPoolIsWatched
  BY DEF Inv, LowInv, ArmsLow, LowPoolIsWatched
<1> QED
  BY <1>1, Invariance, PTL

\* What the sentinel sheds it saw below the floor under the lock.
THEOREM FreshPressure == Spec => EjectOnFreshPressure
<1>1. Inv /\ [Next]_vars =>
        [eject.phase = "reclaim" /\ sheddable' # sheddable
            => sheddable \ sheddable' \subseteq lowSince]_vars
  <2> SUFFICES ASSUME Inv, [Next]_vars, eject.phase = "reclaim", sheddable' # sheddable
               PROVE  sheddable \ sheddable' \subseteq lowSince
    OBVIOUS
  <2>1. \A r \in Runs : ~Holding(r)
    BY ActorAssumption DEF Inv, LockInv, Ejecting
  <2>2. ~ \E r \in Runs : Run(r)
    BY <2>1 DEF Run, Gather, AcquireLock, Refused, EmptyPlan, ArmWatchdog, SendFrom,
                WatchdogReclaims, WriteBack, TailFails, RunKilled, Ends, Holding, host
  <2>3. PICK readable : ReclaimPool(readable)
    BY <2>2 DEF Next, Step, vars, SpaceMoves, Eject, Sample, EjectLock, EjectDefers,
                Reconfirm, SentinelKilled, host
  <2>4. sheddable' = sheddable \ {eject.current}
    BY <2>3 DEF ReclaimPool, Shed
  <2> QED
    BY <2>4 DEF Inv, LockInv
<1> QED
  BY <1>1, Invariance, PTL DEF Spec, EjectOnFreshPressure

\* A tier a run lowers from the record stands against readings within a band.
THEOREM LoweredTier == Spec => LoweredTierStands
<1>1. TypeOK =>
        [\A r \in Runs, p \in Pools :
            LET t == arming'[r].tier[p]
            IN  /\ pc[r] = "idle" /\ pc'[r] = "gathered"
                /\ t < armed[p] /\ t = Resolve(p, armed[p], free[p])
                => Stands(p, t, free[p])]_vars
  <2> SUFFICES ASSUME TypeOK, NEW r \in Runs, NEW p \in Pools,
                      arming'[r].tier[p] < armed[p],
                      arming'[r].tier[p] = Resolve(p, armed[p], free[p])
               PROVE  Stands(p, arming'[r].tier[p], free[p])
    OBVIOUS
  <2>1. armed[p] \in Tiers /\ free[p] \in Nat
    BY DEF TypeOK
  <2>2. Resolve(p, armed[p], free[p]) < armed[p]
    OBVIOUS
  <2> QED
    BY <2>1, <2>2, LoweredStands
<1> QED
  BY <1>1, Typing, PTL DEF LoweredTierStands
=============================================================================
