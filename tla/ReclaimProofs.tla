---------------------------- MODULE ReclaimProofs -----------------------------
(***************************************************************************)
(* Proofs about Reclaim for any subvolumes, drives and bounds: its types,   *)
(* that no chain is left half-cut, that it implements ChainStore, that     *)
(* Tier 1 spares the drives that are there, and that both tiers free what  *)
(* was chained.                                                            *)
(***************************************************************************)
EXTENDS Reclaim, TLAPS

(********************************* the actions *****************************)

\* The steps that change the snapshots, the pins or the stored copies.
DiskStep ==
    \E s \in Subvols :
        \/ Create(s)
        \/ \E d \in Drives : Send(s, d) \/ SendUnpinned(s, d) \/ ShedPin(s, d)
        \/ \E x \in Snaps : DeleteSnapshot(s, x)

Kept == UNCHANGED <<local, pin, offsite>>

\* The steps that leave them alone, by what else they do: the steps of a run or
\* of the disk, the way into the reclaim, a pass that ends early, its reading.
CallStep ==
    \/ RunBegins \/ RunEnds \/ ReclaimBegins \/ EjectBegins \/ Gate \/ TierOneEnds
    \/ TierTwoEnds \/ PassEnds \/ Return \/ Crash
PassStep ==
    \/ \E s \in Subvols :
          Pick(s) \/ ReRead(s) \/ ReReadFails(s) \/ \E d \in Drives : ShedFails(s, d)
    \/ \E x \in Snaps : DeleteFails(x)

\* Every step is one of these.
LEMMA NextSplit == Next <=> DiskStep \/ CallStep \/ PassStep \/ Rot
BY DEF Next, Run, EmergencyReclaimPool, DiskStep, CallStep, PassStep

\* Only a disk step changes the snapshots, the pins or the stored copies.
LEMMA OthersKeep == CallStep \/ PassStep \/ Rot => Kept
<1> USE DEF Kept, disk
<1>1. CallStep => Kept
    BY DEF CallStep, RunBegins, RunEnds, ReclaimBegins, EjectBegins, Gate, TierOneEnds,
           TierTwoEnds, PassEnds, Return, Crash
<1>2. PassStep => Kept
    BY DEF PassStep, Pick, ReRead, ReReadFails, ShedFails, DeleteFails
<1>3. Rot => Kept
    BY DEF Rot, PinRots
<1>4. QED
    BY <1>1, <1>2, <1>3

(******************************* type correctness **************************)

\* The types hold initially.
LEMMA InitTypeOK == Init => TypeOK
<1>1. 0 \in 0..MaxSnap
    BY SnapAssumption DEF SnapAssumption
<1>2. ASSUME Init PROVE pin \in [Subvols -> [Drives -> Snaps \cup {NoSnap}]]
    BY <1>2 DEF Init
<1>3. ASSUME Init PROVE /\ taken \in [Subvols -> 0..MaxSnap]
                        /\ local \in [Subvols -> SUBSET Snaps]
    BY <1>1, <1>3 DEF Init
<1>4. ASSUME Init PROVE /\ offsite \in [Subvols -> SUBSET Drives]
                        /\ away \in [Subvols -> SUBSET Drives]
    BY <1>4 DEF Init
<1>5. QED
    BY <1>2, <1>3, <1>4 DEF Init, TypeOK

\* The types are kept by a step on the disk.
LEMMA DiskTypeOK == TypeOK /\ DiskStep => TypeOK'
<1> SUFFICES ASSUME TypeOK, DiskStep PROVE TypeOK'
    OBVIOUS
<1> USE DEF TypeOK, call, pass, outcome
<1>1. ASSUME NEW s \in Subvols, Create(s) PROVE TypeOK'
  <2>1. taken[s] \in 0..MaxSnap /\ taken[s] + 1 \in 0..MaxSnap /\ taken[s] + 1 \in Snaps
      BY <1>1, SnapAssumption DEF Create, Snaps, SnapAssumption
  <2>2. taken' \in [Subvols -> 0..MaxSnap] /\ local' \in [Subvols -> SUBSET Snaps]
      BY <1>1, <2>1 DEF Create
  <2>3. QED
      BY <1>1, <2>2 DEF Create
<1>2. ASSUME NEW s \in Subvols, NEW d \in Drives, Send(s, d) PROVE TypeOK'
  <2>1. PICK x \in local[s] : pin' = [pin EXCEPT ![s][d] = x]
      BY <1>2 DEF Send
  <2>2. pin' \in [Subvols -> [Drives -> Snaps \cup {NoSnap}]]
      BY <2>1
  <2>3. offsite' \in [Subvols -> SUBSET Drives]
      BY <1>2 DEF Send
  <2>4. QED
      BY <1>2, <2>2, <2>3 DEF Send
<1>3. ASSUME NEW s \in Subvols, NEW d \in Drives, SendUnpinned(s, d) PROVE TypeOK'
    BY <1>3 DEF SendUnpinned
<1>4. ASSUME NEW s \in Subvols, NEW d \in Drives, ShedPin(s, d) PROVE TypeOK'
  <2>1. pin' \in [Subvols -> [Drives -> Snaps \cup {NoSnap}]]
      BY <1>4 DEF ShedPin
  <2>2. releases' \in SUBSET Release
    <3>1. pin[s][d] # NoSnap =>
              [subvol |-> s, drive |-> d, parent |-> pin[s][d]] \in Release
        BY DEF Release
    <3>2. QED
        BY <1>4, <3>1 DEF ShedPin
  <2>3. QED
      BY <1>4, <2>1, <2>2 DEF ShedPin
<1>5. ASSUME NEW s \in Subvols, NEW x \in Snaps, DeleteSnapshot(s, x) PROVE TypeOK'
    BY <1>5 DEF DeleteSnapshot
<1>6. QED
    BY <1>1, <1>2, <1>3, <1>4, <1>5 DEF DiskStep

\* The types are kept by the steps of the call.
LEMMA CallTypeOK == TypeOK /\ CallStep => TypeOK'
<1> SUFFICES ASSUME TypeOK, CallStep PROVE TypeOK'
    OBVIOUS
<1> USE DEF TypeOK, disk, call, pass, outcome
<1>1. CASE RunBegins
  <2>1. away' \in [Subvols -> SUBSET Drives]
      BY <1>1 DEF RunBegins, AwaySheddable
  <2>2. QED
      BY <1>1, <2>1 DEF RunBegins
<1>2. CASE RunEnds
    BY <1>2 DEF RunEnds
<1>3. CASE ReclaimBegins
    BY <1>3 DEF ReclaimBegins
<1>4. CASE EjectBegins
  <2>1. away' \in [Subvols -> SUBSET Drives]
      BY <1>4 DEF EjectBegins, AwaySheddable
  <2>2. QED
      BY <1>4, <2>1 DEF EjectBegins
<1>5. CASE Gate
    BY <1>5 DEF Gate, StartTier
<1>6. CASE TierOneEnds
    BY <1>6 DEF TierOneEnds, StartTier
<1>7. CASE TierTwoEnds
    BY <1>7 DEF TierTwoEnds
<1>8. CASE PassEnds
    BY <1>8 DEF PassEnds, EndPass
<1>9. CASE Return
    BY <1>9 DEF Return, Forgotten
<1>10. CASE Crash
    BY <1>10 DEF Crash, Forgotten
<1>11. QED
    BY <1>1, <1>2, <1>3, <1>4, <1>5, <1>6, <1>7, <1>8, <1>9, <1>10 DEF CallStep

\* The types are kept by the steps of a pass.
LEMMA PassTypeOK == TypeOK /\ PassStep => TypeOK'
<1> SUFFICES ASSUME TypeOK, PassStep PROVE TypeOK'
    OBVIOUS
<1> USE DEF TypeOK, disk, call
<1>1. ASSUME NEW s \in Subvols, Pick(s) PROVE TypeOK'
    BY <1>1 DEF Pick, EndPass, BeginPass
<1>2. ASSUME NEW s \in Subvols, ReRead(s) PROVE TypeOK'
    BY <1>2 DEF ReRead, outcome
<1>3. ASSUME NEW s \in Subvols, ReReadFails(s) PROVE TypeOK'
    BY <1>3 DEF ReReadFails, EndPass
<1>4. ASSUME NEW s \in Subvols, NEW d \in Drives, ShedFails(s, d) PROVE TypeOK'
    BY <1>4 DEF ShedFails, EndPass
<1>5. ASSUME NEW x \in Snaps, DeleteFails(x) PROVE TypeOK'
    BY <1>5 DEF DeleteFails
<1>6. QED
    BY <1>1, <1>2, <1>3, <1>4, <1>5 DEF PassStep

\* The types are kept when a pin file becomes unreadable.
LEMMA RotTypeOK == TypeOK /\ Rot => TypeOK'
BY DEF TypeOK, Rot, PinRots, disk, call,
       pass, outcome

\* The types are kept by every step.
LEMMA NextTypeOK == TypeOK /\ [Next]_vars => TypeOK'
<1>1. TypeOK /\ UNCHANGED vars => TypeOK'
    BY DEF TypeOK, vars
<1>2. QED
    BY <1>1, NextSplit, DiskTypeOK, CallTypeOK, PassTypeOK, RotTypeOK
(*************************** the inductive invariant ***********************)

\* A pin names a snapshot that is there: it is written with one that is, and
\* what is deleted has no pin.
LEMMA KeepsPins == TypeOK /\ PinsHold /\ DoomedUnpinned /\ [Next]_vars => PinsHold'
<1> SUFFICES ASSUME TypeOK, PinsHold, DoomedUnpinned, [Next]_vars PROVE PinsHold'
    OBVIOUS
<1> USE DEF PinsHold, Chain!AnchorsHold, TypeOK, Kept
<1>1. CASE Kept
    BY <1>1
<1>2. ASSUME NEW s \in Subvols, Create(s) PROVE PinsHold'
    BY <1>2 DEF Create
<1>3. ASSUME NEW s \in Subvols, NEW d \in Drives, Send(s, d) PROVE PinsHold'
    BY <1>3 DEF Send
<1>4. ASSUME NEW s \in Subvols, NEW d \in Drives, SendUnpinned(s, d) PROVE PinsHold'
    BY <1>4 DEF SendUnpinned
<1>5. ASSUME NEW s \in Subvols, NEW d \in Drives, ShedPin(s, d) PROVE PinsHold'
    BY <1>5 DEF ShedPin
<1>6. ASSUME NEW s \in Subvols, NEW x \in Snaps, DeleteSnapshot(s, x) PROVE PinsHold'
  <2>1. x \notin PinnedIn(s)
      BY <1>6 DEF DeleteSnapshot, DoomedUnpinned
  <2>2. \A d \in Drives : pin[s][d] # NoSnap => pin[s][d] # x
      BY <2>1 DEF PinnedIn
  <2>3. QED
      BY <1>6, <2>2 DEF DeleteSnapshot
<1>7. QED
    BY <1>1, <1>2, <1>3, <1>4, <1>5, <1>6, NextSplit, OthersKeep DEF DiskStep, vars

\* A pass is begun for a subvolume with a pin, so with a stored copy, and
\* copies on drives stay.
LEMMA KeepsStored == TypeOK /\ PinsHold /\ PassIsStored /\ [Next]_vars => PassIsStored'
<1> SUFFICES ASSUME TypeOK, PinsHold, PassIsStored, [Next]_vars PROVE PassIsStored'
    OBVIOUS
<1> USE DEF PassIsStored, disk, call, pass
<1>1. CASE DiskStep
    BY <1>1 DEF DiskStep, Create, Send, SendUnpinned, ShedPin, DeleteSnapshot, TypeOK
<1>2. CASE CallStep
    BY <1>2 DEF CallStep, RunBegins, RunEnds, ReclaimBegins, EjectBegins, Gate, StartTier,
           TierOneEnds, TierTwoEnds, PassEnds, EndPass, Return, Crash, Forgotten
<1>3. ASSUME NEW s \in Subvols, Pick(s) PROVE PassIsStored'
  <2>1. CASE PinnedIn(s) # {} /\ BeginPass(s)
    <3>1. offsite[s] # {}
        BY <2>1 DEF PinnedIn, PinsHold, Chain!AnchorsHold
    <3>2. QED
        BY <1>3, <2>1, <3>1 DEF Pick, BeginPass
  <2>2. CASE EndPass({})
      BY <2>2 DEF EndPass
  <2>3. QED
      BY <1>3, <2>1, <2>2 DEF Pick
<1>4. CASE PassStep
    BY <1>3, <1>4 DEF PassStep, ReRead, ReReadFails, ShedFails, DeleteFails, EndPass
<1>5. CASE Rot
    BY <1>5 DEF Rot, PinRots
<1>6. QED
    BY <1>1, <1>2, <1>4, <1>5, NextSplit DEF vars

\* What will be deleted was read without its pins, and no pin is written until
\* it is.
LEMMA KeepsUnpinned == TypeOK /\ DoomedUnpinned /\ [Next]_vars => DoomedUnpinned'
<1> SUFFICES ASSUME TypeOK, DoomedUnpinned, [Next]_vars PROVE DoomedUnpinned'
    OBVIOUS
<1> USE DEF DoomedUnpinned, PinnedIn, disk, call, pass
<1>1. CASE DiskStep
    BY <1>1 DEF DiskStep, Create, Send, SendUnpinned, ShedPin, DeleteSnapshot, TypeOK
<1>2. CASE CallStep
    BY <1>2 DEF CallStep, RunBegins, RunEnds, ReclaimBegins, EjectBegins, Gate, StartTier,
           TierOneEnds, TierTwoEnds, PassEnds, EndPass, Return, Crash, Forgotten
<1>3. CASE PassStep
    BY <1>3 DEF PassStep, Pick, BeginPass, ReRead, ReReadFails, ShedFails, DeleteFails,
           EndPass
<1>4. CASE Rot
    BY <1>4 DEF Rot, PinRots
<1>5. QED
    BY <1>1, <1>2, <1>3, <1>4, NextSplit DEF vars

\* The map is confirmed against the drives that are there, and Tier 1 sheds
\* what the map holds.
LEMMA KeepsAbsent == TypeOK /\ ShedOnlyAbsent /\ [Next]_vars => ShedOnlyAbsent'
<1> SUFFICES ASSUME TypeOK, ShedOnlyAbsent, [Next]_vars PROVE ShedOnlyAbsent'
    OBVIOUS
<1> USE DEF ShedOnlyAbsent, disk, call, pass
<1>1. CASE DiskStep
    BY <1>1 DEF DiskStep, Create, Send, SendUnpinned, ShedPin, DeleteSnapshot
<1>2. CASE ReclaimBegins \/ EjectBegins
    BY <1>2 DEF ReclaimBegins, EjectBegins, AwaySheddable, TypeOK
<1>3. CASE CallStep
    BY <1>2, <1>3 DEF CallStep, RunBegins, RunEnds, Gate, StartTier, TierOneEnds,
           TierTwoEnds, PassEnds, EndPass, Return, Crash, Forgotten
<1>4. CASE PassStep
    BY <1>4 DEF PassStep, Pick, BeginPass, ReRead, ReReadFails, ShedFails, DeleteFails,
           EndPass
<1>5. CASE Rot
    BY <1>5 DEF Rot, PinRots
<1>6. QED
    BY <1>1, <1>3, <1>4, <1>5, NextSplit DEF vars

\* The inductive invariant holds in every state.
THEOREM InductiveInvariant == Spec => []IInv
<1>1. Init => IInv
    BY InitTypeOK DEF Init, IInv, PinsHold, Chain!AnchorsHold, PassIsStored, DoomedUnpinned,
       ShedOnlyAbsent
<1>2. IInv /\ [Next]_vars => IInv'
    BY NextTypeOK, KeepsPins, KeepsStored, KeepsUnpinned, KeepsAbsent DEF IInv
<1>3. QED
    BY <1>1, <1>2, PTL DEF Spec

\* The state of the pool and of the reclaim has its types.
THEOREM TypeCorrect == Spec => []TypeOK
<1>1. IInv => TypeOK
    BY DEF IInv
<1>2. QED
    BY <1>1, InductiveInvariant, PTL

\* No reclaim, whatever fails in it and wherever it is killed, leaves a pin
\* whose snapshot is gone or whose drive holds no copy.
THEOREM NoHalfCutChain == Spec => []PinsHold
<1>1. IInv => PinsHold
    BY DEF IInv
<1>2. QED
    BY <1>1, InductiveInvariant, PTL

(********************************* refinement ******************************)

\* Every step of the reclaim is a step of ChainStore or leaves its state alone.
LEMMA StepSimulation == IInv /\ [Next]_vars => [Chain!StoreNext]_(Chain!storeVars)
<1> SUFFICES ASSUME IInv, [Next]_vars PROVE [Chain!StoreNext]_(Chain!storeVars)
    OBVIOUS
<1> USE DEF IInv, TypeOK
<1>1. CASE Kept
    BY <1>1 DEF Kept, Chain!storeVars
<1>2. ASSUME NEW s \in Subvols, Create(s) PROVE Chain!StoreNext
  <2>1. taken[s] + 1 \in Snaps
      BY <1>2, SnapAssumption DEF Create, Snaps, SnapAssumption
  <2>2. Chain!Take(s, taken[s] + 1)
      BY <1>2 DEF Create, Chain!Take
  <2>3. QED
      BY <2>1, <2>2 DEF Chain!StoreNext
<1>3. ASSUME NEW s \in Subvols, NEW d \in Drives, Send(s, d) PROVE Chain!StoreNext
  <2>1. PICK x \in local[s] : pin' = [pin EXCEPT ![s][d] = x]
      BY <1>3 DEF Send
  <2>2. x \in Snaps /\ Chain!StoreAndAnchor(s, d, x)
      BY <1>3, <2>1 DEF Send, Chain!StoreAndAnchor
  <2>3. QED
      BY <2>2 DEF Chain!StoreNext
<1>4. ASSUME NEW s \in Subvols, NEW d \in Drives, SendUnpinned(s, d) PROVE Chain!StoreNext
  <2>1. Chain!Store(s, d)
      BY <1>4 DEF SendUnpinned, Chain!Store
  <2>2. QED
      BY <2>1 DEF Chain!StoreNext
<1>5. ASSUME NEW s \in Subvols, NEW d \in Drives, ShedPin(s, d) PROVE Chain!StoreNext
  <2>1. Chain!Forget(s, d)
      BY <1>5 DEF ShedPin, Chain!Forget
  <2>2. QED
      BY <2>1 DEF Chain!StoreNext
<1>6. ASSUME NEW s \in Subvols, NEW x \in Snaps, DeleteSnapshot(s, x) PROVE Chain!StoreNext
  <2>1. offsite[s] # {}
      BY <1>6 DEF DeleteSnapshot, PassIsStored
  <2>2. x \in local[s] /\ x \notin PinnedIn(s)
      BY <1>6 DEF DeleteSnapshot, DoomedUnpinned
  <2>3. \A d \in Drives : pin[s][d] # x
      BY <1>6, <2>2, SnapAssumption DEF PinnedIn, Snaps, NoSnap, SnapAssumption
  <2>4. Chain!Drop(s, x)
      BY <1>6, <2>1, <2>2, <2>3 DEF DeleteSnapshot, Chain!Drop
  <2>5. QED
      BY <2>4 DEF Chain!StoreNext
<1>7. QED
    BY <1>1, <1>2, <1>3, <1>4, <1>5, <1>6, NextSplit, OthersKeep DEF DiskStep, vars, Kept

\* The reclaim keeps the promise of the local directories: what it deletes is
\* unpinned, and the subvolume is stored on a drive.
THEOREM Implements == Spec => ImplementsChainStore
<1>1. Init => Chain!StoreInit
    BY DEF Init, Chain!StoreInit
<1>2. QED
    BY <1>1, StepSimulation, InductiveInvariant, PTL DEF Spec, ImplementsChainStore,
       Chain!StoreSpec

(*********************************** Tier 1 ********************************)

\* One step of Tier 1 leaves the chain of a present drive as it was.
LEMMA SparesInOneStep ==
    ASSUME IInv, [Next]_vars, NEW s \in Subvols, NEW d \in Drives,
           pc \in {"shed", "delete"}, tier = 1, d \in present, pin[s][d] # NoSnap
    PROVE  pin'[s][d] = pin[s][d] /\ pin[s][d] \in local'[s]
<1> USE DEF IInv, TypeOK
<1>1. pin[s][d] \in local[s]
    BY DEF PinsHold, Chain!AnchorsHold
<1>2. CASE Kept
    BY <1>1, <1>2 DEF Kept
<1>3. ASSUME NEW t \in Subvols,
             Create(t) \/ \E e \in Drives : Send(t, e) \/ SendUnpinned(t, e)
      PROVE  FALSE
    BY <1>3 DEF Create, Send, SendUnpinned
<1>4. ASSUME NEW t \in Subvols, NEW e \in Drives, ShedPin(t, e)
      PROVE  pin'[s][d] = pin[s][d] /\ local'[s] = local[s]
  <2>1. e # d
      BY <1>4 DEF ShedPin, ShedOnlyAbsent
  <2>2. QED
      BY <1>4, <2>1 DEF ShedPin
<1>5. ASSUME NEW t \in Subvols, NEW x \in Snaps, DeleteSnapshot(t, x)
      PROVE  pin'[s][d] = pin[s][d] /\ pin[s][d] \in local'[s]
  <2>1. t = s => x # pin[s][d]
      BY <1>5 DEF DeleteSnapshot, DoomedUnpinned, PinnedIn
  <2>2. QED
      BY <1>1, <1>5, <2>1 DEF DeleteSnapshot
<1>6. QED
    BY <1>1, <1>2, <1>3, <1>4, <1>5, NextSplit, OthersKeep DEF DiskStep, vars, Kept

\* Tier 1 spares the chains of the drives seen present, however old its map.
THEOREM ConnectedChainsSurvive == Spec => TierOneSparesConnected
<1>1. IInv /\ [Next]_vars =>
          [\A s \in Subvols, d \in Drives :
              pc \in {"shed", "delete"} /\ tier = 1 /\ d \in present
                 /\ pin[s][d] # NoSnap
              => pin'[s][d] = pin[s][d] /\ pin[s][d] \in local'[s]]_vars
    BY SparesInOneStep
<1>2. QED
    BY <1>1, InductiveInvariant, PTL DEF Spec, TierOneSparesConnected
(*********************************** Tier 2 ********************************)

\* What a reclaim without a failure has done so far.  Between two passes a
\* subvolume that had a chain has a pin left or nothing left: so the
\* never-the-only-copy rule skips in Tier 2 only what is already empty.
Emptied(s) == PinnedIn(s) = {} /\ local[s] = {}

NoPassNoSubvol == pc \notin {"shed", "delete"} => sv = {}

TierOneFirst == pc \in {"idle", "run", "gate"} => tier = 1

PinOrNothing ==
    pc \in {"pick", "shed", "delete"} =>
        \A s \in chained \ sv : PinnedIn(s) # {} \/ local[s] = {}

\* The pass at work deletes all it found unpinned, and in Tier 2 all the pins go.
PassFrees ==
    \A s \in sv :
        /\ pc = "delete" => local[s] \subseteq PinnedIn(s) \cup doomed
        /\ tier = 2 => \A d \in Drives : pin[s][d] # NoSnap => pc = "shed" /\ d \in toShed

TierTwoFrees ==
    tier = 2 =>
        /\ \A s \in chained \ (todo \cup sv) : Emptied(s)
        /\ pc = "done" => todo = {}

Freeing == PinOrNothing /\ PassFrees /\ TierTwoFrees

FreeInv == NoPassNoSubvol /\ TierOneFirst /\ (~trouble => Freeing)

\* A step on the disk: a shed pin or a deleted snapshot belongs to the pass.
LEMMA DiskFrees == IInv /\ FreeInv /\ DiskStep => FreeInv'
<1> SUFFICES ASSUME IInv, FreeInv, DiskStep PROVE FreeInv'
    OBVIOUS
<1> USE DEF IInv, TypeOK, FreeInv, call, outcome, pass
<1>1. ASSUME NEW s \in Subvols,
             Create(s) \/ \E d \in Drives : Send(s, d) \/ SendUnpinned(s, d)
      PROVE  FreeInv'
  <2>1. pc = "run" /\ UNCHANGED <<pc, sv, tier, todo, trouble, chained>> /\ sv = {} /\ tier = 1
      BY <1>1 DEF Create, Send, SendUnpinned, NoPassNoSubvol, TierOneFirst
  <2>2. QED
      BY <2>1 DEF NoPassNoSubvol, TierOneFirst, Freeing, PinOrNothing, PassFrees, TierTwoFrees
<1>2. ASSUME NEW s \in Subvols, NEW d \in Drives, ShedPin(s, d) PROVE FreeInv'
  <2>1. /\ pc = "shed" /\ sv = {s} /\ toShed' = toShed \ {d}
        /\ UNCHANGED <<pc, sv, tier, todo, local, chained, trouble>>
        /\ pin' = [pin EXCEPT ![s][d] = NoSnap]
      BY <1>2 DEF ShedPin
  <2>2. pin'[s][d] = NoSnap /\ \A e \in Drives : e # d => pin'[s][e] = pin[s][e]
      BY <2>1
  <2>3. \A t \in Subvols : t # s => PinnedIn(t)' = PinnedIn(t) /\ local'[t] = local[t]
      BY <2>1 DEF PinnedIn
  <2>4. NoPassNoSubvol' /\ TierOneFirst'
      BY <2>1 DEF NoPassNoSubvol, TierOneFirst
  <2>5. ASSUME ~trouble PROVE Freeing'
    <3>1. PinOrNothing'
        BY <2>1, <2>3, <2>5 DEF Freeing, PinOrNothing
    <3>2. PassFrees'
        BY <2>1, <2>2, <2>5 DEF Freeing, PassFrees
    <3>3. TierTwoFrees'
        BY <2>1, <2>3, <2>5 DEF Freeing, TierTwoFrees, Emptied
    <3>4. QED
        BY <3>1, <3>2, <3>3 DEF Freeing
  <2>6. QED
      BY <2>1, <2>4, <2>5
<1>3. ASSUME NEW s \in Subvols, NEW x \in Snaps, DeleteSnapshot(s, x) PROVE FreeInv'
  <2>1. /\ pc = "delete" /\ sv = {s} /\ doomed' = doomed \ {x} /\ x \in doomed
        /\ local' = [local EXCEPT ![s] = @ \ {x}]
        /\ UNCHANGED <<pc, sv, tier, todo, toShed, pin, chained, trouble>>
      BY <1>3 DEF DeleteSnapshot
  <2>2. local'[s] = local[s] \ {x} /\ \A t \in Subvols : t # s => local'[t] = local[t]
      BY <2>1
  <2>3. \A t \in Subvols : PinnedIn(t)' = PinnedIn(t)
      BY <2>1 DEF PinnedIn
  <2>4. NoPassNoSubvol' /\ TierOneFirst'
      BY <2>1 DEF NoPassNoSubvol, TierOneFirst
  <2>5. ASSUME ~trouble PROVE Freeing'
    <3>1. PinOrNothing'
        BY <2>1, <2>2, <2>3, <2>5 DEF Freeing, PinOrNothing
    <3>2. PassFrees'
        BY <2>1, <2>2, <2>3, <2>5 DEF Freeing, PassFrees
    <3>3. TierTwoFrees'
        BY <2>1, <2>2, <2>3, <2>5 DEF Freeing, TierTwoFrees, Emptied
    <3>4. QED
        BY <3>1, <3>2, <3>3 DEF Freeing
  <2>6. QED
      BY <2>1, <2>4, <2>5
<1>4. QED
    BY <1>1, <1>2, <1>3 DEF DiskStep

\* A pass that ends in Tier 2 has emptied its subvolume, one that ends in Tier 1
\* has emptied it or left a pin.
LEMMA PassEndFrees == IInv /\ FreeInv /\ PassEnds => FreeInv'
<1> SUFFICES ASSUME IInv, FreeInv, PassEnds PROVE FreeInv'
    OBVIOUS
<1> USE DEF IInv, TypeOK, FreeInv
<1>1. /\ pc = "delete" /\ doomed = {} /\ pc' = "pick" /\ sv' = {}
      /\ UNCHANGED <<local, pin, tier, todo, chained, trouble>>
    BY DEF PassEnds, EndPass, disk, call
<1>2. \A t \in Subvols : PinnedIn(t)' = PinnedIn(t)
    BY <1>1 DEF PinnedIn
<1>3. NoPassNoSubvol' /\ TierOneFirst'
    BY <1>1 DEF NoPassNoSubvol, TierOneFirst
<1>4. ASSUME ~trouble PROVE Freeing'
  <2>1. \A s \in sv : s \in Subvols /\ local[s] \subseteq PinnedIn(s)
      BY <1>1, <1>4 DEF Freeing, PassFrees
  <2>2. tier = 2 => \A s \in sv : PinnedIn(s) = {}
      BY <1>1, <1>4 DEF Freeing, PassFrees, PinnedIn
  <2>3. PinOrNothing'
      BY <1>1, <1>2, <1>4, <2>1 DEF Freeing, PinOrNothing
  <2>4. TierTwoFrees'
      BY <1>1, <1>2, <1>4, <2>1, <2>2 DEF Freeing, TierTwoFrees, Emptied
  <2>5. PassFrees'
      BY <1>1 DEF PassFrees
  <2>6. QED
      BY <2>3, <2>4, <2>5 DEF Freeing
<1>5. QED
    BY <1>1, <1>3, <1>4

\* The way into the tiers and out of them.
LEMMA CallFrees == IInv /\ FreeInv /\ CallStep => FreeInv'
<1> SUFFICES ASSUME IInv, FreeInv, CallStep PROVE FreeInv'
    OBVIOUS
<1> USE DEF IInv, TypeOK, FreeInv, disk, pass, outcome
<1>1. CASE RunBegins \/ RunEnds \/ ReclaimBegins \/ EjectBegins
  <2>1. /\ pc \in {"idle", "run"} /\ pc' \in {"idle", "run", "gate"}
        /\ UNCHANGED <<sv, tier>> /\ sv = {} /\ tier = 1
      BY <1>1 DEF RunBegins, RunEnds, ReclaimBegins, EjectBegins, NoPassNoSubvol, TierOneFirst
  <2>2. QED
      BY <2>1 DEF NoPassNoSubvol, TierOneFirst, Freeing, PinOrNothing, PassFrees, TierTwoFrees
<1>2. CASE Gate
  <2>1. pc' \in {"done", "pick"} /\ tier' = 1 /\ sv' = {}
      BY <1>2 DEF Gate, StartTier, NoPassNoSubvol, TierOneFirst
  <2>2. pin' = pin /\ chained' = {s \in Subvols : PinnedIn(s) # {}}
      BY <1>2 DEF Gate
  <2>3. \A s \in chained' : PinnedIn(s)' # {}
      BY <2>2 DEF PinnedIn
  <2>4. QED
      BY <2>1, <2>3 DEF NoPassNoSubvol, TierOneFirst, Freeing, PinOrNothing, PassFrees, TierTwoFrees
<1>3. CASE TierOneEnds
  <2>1. /\ pc = "pick" /\ tier = 1 /\ sv = {} /\ sv' = {}
        /\ UNCHANGED <<local, pin, chained, trouble>>
        /\ \/ pc' = "done" /\ tier' = 1
           \/ pc' = "pick" /\ tier' = 2 /\ todo' = Subvols
      BY <1>3 DEF TierOneEnds, StartTier, NoPassNoSubvol
  <2>2. \A t \in Subvols : PinnedIn(t)' = PinnedIn(t)
      BY <2>1 DEF PinnedIn
  <2>3. NoPassNoSubvol' /\ TierOneFirst'
      BY <2>1 DEF NoPassNoSubvol, TierOneFirst
  <2>4. ASSUME ~trouble PROVE Freeing'
      BY <2>1, <2>2, <2>4 DEF Freeing, PinOrNothing, PassFrees, TierTwoFrees
  <2>5. QED
      BY <2>1, <2>3, <2>4
<1>4. CASE TierTwoEnds
  <2>1. /\ pc = "pick" /\ tier = 2 /\ todo = {} /\ pc' = "done" /\ sv = {}
        /\ UNCHANGED <<local, pin, tier, todo, sv, chained, trouble>>
      BY <1>4 DEF TierTwoEnds, call, NoPassNoSubvol
  <2>2. \A t \in Subvols : PinnedIn(t)' = PinnedIn(t)
      BY <2>1 DEF PinnedIn
  <2>3. NoPassNoSubvol' /\ TierOneFirst'
      BY <2>1 DEF NoPassNoSubvol, TierOneFirst
  <2>4. ASSUME ~trouble PROVE Freeing'
      BY <2>1, <2>2, <2>4 DEF Freeing, PinOrNothing, PassFrees, TierTwoFrees, Emptied
  <2>5. QED
      BY <2>1, <2>3, <2>4
<1>5. CASE Return \/ Crash
  <2>1. pc' = "idle" /\ tier' = 1 /\ sv' = {}
      BY <1>5 DEF Return, Crash, Forgotten
  <2>2. QED
      BY <2>1 DEF NoPassNoSubvol, TierOneFirst, Freeing, PinOrNothing, PassFrees, TierTwoFrees
<1>6. QED
    BY <1>1, <1>2, <1>3, <1>4, <1>5, PassEndFrees DEF CallStep

\* A pass that begins takes a subvolume out of those still to do; one that is
\* refused is a failure, unless there was nothing pinned, and so nothing left.
LEMMA PassStepFrees == IInv /\ FreeInv /\ PassStep => FreeInv'
<1> SUFFICES ASSUME IInv, FreeInv, PassStep PROVE FreeInv'
    OBVIOUS
<1> USE DEF IInv, TypeOK, FreeInv, disk, call
<1>1. ASSUME NEW s \in Subvols, Pick(s) PROVE FreeInv'
  <2>1. /\ pc = "pick" /\ sv = {} /\ s \in todo /\ todo' = todo \ {s}
        /\ UNCHANGED <<local, pin, tier, chained>>
      BY <1>1 DEF Pick, NoPassNoSubvol
  <2>2. \A t \in Subvols : PinnedIn(t)' = PinnedIn(t)
      BY <2>1 DEF PinnedIn
  <2>3. CASE EndPass({}) /\ trouble' = TRUE
      BY <2>1, <2>3 DEF EndPass, NoPassNoSubvol, TierOneFirst
  <2>4. CASE PinnedIn(s) = {} /\ EndPass({}) /\ UNCHANGED trouble
    <3>1. pc' = "pick" /\ sv' = {}
        BY <2>4 DEF EndPass
    <3>2. ASSUME ~trouble PROVE Freeing'
      <4>1. s \in chained => Emptied(s)
          BY <2>1, <2>4, <3>2 DEF Freeing, PinOrNothing, Emptied
      <4>2. PinOrNothing'
          BY <2>1, <2>2, <3>1, <3>2 DEF Freeing, PinOrNothing
      <4>3. TierTwoFrees'
          BY <2>1, <2>2, <3>1, <3>2, <4>1 DEF Freeing, TierTwoFrees, Emptied
      <4>4. QED
          BY <3>1, <4>2, <4>3 DEF Freeing, PassFrees
    <3>3. QED
        BY <2>4, <3>1, <3>2 DEF NoPassNoSubvol, TierOneFirst
  <2>5. CASE PinnedIn(s) # {} /\ BeginPass(s) /\ UNCHANGED trouble
    <3>1. pc' = "shed" /\ sv' = {s} /\ toShed' = IF tier = 1 THEN away[s] ELSE Drives
        BY <2>5 DEF BeginPass
    <3>2. ASSUME ~trouble PROVE Freeing'
      <4>1. PinOrNothing'
          BY <2>1, <2>2, <3>1, <3>2 DEF Freeing, PinOrNothing
      <4>2. PassFrees'
          BY <2>1, <3>1 DEF PassFrees
      <4>3. TierTwoFrees'
          BY <2>1, <2>2, <3>1, <3>2 DEF Freeing, TierTwoFrees, Emptied
      <4>4. QED
          BY <4>1, <4>2, <4>3 DEF Freeing
    <3>3. QED
        BY <2>5, <3>1, <3>2 DEF NoPassNoSubvol, TierOneFirst
  <2>6. QED
      BY <1>1, <2>3, <2>4, <2>5 DEF Pick
<1>2. ASSUME NEW s \in Subvols, ReRead(s) PROVE FreeInv'
  <2>1. /\ pc = "shed" /\ sv = {s} /\ toShed = {} /\ doomed' = local[s] \ PinnedIn(s)
        /\ pc' = "delete" /\ UNCHANGED <<local, pin, tier, todo, sv, toShed, chained, trouble>>
      BY <1>2 DEF ReRead, outcome
  <2>2. \A t \in Subvols : PinnedIn(t)' = PinnedIn(t)
      BY <2>1 DEF PinnedIn
  <2>3. NoPassNoSubvol' /\ TierOneFirst'
      BY <2>1 DEF NoPassNoSubvol, TierOneFirst
  <2>4. ASSUME ~trouble PROVE Freeing'
    <3>1. PinOrNothing' /\ TierTwoFrees'
        BY <2>1, <2>2, <2>4 DEF Freeing, PinOrNothing, TierTwoFrees, Emptied
    <3>2. PassFrees'
        BY <2>1, <2>2, <2>4 DEF Freeing, PassFrees
    <3>3. QED
        BY <3>1, <3>2 DEF Freeing
  <2>5. QED
      BY <2>1, <2>3, <2>4
<1>3. ASSUME NEW s \in Subvols, ReReadFails(s) \/ \E d \in Drives : ShedFails(s, d)
      PROVE  FreeInv'
    BY <1>3 DEF ReReadFails, ShedFails, EndPass, NoPassNoSubvol, TierOneFirst
<1>4. ASSUME NEW x \in Snaps, DeleteFails(x) PROVE FreeInv'
    BY <1>4 DEF DeleteFails, NoPassNoSubvol, TierOneFirst
<1>5. QED
    BY <1>1, <1>2, <1>3, <1>4 DEF PassStep

\* What a reclaim without a failure has freed holds in every state.
LEMMA FreeInvariant == Spec => []FreeInv
<1>1. Init => FreeInv
    BY DEF Init, FreeInv, NoPassNoSubvol, TierOneFirst, Freeing, PinOrNothing, PassFrees,
       TierTwoFrees
<1>2. IInv /\ FreeInv /\ [Next]_vars => FreeInv'
  <2> SUFFICES ASSUME IInv, FreeInv, [Next]_vars PROVE FreeInv'
      OBVIOUS
  <2>1. CASE UNCHANGED <<local, pin, pc, sv, tier, todo, toShed, doomed, chained, trouble>>
    <3>1. \A t : PinnedIn(t)' = PinnedIn(t)
        BY <2>1 DEF PinnedIn
    <3>2. QED
        BY <2>1, <3>1 DEF FreeInv, NoPassNoSubvol, TierOneFirst, Freeing, PinOrNothing,
           PassFrees, TierTwoFrees, Emptied
  <2>2. CASE Rot
      BY <2>1, <2>2 DEF Rot, PinRots, call, pass, outcome
  <2>3. CASE UNCHANGED vars
      BY <2>1, <2>3 DEF vars
  <2>4. QED
      BY <2>2, <2>3, NextSplit, DiskFrees, CallFrees, PassStepFrees
<1>3. QED
    BY <1>1, <1>2, InductiveInvariant, PTL DEF Spec

\* A reclaim that went through both tiers without a failure has freed every
\* snapshot of every subvolume that had a chain when it began.
THEOREM BothTiersFreeTheChained == Spec => []BlanketFreesAllChained
<1>1. IInv /\ FreeInv => BlanketFreesAllChained
  <2> SUFFICES ASSUME IInv, FreeInv, pc = "done", tier = 2, ~trouble, NEW s \in chained
               PROVE  PinnedIn(s) = {} /\ local[s] = {}
      BY DEF BlanketFreesAllChained
  <2>1. sv = {} /\ todo = {}
      BY DEF FreeInv, NoPassNoSubvol, Freeing, TierTwoFrees
  <2>2. QED
      BY <2>1 DEF FreeInv, Freeing, TierTwoFrees, Emptied
<1>2. QED
    BY <1>1, InductiveInvariant, FreeInvariant, PTL
==============================================================================
