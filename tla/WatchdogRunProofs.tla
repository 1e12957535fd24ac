-------------------------- MODULE WatchdogRunProofs --------------------------
(***************************************************************************)
(* Proofs about WatchdogRun for any roots, pools and bounds: its types, the   *)
(* three safety properties of the coordination between the executor, the     *)
(* watchdog and the teardown, and that every trip is answered.               *)
(***************************************************************************)
EXTENDS WatchdogRun, TLAPS

(******************************* type correctness **************************)

\* The types hold initially.
LEMMA InitTypeOK == Init => TypeOK
<1>1. MaxGroups \in Nat /\ 0 \in Nat
    BY BoundAssumption DEF BoundAssumption
<1>2. QED
    BY <1>1 DEF Init, TypeOK, ExecPoints, WatchPoints

\* The types are kept by the main thread.
LEMMA MainTypeOK == TypeOK /\ Main => TypeOK'
<1> SUFFICES ASSUME TypeOK, Main PROVE TypeOK'
    OBVIOUS
<1> USE DEF TypeOK, ExecPoints, WatchPoints, coord, execVars, wdVars
<1>1. ASSUME NEW r \in Roots, NEW n \in 0..MaxSends, StartGroup(r, n) PROVE TypeOK'
    BY <1>1, BoundAssumption DEF BoundAssumption, StartGroup
<1>2. CASE ResetCancel
  <2>1. sends' \in Nat
      BY <1>2 DEF ResetCancel
  <2>2. QED
      BY <1>2, <2>1 DEF ResetCancel
<1>3. CASE PublishInFlight
    BY <1>3 DEF PublishInFlight
<1>4. CASE SendEnds
    BY <1>4 DEF SendEnds
<1>5. CASE SendCancelled
    BY <1>5 DEF SendCancelled
<1>6. CASE ClearInFlight
    BY <1>6 DEF ClearInFlight
<1>7. CASE Bookkeep
    BY <1>7 DEF Bookkeep
<1>8. CASE EndOps
    BY <1>8 DEF EndOps
<1>9. CASE EndGroup
    BY <1>9 DEF EndGroup
<1>10. CASE SignalShutdown
    BY <1>10 DEF SignalShutdown
<1>11. CASE TakeFirings
    BY <1>11 DEF TakeFirings
<1>12. ASSUME NEW f \in pending, AnswerFiring(f) PROVE TypeOK'
  <2>1. [f EXCEPT !.reclaimed = TRUE] \in Firing
      BY DEF Firing
  <2>2. QED
      BY <1>12, <2>1 DEF AnswerFiring
<1>13. CASE TeardownReclaimEnds
    BY <1>13 DEF TeardownReclaimEnds
<1>14. CASE Finish
    BY <1>14 DEF Finish
<1>15. QED
    BY <1>1, <1>2, <1>3, <1>4, <1>5, <1>6, <1>7, <1>8, <1>9, <1>10, <1>11, <1>12,
       <1>13, <1>14 DEF Main

\* The types are kept by the watchdog: the pool of a firing is a pool because it
\* is the one being handled.
LEMMA WatchdogTypeOK == TypeOK /\ HandledIsTripped /\ Watchdog => TypeOK'
<1> SUFFICES ASSUME TypeOK, HandledIsTripped, Watchdog PROVE TypeOK'
    OBVIOUS
<1> USE DEF TypeOK, ExecPoints, WatchPoints, coord, execVars, wdVars
<1> DEFINE Belows == [Pools -> {"unknown", "yes", "no"}]
<1>1. ASSUME NEW p \in Pools PROVE [below EXCEPT ![p] = FirstSample(p)] \in Belows
    BY DEF FirstSample
<1>2. ASSUME NEW p \in Pools, PollHealthy(p) PROVE TypeOK'
  <2>1. below' \in Belows
      BY <1>1, <1>2 DEF PollHealthy
  <2>2. QED
      BY <1>2, <2>1 DEF PollHealthy
<1>3. ASSUME NEW p \in Pools, PollTrips(p) PROVE TypeOK'
  <2>1. below' \in Belows
      BY <1>1, <1>3 DEF PollTrips
  <2>2. tripped' \in SUBSET Roots
      BY <1>3, PoolAssumption DEF PollTrips, PoolAssumption
  <2>3. aborting' \in BOOLEAN /\ wpc' \in {"abort", "reclaim"}
      BY <1>3 DEF PollTrips
  <2>4. QED
      BY <1>3, <2>1, <2>2, <2>3 DEF PollTrips
<1>4. CASE StoreAbort
    BY <1>4 DEF StoreAbort
<1>5. CASE WatchdogReclaimEnds
    BY <1>5 DEF WatchdogReclaimEnds
<1>6. CASE PushFiring
  <2>1. wpool \in Pools
      BY <1>6 DEF PushFiring, HandledIsTripped
  <2>2. [pool |-> wpool, sendAborted |-> aborting, reclaimed |-> ~aborting] \in Firing
      BY <2>1 DEF Firing
  <2>3. firings' \in SUBSET Firing
      BY <1>6, <2>2 DEF PushFiring
  <2>4. QED
      BY <1>6, <2>3 DEF PushFiring
<1>7. CASE StopWatchdog
    BY <1>7 DEF StopWatchdog
<1>8. QED
    BY <1>2, <1>3, <1>4, <1>5, <1>6, <1>7 DEF Watchdog

\* The types are kept by every step.
LEMMA NextTypeOK == TypeOK /\ HandledIsTripped /\ [Next]_vars => TypeOK'
<1> SUFFICES ASSUME TypeOK, HandledIsTripped, [Next]_vars PROVE TypeOK'
    OBVIOUS
<1>1. CASE Main
    BY <1>1, MainTypeOK
<1>2. CASE Watchdog
    BY <1>2, WatchdogTypeOK
<1>3. ASSUME NEW p \in Pools, NEW l \in Levels, FreeSpaceMoves(p, l) PROVE TypeOK'
  <2>1. level' \in [Pools -> Levels]
      BY <1>3 DEF FreeSpaceMoves, TypeOK
  <2>2. QED
      BY <1>3, <2>1 DEF FreeSpaceMoves, TypeOK, execVars, coord, wdVars
<1>4. CASE UNCHANGED vars
    BY <1>4 DEF vars, TypeOK
<1>5. QED
    BY <1>1, <1>2, <1>3, <1>4 DEF Next, Terminated

(*************************** the inductive invariant ***********************)

\* The invariant holds initially: nothing is in flight, nothing is tripped.
LEMMA InitIInv == Init => IInv
<1>1. ASSUME Init PROVE IInv
  <2>1. TypeOK
      BY <1>1, InitTypeOK
  <2>2. QED
      BY <1>1, <2>1, PoolAssumption
      DEF PoolAssumption, Init, IInv, PublishedWhileSending, GroupWhileInside, InGroup,
          HandledIsTripped, ReclaimedIsElsewhere, AbortSurvivesReset, JoinedBeforeDrain
<1>2. QED
    BY <1>1

\* Steps of the main thread: the conjuncts that speak of both threads hold
\* because a group or a send is started only on a pool that is not tripped.
LEMMA MainIInv == IInv /\ Main => IInv'
<1> SUFFICES ASSUME IInv, Main PROVE IInv'
    OBVIOUS
<1>0. TypeOK'
    BY MainTypeOK DEF IInv
<1> USE <1>0, PoolAssumption DEF PoolAssumption, IInv, TypeOK, PublishedWhileSending,
        GroupWhileInside, InGroup, HandledIsTripped, ReclaimedIsElsewhere,
        AbortSurvivesReset, JoinedBeforeDrain, coord, execVars, wdVars
<1>1. ASSUME NEW r \in Roots, NEW n \in 0..MaxSends, StartGroup(r, n) PROVE IInv'
    BY <1>1 DEF StartGroup
<1>2. CASE ResetCancel
    BY <1>2 DEF ResetCancel
<1>3. CASE PublishInFlight
    BY <1>3 DEF PublishInFlight
<1>4. CASE SendEnds
    BY <1>4 DEF SendEnds
<1>5. CASE SendCancelled
    BY <1>5 DEF SendCancelled
<1>6. CASE ClearInFlight
    BY <1>6 DEF ClearInFlight
<1>7. CASE Bookkeep
    BY <1>7 DEF Bookkeep
<1>8. CASE EndOps
    BY <1>8 DEF EndOps
<1>9. CASE EndGroup
    BY <1>9 DEF EndGroup
<1>10. CASE SignalShutdown
    BY <1>10 DEF SignalShutdown
<1>11. CASE TakeFirings
    BY <1>11 DEF TakeFirings
<1>12. ASSUME NEW f \in pending, AnswerFiring(f) PROVE IInv'
    BY <1>12 DEF AnswerFiring
<1>13. CASE TeardownReclaimEnds
    BY <1>13 DEF TeardownReclaimEnds
<1>14. CASE Finish
    BY <1>14 DEF Finish
<1>15. QED
    BY <1>1, <1>2, <1>3, <1>4, <1>5, <1>6, <1>7, <1>8, <1>9, <1>10, <1>11, <1>12,
       <1>13, <1>14 DEF Main

\* Steps of the watchdog.  A trip is routed by what the lock shows: a send on the
\* pool means the abort route, so the reclaim route leaves the pool to the
\* watchdog alone.
LEMMA WatchdogIInv == IInv /\ Watchdog => IInv'
<1> SUFFICES ASSUME IInv, Watchdog PROVE IInv'
    OBVIOUS
<1>0. TypeOK'
    BY WatchdogTypeOK DEF IInv
<1> USE <1>0, PoolAssumption DEF PoolAssumption, IInv, TypeOK, PublishedWhileSending,
        GroupWhileInside, InGroup, HandledIsTripped, ReclaimedIsElsewhere,
        AbortSurvivesReset, JoinedBeforeDrain, coord, execVars, wdVars
<1>1. ASSUME NEW p \in Pools, PollHealthy(p) PROVE IInv'
    BY <1>1 DEF PollHealthy
<1>2. ASSUME NEW p \in Pools, PollTrips(p) PROVE IInv'
    BY <1>2 DEF PollTrips
<1>3. CASE StoreAbort
    BY <1>3 DEF StoreAbort
<1>4. CASE WatchdogReclaimEnds
    BY <1>4 DEF WatchdogReclaimEnds
<1>5. CASE PushFiring
    BY <1>5 DEF PushFiring
<1>6. CASE StopWatchdog
    BY <1>6 DEF StopWatchdog
<1>7. QED
    BY <1>1, <1>2, <1>3, <1>4, <1>5, <1>6 DEF Watchdog

\* The invariant is inductive.
LEMMA NextIInv == IInv /\ [Next]_vars => IInv'
<1> SUFFICES ASSUME IInv, [Next]_vars PROVE IInv'
    OBVIOUS
<1>0. TypeOK'
    BY NextTypeOK DEF IInv
<1>1. CASE Main
    BY <1>1, MainIInv
<1>2. CASE Watchdog
    BY <1>2, WatchdogIInv
<1> USE <1>0 DEF IInv, PublishedWhileSending, GroupWhileInside, InGroup, HandledIsTripped,
        ReclaimedIsElsewhere, AbortSurvivesReset, JoinedBeforeDrain
<1>3. ASSUME NEW p \in Pools, NEW l \in Levels, FreeSpaceMoves(p, l) PROVE IInv'
    BY <1>3 DEF FreeSpaceMoves, execVars, coord, wdVars
<1>4. CASE UNCHANGED vars
    BY <1>4 DEF vars
<1>5. QED
    BY <1>1, <1>2, <1>3, <1>4 DEF Next, Terminated

(********************************** theorems *******************************)

\* Every reachable state satisfies the inductive invariant.
THEOREM InductiveInvariant == Spec => []IInv
<1>1. QED
    BY InitIInv, NextIInv, PTL DEF Spec

\* Every variable of the run keeps its type, for any roots, pools and bounds.
THEOREM TypeCorrect == Spec => []TypeOK
<1>1. IInv => TypeOK
    BY DEF IInv
<1>2. QED
    BY <1>1, InductiveInvariant, PTL

\* The watchdog thread reclaims a pool only while the executor is in no operation
\* of a subvolume on it (the disjointness the doc comment of `WatchdogCoord`
\* argues for).
THEOREM ReclaimIsDisjoint == Spec => []ReclaimDisjointFromExecutor
<1>1. IInv => ReclaimDisjointFromExecutor
    BY PoolAssumption DEF IInv, TypeOK, ReclaimDisjointFromExecutor, ReclaimedIsElsewhere,
       PublishedWhileSending, HandledIsTripped, PoolAssumption
<1>2. QED
    BY <1>1, InductiveInvariant, PTL

\* The reset of the cancel flag before a send never loses the abort of a trip that
\* concerns this send.
THEOREM AbortNeverLost == Spec => []AbortSurvivesReset
<1>1. IInv => AbortSurvivesReset
    BY DEF IInv
<1>2. QED
    BY <1>1, InductiveInvariant, PTL

\* The teardown reclaims only after the watchdog was joined and with no send out.
THEOREM TeardownIsAlone == Spec => []TeardownReclaimsAlone
<1>1. IInv => TeardownReclaimsAlone
    BY DEF IInv, TeardownReclaimsAlone, PublishedWhileSending, JoinedBeforeDrain
<1>2. QED
    BY <1>1, InductiveInvariant, PTL

(**************************** every trip is answered ***********************)

\* What the firings stand for.  A pool fires once; the tripped roots are those
\* of the pools that fired and of the one being handled; and in the teardown
\* what is not pending any more is reclaimed.
Handling == wpc \in {"abort", "reclaim", "record"}

OneFiringPerPool == \A f, g \in firings : f.pool = g.pool => f = g

TrippedFires ==
    /\ \A r \in tripped : \/ \E f \in firings : r \in RootsOf[f.pool]
                          \/ Handling /\ r \in RootsOf[wpool]
    /\ \A f \in firings : RootsOf[f.pool] \subseteq tripped
    /\ Handling => \A f \in firings : f.pool # wpool

Answered ==
    epc \in {"drain", "reclaim", "finished"} =>
        /\ pending \subseteq firings
        /\ \A f \in firings \ pending : f.reclaimed

FinishedAnswered == epc = "finished" => pending = {}

FiringInv == OneFiringPerPool /\ TrippedFires /\ Answered /\ FinishedAnswered

\* No step of the main thread but an answer touches the firings, and an answer
\* keeps the pool.
LEMMA MainFirings == IInv /\ FiringInv /\ Main => FiringInv'
<1> SUFFICES ASSUME IInv, FiringInv, Main PROVE FiringInv'
    OBVIOUS
<1> USE DEF FiringInv
<1>1. ASSUME NEW f \in pending, AnswerFiring(f) PROVE FiringInv'
  <2> DEFINE g == [f EXCEPT !.reclaimed = TRUE]
  <2>1. f \in firings /\ firings' = (firings \ {f}) \cup {g} /\ pending' = pending \ {f}
      BY <1>1 DEF AnswerFiring, Answered
  <2>2. /\ f \in Firing /\ g.pool = f.pool /\ g.reclaimed
        /\ \A h \in firings : h \in Firing
      BY <2>1 DEF IInv, TypeOK, Firing
  <2>3. UNCHANGED <<tripped, wpc, wpool>>
      BY <1>1 DEF AnswerFiring, coord, wdVars
  <2>4. epc = "drain" /\ epc' # "finished"
      BY <1>1 DEF AnswerFiring
  <2>5. OneFiringPerPool'
      BY <2>1, <2>2 DEF OneFiringPerPool
  <2>6. \A r : (\E h \in firings : r \in RootsOf[h.pool]) <=> (\E h \in firings' : r \in RootsOf[h.pool])
      BY <2>1, <2>2
  <2>7. \A h \in firings' : \E k \in firings : k.pool = h.pool
      BY <2>1, <2>2
  <2>8. TrippedFires'
      BY <2>3, <2>6, <2>7 DEF TrippedFires, Handling
  <2>9. Answered'
      BY <2>1, <2>2, <2>4 DEF Answered
  <2>10. QED
      BY <2>4, <2>5, <2>8, <2>9 DEF FinishedAnswered
<1>2. ASSUME UNCHANGED <<firings, tripped, wpc, wpool>>,
             UNCHANGED pending, epc' = "finished" => pending = {},
             epc' \in {"drain", "reclaim", "finished"} => epc \in {"drain", "reclaim", "finished"}
      PROVE  FiringInv'
    BY <1>2 DEF OneFiringPerPool, TrippedFires, Handling, Answered, FinishedAnswered
<1>3. CASE TakeFirings
    BY <1>3 DEF TakeFirings, OneFiringPerPool, TrippedFires, Handling, Answered,
       FinishedAnswered, coord, wdVars
<1>4. ASSUME NEW r \in Roots, NEW n \in 0..MaxSends, StartGroup(r, n) PROVE FiringInv'
  <2>1. /\ UNCHANGED <<firings, tripped, wpc, wpool>> /\ UNCHANGED pending
        /\ epc' \in {"groups", "ops"}
      BY <1>4 DEF StartGroup, coord, wdVars
  <2>2. QED
      BY <1>2, <2>1
<1>5. CASE ResetCancel \/ PublishInFlight \/ SendEnds \/ SendCancelled
  <2>1. /\ UNCHANGED <<firings, tripped, wpc, wpool>> /\ UNCHANGED pending
        /\ epc' \in {"armed", "ops", "sending", "exited"}
      BY <1>5 DEF ResetCancel, PublishInFlight, SendEnds, SendCancelled, coord, wdVars
  <2>2. QED
      BY <1>2, <2>1
<1>6. CASE ClearInFlight \/ Bookkeep \/ EndOps \/ EndGroup \/ SignalShutdown
  <2>1. /\ UNCHANGED <<firings, tripped, wpc, wpool>> /\ UNCHANGED pending
        /\ epc' \in {"bookkeep", "ops", "cleanup", "groups", "join"}
      BY <1>6 DEF ClearInFlight, Bookkeep, EndOps, EndGroup, SignalShutdown, coord, wdVars
  <2>2. QED
      BY <1>2, <2>1
<1>7. CASE TeardownReclaimEnds \/ Finish
    BY <1>2, <1>7 DEF TeardownReclaimEnds, Finish, coord, wdVars
<1>8. QED
    BY <1>1, <1>3, <1>4, <1>5, <1>6, <1>7 DEF Main

\* The watchdog handles a pool that has not fired, and then it fires.
LEMMA WatchdogFirings == IInv /\ FiringInv /\ Watchdog => FiringInv'
<1> SUFFICES ASSUME IInv, FiringInv, Watchdog PROVE FiringInv'
    OBVIOUS
<1> USE DEF FiringInv
<1>0. wpc # "stopped" /\ epc \notin {"drain", "reclaim", "finished"}
    BY DEF IInv, JoinedBeforeDrain, Watchdog, PollHealthy, PollTrips, StoreAbort,
       WatchdogReclaimEnds, PushFiring, StopWatchdog
<1>1. epc' = epc
    BY DEF Watchdog, PollHealthy, PollTrips, StoreAbort, WatchdogReclaimEnds, PushFiring,
       StopWatchdog, execVars
<1>2. Answered' /\ FinishedAnswered'
    BY <1>0, <1>1 DEF Answered, FinishedAnswered
<1>3. ASSUME NEW p \in Pools, PollTrips(p) PROVE OneFiringPerPool' /\ TrippedFires'
  <2>1. /\ wpool' = p /\ tripped' = tripped \cup RootsOf[p] /\ firings' = firings
        /\ wpc = "poll" /\ wpc' \in {"abort", "reclaim"}
        /\ \A f \in firings : f.pool # p
      BY <1>3 DEF PollTrips, Done
  <2>2. QED
      BY <2>1 DEF OneFiringPerPool, TrippedFires, Handling
<1>4. CASE PushFiring
  <2> DEFINE g == [pool |-> wpool, sendAborted |-> aborting, reclaimed |-> ~aborting]
  <2>1. /\ firings' = firings \cup {g} /\ g.pool = wpool /\ tripped' = tripped
        /\ wpc = "record" /\ wpc' = "poll"
      BY <1>4 DEF PushFiring, coord
  <2>2. /\ RootsOf[wpool] \subseteq tripped
        /\ \A f \in firings : f.pool # wpool
      BY <2>1 DEF IInv, HandledIsTripped, TrippedFires, Handling
  <2>3. OneFiringPerPool'
      BY <2>1, <2>2 DEF OneFiringPerPool
  <2>4. \A r \in tripped : \E f \in firings' : r \in RootsOf[f.pool]
    <3> SUFFICES ASSUME NEW r \in tripped PROVE \E f \in firings' : r \in RootsOf[f.pool]
        OBVIOUS
    <3>1. CASE \E f \in firings : r \in RootsOf[f.pool]
        BY <2>1, <3>1
    <3>2. CASE r \in RootsOf[wpool]
        BY <2>1, <3>2
    <3>3. QED
        BY <3>1, <3>2 DEF TrippedFires
  <2>5. \A f \in firings' : RootsOf[f.pool] \subseteq tripped
      BY <2>1, <2>2 DEF TrippedFires
  <2>6. QED
      BY <1>2, <2>1, <2>3, <2>4, <2>5 DEF TrippedFires, Handling
<1>5. CASE (\E p \in Pools : PollHealthy(p)) \/ StopWatchdog
    BY <1>2, <1>5 DEF PollHealthy, StopWatchdog, OneFiringPerPool, TrippedFires, Handling, coord
<1>6. CASE StoreAbort \/ WatchdogReclaimEnds
    BY <1>2, <1>6 DEF StoreAbort, WatchdogReclaimEnds, OneFiringPerPool, TrippedFires, Handling, coord
<1>7. QED
    BY <1>2, <1>3, <1>4, <1>5, <1>6 DEF Watchdog

\* The firings stand for the trips in every reachable state.
LEMMA FiringsInvariant == Spec => []FiringInv
<1>1. Init => FiringInv
    BY DEF Init, FiringInv, OneFiringPerPool, TrippedFires, Handling, Answered, FinishedAnswered
<1>2. IInv /\ FiringInv /\ [Next]_vars => FiringInv'
  <2> SUFFICES ASSUME IInv, FiringInv, [Next]_vars PROVE FiringInv'
      OBVIOUS
  <2>1. CASE UNCHANGED <<firings, tripped, wpc, wpool, epc, pending>>
      BY <2>1 DEF FiringInv, OneFiringPerPool, TrippedFires, Handling, Answered, FinishedAnswered
  <2>2. ASSUME NEW p \in Pools, NEW l \in Levels, FreeSpaceMoves(p, l) PROVE FiringInv'
      BY <2>1, <2>2 DEF FreeSpaceMoves, execVars, coord, wdVars
  <2>3. CASE Main \/ Watchdog
      BY <2>3, MainFirings, WatchdogFirings
  <2>4. CASE UNCHANGED vars
      BY <2>1, <2>4 DEF vars
  <2>5. QED
      BY <2>2, <2>3, <2>4 DEF Next, Terminated
<1>3. QED
    BY <1>1, <1>2, InductiveInvariant, PTL DEF Spec

\* When a run is over every pool that tripped has fired once, and the firing was
\* answered by the watchdog's reclaim or by the teardown's.
THEOREM TripsAreAnswered == Spec => []EveryTripAnsweredAtExit
<1>1. IInv /\ FiringInv => EveryTripAnsweredAtExit
  <2> SUFFICES ASSUME IInv, FiringInv, epc = "finished"
               PROVE  /\ \A f \in firings : f.reclaimed
                      /\ \A f, g \in firings : f.pool = g.pool => f = g
                      /\ tripped = UNION {RootsOf[f.pool] : f \in firings}
      BY DEF EveryTripAnsweredAtExit
  <2>1. ~Handling
      BY DEF IInv, JoinedBeforeDrain, Handling
  <2>2. tripped = UNION {RootsOf[f.pool] : f \in firings}
      BY <2>1 DEF FiringInv, TrippedFires
  <2>3. QED
      BY <2>2 DEF FiringInv, OneFiringPerPool, Answered, FinishedAnswered
<1>2. QED
    BY <1>1, InductiveInvariant, FiringsInvariant, PTL
=============================================================================
