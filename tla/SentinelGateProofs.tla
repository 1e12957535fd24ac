-------------------------- MODULE SentinelGateProofs --------------------------
(***************************************************************************)
(* The tail of a run beside the sentinel, for any number of runs and of     *)
(* sentinel lives: the types; what a pid left in the lock file can and      *)
(* cannot do to the event log; that the sentinel does not repeat what a run *)
(* told, nor a tick record what a finished run has; and that what a run     *)
(* leaves to the sentinel is told.                                          *)
(***************************************************************************)
EXTENDS SentinelGate, TLAPS

\* What the argument needs of the state: the two processes have their fields,
\* and the lock file names nobody but a run or a sentinel.
RunRecord ==
    [pc : RunPoints, id : Nat, pre : Promises \cup {None},
     prev : Promises \cup {None}, post : Promises \cup {None}, failed : BOOLEAN]

AnyStatus == [is : Promises, by : Nat]

SentinelRecord ==
    [pc : SentinelPoints, life : Nat,
     base : AnyStatus \cup {None}, seen : AnyStatus \cup {None},
     assessed : BOOLEAN, lastBeat : Nat, firstBeat : Nat,
     trigger : Triggers, emit : BOOLEAN, ended : Nat]

Heartbeat == [is : Promises, run : Nat, dispatched : BOOLEAN]
Holder == [who : {"run", "sentinel"}, id : Nat]

RunTyped ==
    /\ run \in RunRecord
    /\ run.pc # "idle" => run.id > 0
    /\ run.pc = "assessed" => run.post \in Promises

SentinelTyped == sen \in SentinelRecord

FilesTyped ==
    /\ status \in AnyStatus
    /\ beats \in Nat
    /\ heartbeat = None \/ heartbeat \in Heartbeat
    /\ meta = None \/ meta \in Holder

HolderKnown == RunTyped /\ SentinelTyped /\ FilesTyped

\* The records the processes start from are of their types.
LEMMA IdleTyped == ASSUME NEW n \in Nat PROVE Idle(n) \in RunRecord /\ Idle(n).pc = "idle"
                                                                 /\ Idle(n).id = n
BY DEF Idle, RunRecord, RunPoints

LEMMA AsleepTyped == ASSUME NEW n \in Nat PROVE Asleep(n) \in SentinelRecord
BY DEF Asleep, SentinelRecord, SentinelPoints, Triggers

\* mark_dispatched leaves a heartbeat or none.
LEMMA MarkTyped ==
    ASSUME FilesTyped, MarkDispatched
    PROVE  beats' \in Nat /\ (heartbeat' = None \/ heartbeat' \in Heartbeat)
<1>1. CASE heartbeat = None
  BY <1>1 DEF FilesTyped, MarkDispatched
<1>2. CASE heartbeat \in Heartbeat /\ heartbeat # None
  <2>1. heartbeat' = [heartbeat EXCEPT !.dispatched = TRUE] /\ beats' = beats + 1
    BY <1>2 DEF MarkDispatched
  <2>2. heartbeat' \in Heartbeat
    BY <1>2, <2>1 DEF Heartbeat
  <2> QED
    BY <2>1, <2>2 DEF FilesTyped
<1> QED
  BY <1>1, <1>2 DEF FilesTyped

\* A step of a run keeps the two processes and the files typed.
LEMMA BackupKeepsHolder == HolderKnown /\ Backup => HolderKnown'
<1> SUFFICES ASSUME RunTyped, SentinelTyped, FilesTyped, Backup
             PROVE  RunTyped' /\ SentinelTyped' /\ FilesTyped'
  BY DEF HolderKnown
<1>0. SentinelTyped'
  BY DEF SentinelTyped, Backup, RunLocks, EmptyPlan, AssessBefore, Execute, AssessAfter,
         WriteHeartbeat, HeartbeatFails, DeferToSentinel, Dispatch, RecordRun, RunEnds
<1>1. ASSUME RunLocks PROVE RunTyped' /\ FilesTyped'
  <2>1. run.id + 1 \in Nat /\ run.id + 1 > 0
    BY DEF RunTyped, RunRecord
  <2>2. RunTyped'
    BY <1>1, <2>1, IdleTyped DEF RunLocks, RunTyped, RunRecord, RunPoints
  <2>3. FilesTyped'
    BY <1>1, <2>1 DEF RunLocks, FilesTyped, Holder
  <2> QED
    BY <2>1, <2>2, <2>3
<1>2. ASSUME EmptyPlan PROVE RunTyped' /\ FilesTyped'
  <2>1. RunTyped'
    BY <1>2 DEF EmptyPlan, RunTyped, RunRecord, RunPoints
  <2>2. FilesTyped'
    BY <1>2 DEF EmptyPlan, FilesTyped
  <2> QED
    BY <2>1, <2>2
<1>3. ASSUME AssessBefore PROVE RunTyped' /\ FilesTyped'
  <2>1. RunTyped'
    BY <1>3 DEF AssessBefore, FilesTyped, AnyStatus, RunTyped, RunRecord, RunPoints
  <2>2. FilesTyped'
    BY <1>3 DEF AssessBefore, FilesTyped
  <2> QED
    BY <2>1, <2>2
<1>4. ASSUME NEW restores \in BOOLEAN, NEW fails \in BOOLEAN, Execute(restores, fails)
      PROVE  RunTyped' /\ FilesTyped'
  <2>1. RunTyped'
    BY <1>4 DEF Execute, RunTyped, RunRecord, RunPoints
  <2>2. FilesTyped'
    BY <1>4 DEF Execute, FilesTyped, AnyStatus, Promises, RunTyped, RunRecord
  <2> QED
    BY <2>1, <2>2
<1>5. ASSUME AssessAfter PROVE RunTyped' /\ FilesTyped'
  <2>1. status.is \in Promises /\ (heartbeat # None => heartbeat.is \in Promises)
    BY DEF FilesTyped, AnyStatus, Heartbeat
  <2>2. RunTyped'
    BY <1>5, <2>1 DEF AssessAfter, RunTyped, RunRecord, RunPoints
  <2>3. FilesTyped'
    BY <1>5 DEF AssessAfter, FilesTyped
  <2> QED
    BY <2>1, <2>2, <2>3
<1>6. ASSUME WriteHeartbeat PROVE RunTyped' /\ FilesTyped'
  <2>1. RunTyped'
    BY <1>6 DEF WriteHeartbeat, RunTyped, RunRecord, RunPoints
  <2>2. run.post \in Promises /\ run.id \in Nat
    BY <1>6 DEF WriteHeartbeat, RunTyped, RunRecord
  <2>3. FilesTyped'
    BY <1>6, <2>2 DEF WriteHeartbeat, FilesTyped, Heartbeat
  <2> QED
    BY <2>1, <2>2, <2>3
<1>7. ASSUME HeartbeatFails PROVE RunTyped' /\ FilesTyped'
  <2>1. RunTyped'
    BY <1>7 DEF HeartbeatFails, RunTyped, RunRecord, RunPoints
  <2>2. FilesTyped'
    BY <1>7 DEF HeartbeatFails, FilesTyped
  <2> QED
    BY <2>1, <2>2
<1>8. ASSUME DeferToSentinel PROVE RunTyped' /\ FilesTyped'
  <2>1. RunTyped'
    BY <1>8 DEF DeferToSentinel, RunTyped, RunRecord, RunPoints
  <2>2. FilesTyped'
    BY <1>8, MarkTyped DEF DeferToSentinel, FilesTyped
  <2> QED
    BY <2>1, <2>2
<1>9. ASSUME NEW delivered \in BOOLEAN, Dispatch(delivered) PROVE RunTyped' /\ FilesTyped'
  <2>1. RunTyped'
    BY <1>9 DEF Dispatch, RunTyped, RunRecord, RunPoints
  <2>2. FilesTyped'
    BY <1>9, MarkTyped DEF Dispatch, FilesTyped
  <2> QED
    BY <2>1, <2>2
<1>10. ASSUME RecordRun PROVE RunTyped' /\ FilesTyped'
  <2>1. RunTyped'
    BY <1>10 DEF RecordRun, RunTyped, RunRecord, RunPoints
  <2>2. FilesTyped'
    BY <1>10 DEF RecordRun, FilesTyped
  <2> QED
    BY <2>1, <2>2
<1>11. ASSUME RunEnds PROVE RunTyped' /\ FilesTyped'
  <2>1. RunTyped'
    BY <1>11, IdleTyped DEF RunEnds, RunTyped, RunRecord, RunPoints
  <2>2. FilesTyped'
    BY <1>11 DEF RunEnds, FilesTyped
  <2> QED
    BY <2>1, <2>2
<1> QED
  BY <1>0, <1>1, <1>2, <1>3, <1>4, <1>5, <1>6, <1>7, <1>8, <1>9, <1>10, <1>11 DEF Backup

\* A step of the sentinel keeps the two processes and the files typed.
LEMMA SentinelKeepsHolder == HolderKnown /\ Sentinel => HolderKnown'
<1> SUFFICES ASSUME RunTyped, SentinelTyped, FilesTyped, Sentinel
             PROVE  RunTyped' /\ SentinelTyped' /\ FilesTyped'
  BY DEF HolderKnown
<1>0. EndedRuns \in Nat
  BY DEF EndedRuns, RunTyped, RunRecord
<1>1. RunTyped'
  BY DEF RunTyped, Sentinel, StartSentinel, Poll, ReadPromise, Decide, Publish, Eject,
         ExitSentinel, KillSentinel
<1>2. FilesTyped'
  <2>1. CASE Eject
    <3>1. [who |-> "sentinel", id |-> sen.life] \in Holder
      BY DEF SentinelTyped, SentinelRecord, Holder
    <3> QED
      BY <2>1, <3>1 DEF Eject, FilesTyped
  <2>2. CASE ~Eject
    BY <2>2 DEF FilesTyped, Sentinel, StartSentinel, Poll, ReadPromise, Decide, Publish,
                ExitSentinel, KillSentinel
  <2> QED
    BY <2>1, <2>2
<1>3. ASSUME NEW mounted \in BOOLEAN, StartSentinel(mounted) PROVE SentinelTyped'
  <2>1. Asleep(sen.life + 1) \in SentinelRecord
    <3>1. sen.life + 1 \in Nat
      BY DEF SentinelTyped, SentinelRecord
    <3> QED
      BY <3>1, AsleepTyped
  <2> QED
    BY <1>0, <1>3, <2>1 DEF StartSentinel, SentinelTyped, SentinelRecord, FilesTyped,
                            SentinelPoints, Triggers
<1>4. ASSUME NEW detected \in SUBSET Detectable, Poll(detected) PROVE SentinelTyped'
  <2> DEFINE events == Collected(detected)
  <2>1. Trigger(events) \in Triggers
    BY DEF Trigger, Triggers
  <2>2. sen' = [sen EXCEPT
                 !.pc = IF events = {} THEN "ready" ELSE "assess",
                 !.lastBeat = beats,
                 !.firstBeat = IF sen.lastBeat = 0 /\ heartbeat # None
                               THEN heartbeat.run ELSE @,
                 !.trigger = Trigger(events),
                 !.ended = IF events = {} THEN 0 ELSE EndedRuns]
    BY <1>4 DEF Poll
  <2> HIDE DEF events
  <2>3. heartbeat # None => heartbeat.run \in Nat
    BY DEF FilesTyped, Heartbeat
  <2>4. beats \in Nat
    BY DEF FilesTyped
  <2> QED
    BY <1>0, <2>1, <2>2, <2>3, <2>4 DEF SentinelTyped, SentinelRecord, SentinelPoints
<1>5. ASSUME ReadPromise PROVE SentinelTyped'
  BY <1>5 DEF ReadPromise, SentinelTyped, SentinelRecord, SentinelPoints, FilesTyped
<1>6. ASSUME Decide PROVE SentinelTyped'
  BY <1>6 DEF Decide, SeesChange, ShouldRecord, BackupRunActive, SentinelTyped,
              SentinelRecord, SentinelPoints
<1>7. ASSUME NEW written \in BOOLEAN, Publish(written) PROVE SentinelTyped'
  BY <1>7 DEF Publish, SentinelTyped, SentinelRecord, SentinelPoints, Triggers
<1>8. ASSUME Eject PROVE SentinelTyped'
  BY <1>8 DEF Eject, SentinelTyped
<1>9. ASSUME ExitSentinel \/ KillSentinel PROVE SentinelTyped'
  <2>1. sen.life \in Nat
    BY DEF SentinelTyped, SentinelRecord
  <2> QED
    BY <1>9, <2>1, AsleepTyped DEF ExitSentinel, KillSentinel, SentinelTyped
<1> QED
  BY <1>1, <1>2, <1>3, <1>4, <1>5, <1>6, <1>7, <1>8, <1>9 DEF Sentinel

\* The lock file never names anyone but a run or a sentinel (lock.rs acquire_lock
\* writes its own pid and nothing else), whoever crashes and whatever is left over.
THEOREM HolderAlwaysKnown == Spec => []HolderKnown
<1>1. Init => HolderKnown
  <2> SUFFICES ASSUME Init PROVE RunTyped /\ SentinelTyped /\ FilesTyped
    BY DEF HolderKnown
  <2>1. RunTyped
    BY IdleTyped DEF Init, RunTyped
  <2>2. SentinelTyped
    BY AsleepTyped DEF Init, SentinelTyped
  <2>3. FilesTyped
    <3>1. status \in AnyStatus
      BY DEF Init, AnyStatus
    <3>2. beats \in Nat /\ (heartbeat = None \/ heartbeat \in Heartbeat)
      <4>1. ASSUME NEW p \in Promises
            PROVE  [is |-> p, run |-> 0, dispatched |-> TRUE] \in Heartbeat
        BY DEF Heartbeat
      <4>2. (heartbeat = None /\ beats = 0) \/ (heartbeat \in Heartbeat /\ beats = 1)
        BY <4>1 DEF Init
      <4> QED
        BY <4>2
    <3>3. meta = None \/ meta \in Holder
      BY DEF Init, Holder
    <3> QED
      BY <3>1, <3>2, <3>3 DEF FilesTyped
  <2> QED
    BY <2>1, <2>2, <2>3
<1>2. HolderKnown /\ [Next]_vars => HolderKnown'
  <2> SUFFICES ASSUME HolderKnown, [Next]_vars PROVE HolderKnown'
    OBVIOUS
  <2>1. CASE UNCHANGED vars
    BY <2>1 DEF vars, HolderKnown, RunTyped, SentinelTyped, FilesTyped
  <2>2. CASE PromiseAges
    BY <2>2 DEF PromiseAges, HolderKnown, RunTyped, SentinelTyped, FilesTyped, AnyStatus,
                Promises
  <2> QED
    BY <2>1, <2>2, BackupKeepsHolder, SentinelKeepsHolder DEF Next
<1> QED
  BY <1>1, <1>2, PTL DEF Spec

\* While no run is alive the sentinel's look into the lock file finds none,
\* whatever pid the file holds.
LEMMA NoRunNoHolder ==
    ASSUME HolderKnown, run.pc = "idle", sen.pc # "down"
    PROVE  ~BackupRunActive
BY DEF HolderKnown, FilesTyped, Holder, BackupRunActive, HolderAlive, RunAlive, SentinelAlive

\* A pid left in the lock file, of a dead run or of the sentinel's own eject,
\* silences no transition that actions.rs execute_assess sees while no run is alive.
THEOREM LeftoverLockIsHarmless == Spec => LeftoverLockSilencesNothing
<1>1. HolderKnown =>
        [(Decide /\ SeesChange /\ sen.trigger # "none" /\ run.pc = "idle") => sen'.emit]_vars
  <2> SUFFICES ASSUME HolderKnown, Decide, SeesChange, sen.trigger # "none", run.pc = "idle"
               PROVE  sen'.emit
    OBVIOUS
  <2>1. ShouldRecord
    BY NoRunNoHolder DEF Decide, SeesChange, ShouldRecord
  <2>2. sen'.emit = (SeesChange /\ ShouldRecord)
    BY DEF Decide, HolderKnown, SentinelTyped, SentinelRecord
  <2> QED
    BY <2>1, <2>2
<1> QED
  BY <1>1, HolderAlwaysKnown, PTL DEF LeftoverLockSilencesNothing
(********************************* no echo *********************************)

\* A sentinel that is down remembers nothing; one about to decide has a reading.
Awake ==
    /\ sen.pc = "down" => sen.base = None /\ sen.seen = None
    /\ sen.pc = "decide" => sen.seen \in AnyStatus

\* A run changes the promise in one direction only.
RunsRestore ==
    /\ status.by > 0 => status.is = "protected"
    /\ sen.base # None /\ sen.base.by > 0 => sen.base.is = "protected"
    /\ sen.pc = "decide" /\ sen.seen.by > 0 => sen.seen.is = "protected"

ByRun(r) == [run |-> r, by |-> "run"] \in told

\* A run speaks when it has executed, so the promise is not its own again later.
ToldIsExecuted ==
    \A r \in Runs : ByRun(r) =>
        r <= run.id /\ (run.id = r => run.pc \in {"gated", "recorded", "idle"})

\* What a sentinel reads as the result of a run that spoke, it already had: its
\* first reading came after the run.
ReadAfter ==
    \A r \in Runs : ByRun(r) /\ r \notin unread =>
        /\ status.by = r /\ sen.base # None => sen.base.by = r
        /\ sen.pc = "decide" =>
              /\ status.by = r => sen.seen.by = r
              /\ sen.base # None /\ sen.seen.by = r => sen.base.by = r

EchoInv == Awake /\ RunsRestore /\ ToldIsExecuted /\ ReadAfter

\* A run that speaks finds no sentinel that has read the promise, but for the
\* one that has not published its reading.
LEMMA DispatchEcho ==
    ASSUME HolderKnown, EchoInv, NEW delivered \in BOOLEAN, Dispatch(delivered)
    PROVE  EchoInv'
<1>1. /\ run.pc = "beaten" /\ ~SentinelIsRunning /\ UNCHANGED <<status, sen>>
      /\ run' = [run EXCEPT !.pc = "gated"]
      /\ \A r \in Runs : ByRun(r)' => ByRun(r) \/ r = run.id
      /\ unread' = IF ReadButUnpublished THEN unread \cup {run.id} ELSE unread
  <2>1. /\ run.pc = "beaten" /\ ~SentinelIsRunning /\ UNCHANGED <<status, sen>>
        /\ run' = [run EXCEPT !.pc = "gated"]
        /\ unread' = IF ReadButUnpublished THEN unread \cup {run.id} ELSE unread
        /\ told' \subseteq told \cup {[run |-> run.id, by |-> "run"]}
    BY DEF Dispatch
  <2>2. \A r \in Runs : ByRun(r)' => ByRun(r) \/ r = run.id
    BY <2>1 DEF ByRun
  <2> QED
    BY <2>1, <2>2
<1>2. run.id \in Nat /\ run'.id = run.id /\ run'.pc = "gated"
  BY <1>1 DEF HolderKnown, RunTyped, RunRecord
<1>3. ToldIsExecuted'
  BY <1>1, <1>2 DEF EchoInv, ToldIsExecuted, Runs
<1>4. Awake' /\ RunsRestore'
  BY <1>1 DEF EchoInv, Awake, RunsRestore
<1>5. run.id \in unread' \/ (sen.base = None /\ sen.pc # "decide")
  <2>1. CASE sen.pc = "down"
    BY <2>1 DEF EchoInv, Awake
  <2>2. CASE sen.pc # "down"
    <3>1. file # sen.life
      BY <1>1, <2>2, NoneAssumption DEF SentinelIsRunning, SentinelAlive, HolderKnown, SentinelTyped,
         SentinelRecord
    <3>2. ReadButUnpublished \/ (sen.seen = None /\ sen.base = None)
      BY <2>2, <3>1 DEF ReadButUnpublished
    <3> QED
      BY <1>1, <3>2, NoneAssumption DEF EchoInv, Awake, AnyStatus, Promises
  <2> QED
    BY <2>1, <2>2
<1>6. ReadAfter'
  BY <1>1, <1>5 DEF EchoInv, ReadAfter
<1> QED
  BY <1>3, <1>4, <1>6 DEF EchoInv

\* The other steps of a run: only its execution changes the promise, before it
\* speaks.
LEMMA BackupEcho ==
    ASSUME HolderKnown, EchoInv, Backup
    PROVE  EchoInv'
<1>1. run \in RunRecord /\ status \in AnyStatus
  BY DEF HolderKnown, RunTyped, FilesTyped
<1>2. ASSUME UNCHANGED <<status, sen, told, unread>>, run'.id = run.id \/ run'.id = run.id + 1,
             run'.id = run.id => run'.pc \in {"gated", "recorded", "idle"}
                                 \/ run.pc \notin {"gated", "recorded", "idle"}
      PROVE  EchoInv'
  <2>1. ToldIsExecuted'
    <3>1. run.id \in Nat
      BY <1>1 DEF RunRecord
    <3>2. \A r \in Runs : r \in Nat
      BY DEF Runs
    <3> QED
      BY <1>2, <3>1, <3>2 DEF EchoInv, ToldIsExecuted, ByRun
  <2> QED
    BY <1>2, <2>1 DEF EchoInv, Awake, RunsRestore, ReadAfter, ByRun
<1>3. CASE RunLocks
  BY <1>1, <1>2, <1>3 DEF RunLocks, Idle, log, RunRecord
<1>4. CASE EmptyPlan \/ AssessBefore \/ AssessAfter
  BY <1>1, <1>2, <1>4 DEF EmptyPlan, AssessBefore, AssessAfter, log, RunRecord
<1>5. CASE WriteHeartbeat \/ HeartbeatFails \/ DeferToSentinel \/ RecordRun \/ RunEnds
  BY <1>1, <1>2, <1>5 DEF WriteHeartbeat, HeartbeatFails, DeferToSentinel, RecordRun, RunEnds, Idle,
                          log, RunRecord
<1>6. ASSUME NEW restores \in BOOLEAN, NEW fails \in BOOLEAN, Execute(restores, fails)
      PROVE  EchoInv'
  <2>1. /\ run.pc = "executing" /\ run'.id = run.id /\ UNCHANGED <<sen, told, unread>>
        /\ run'.pc = "executed"
        /\ status' = status \/ status' = [is |-> "protected", by |-> run.id]
    BY <1>1, <1>6 DEF Execute, RunRecord
  <2>2. CASE status' = status
    BY <1>2, <2>1, <2>2
  <2>3. CASE status' = [is |-> "protected", by |-> run.id]
    <3>1. \A r \in Runs : ByRun(r) => r # run.id
      BY <2>1 DEF EchoInv, ToldIsExecuted
    <3>2. status'.is = "protected" /\ status'.by = run.id
      BY <2>3
    <3>3. RunsRestore' /\ Awake'
      BY <2>1, <3>2 DEF EchoInv, RunsRestore, Awake
    <3>4. ToldIsExecuted'
      BY <2>1, <3>1 DEF EchoInv, ToldIsExecuted, ByRun
    <3>5. ReadAfter'
      BY <2>1, <3>1, <3>2 DEF EchoInv, ReadAfter, ByRun
    <3> QED
      BY <3>3, <3>4, <3>5 DEF EchoInv
  <2> QED
    BY <2>1, <2>2, <2>3
<1> QED
  BY <1>3, <1>4, <1>5, <1>6, DispatchEcho DEF Backup

\* The sentinel reads, and takes its reading for its own.
LEMMA SentinelEcho ==
    ASSUME HolderKnown, EchoInv, Sentinel
    PROVE  EchoInv'
<1>1. sen \in SentinelRecord /\ status \in AnyStatus
  BY DEF HolderKnown, SentinelTyped, FilesTyped
<1>2. UNCHANGED <<status, run, unread>>
  BY DEF Sentinel, StartSentinel, Poll, ReadPromise, Decide, Publish, Eject, ExitSentinel, KillSentinel,
         log
<1>3. \A r \in Runs : ByRun(r)' <=> ByRun(r)
  <2>1. told' = told \/ told' = told \cup Announced
    BY DEF Sentinel, StartSentinel, Poll, ReadPromise, Decide, Publish, Eject, ExitSentinel,
           KillSentinel, log
  <2>2. \A x \in Announced : x.by = "sentinel"
    BY DEF Announced
  <2> QED
    BY <2>1, <2>2 DEF ByRun
<1>4. ToldIsExecuted'
  BY <1>2, <1>3 DEF EchoInv, ToldIsExecuted
<1>5. ASSUME sen'.base = None \/ sen'.base = sen.base, sen'.pc # "decide",
             sen'.pc = "down" => sen'.base = None /\ sen'.seen = None
      PROVE  EchoInv'
  BY <1>2, <1>3, <1>4, <1>5 DEF EchoInv, Awake, RunsRestore, ReadAfter
<1>6. CASE \/ \E mounted \in BOOLEAN : StartSentinel(mounted)
           \/ ExitSentinel \/ KillSentinel
  <2>1. CASE ExitSentinel \/ KillSentinel
    <3>1. sen'.base = None /\ sen'.seen = None /\ sen'.pc = "down"
      BY <2>1 DEF ExitSentinel, KillSentinel, Asleep
    <3> QED
      BY <1>5, <3>1
  <2>2. ASSUME NEW mounted \in BOOLEAN, StartSentinel(mounted) PROVE EchoInv'
    <3>1. sen'.base = None /\ sen'.pc = IF mounted THEN "assess" ELSE "ready"
      BY <2>2 DEF StartSentinel, Asleep
    <3> QED
      BY <1>5, <3>1
  <2> QED
    BY <1>6, <2>1, <2>2
<1>7. CASE \/ \E detected \in SUBSET Detectable : Poll(detected)
           \/ \E written \in BOOLEAN : Publish(written)
  BY <1>1, <1>5, <1>7 DEF Poll, Publish, SentinelRecord
<1>8. CASE Eject
  BY <1>5, <1>8 DEF Eject
<1>9. CASE ReadPromise
  <2>1. sen'.pc = "decide" /\ sen'.seen = status /\ sen'.base = sen.base
    BY <1>1, <1>9 DEF ReadPromise, SentinelRecord
  <2>2. Awake' /\ RunsRestore'
    BY <1>1, <1>2, <2>1 DEF EchoInv, Awake, RunsRestore
  <2>3. ReadAfter'
    BY <1>2, <1>3, <2>1 DEF EchoInv, ReadAfter
  <2> QED
    BY <1>4, <2>2, <2>3 DEF EchoInv
<1>10. CASE Decide
  <2>1. sen.pc = "decide" /\ sen'.pc = "publish" /\ sen'.base = sen.seen
    BY <1>1, <1>10 DEF Decide, SentinelRecord
  <2>2. Awake' /\ RunsRestore'
    BY <1>2, <2>1 DEF EchoInv, Awake, RunsRestore
  <2>3. ReadAfter'
    BY <1>2, <1>3, <2>1 DEF EchoInv, ReadAfter
  <2> QED
    BY <1>4, <2>2, <2>3 DEF EchoInv
<1> QED
  BY <1>6, <1>7, <1>8, <1>9, <1>10 DEF Sentinel

\* The first reading of a sentinel comes after every run that spoke.
LEMMA EchoInvariant == Spec => []EchoInv
<1>1. Init => EchoInv
  <2> SUFFICES ASSUME Init PROVE EchoInv
    OBVIOUS
  <2>1. status.by = 0 /\ sen.pc = "down" /\ sen.base = None /\ sen.seen = None
    BY DEF Init, Asleep
  <2>2. \A r \in Runs : ~ByRun(r)
    BY DEF Init, ByRun
  <2> QED
    BY <2>1, <2>2 DEF EchoInv, Awake, RunsRestore, ToldIsExecuted, ReadAfter
<1>2. HolderKnown /\ EchoInv /\ [Next]_vars => EchoInv'
  <2> SUFFICES ASSUME HolderKnown, EchoInv, [Next]_vars PROVE EchoInv'
    OBVIOUS
  <2>1. CASE PromiseAges
    <3>1. UNCHANGED <<run, sen, told, unread>> /\ status'.by = 0
      BY <2>1 DEF PromiseAges, log
    <3>2. \A r \in Runs : r # 0
      BY DEF Runs
    <3> QED
      BY <3>1, <3>2 DEF EchoInv, Awake, RunsRestore, ToldIsExecuted, ReadAfter, ByRun
  <2>2. CASE UNCHANGED vars
    BY <2>2 DEF vars, EchoInv, Awake, RunsRestore, ToldIsExecuted, ReadAfter, ByRun
  <2> QED
    BY <2>1, <2>2, BackupEcho, SentinelEcho DEF Next
<1> QED
  BY <1>1, <1>2, HolderAlwaysKnown, PTL DEF Spec

\* What a run has announced no sentinel announces after it, whoever restarts and
\* however often the promise is broken and restored, unless the sentinel had an
\* unpublished reading when run_tail.rs asked for it.
THEOREM RunsAreNotEchoed == Spec => SentinelDoesNotEcho
<1> DEFINE NoEcho == \A r \in Runs :
                       (/\ [run |-> r, by |-> "run"] \in told
                        /\ [run |-> r, by |-> "sentinel"] \in told' \ told)
                       => r \in unread
<1>1. HolderKnown /\ EchoInv /\ [Next]_vars => [NoEcho]_vars
  <2> SUFFICES ASSUME HolderKnown, EchoInv, Next, NEW r \in Runs, ByRun(r),
                      [run |-> r, by |-> "sentinel"] \in told' \ told
               PROVE  r \in unread
    BY DEF ByRun
  <2>1. Decide /\ [run |-> r, by |-> "sentinel"] \in Announced
    <3>1. CASE Backup
      <4>1. told' \subseteq told \cup {[run |-> run.id, by |-> "run"]}
        BY <3>1 DEF Backup, RunLocks, EmptyPlan, AssessBefore, Execute, AssessAfter, WriteHeartbeat,
           HeartbeatFails, DeferToSentinel, Dispatch, RecordRun, RunEnds, log
      <4> QED
        BY <4>1
    <3>2. CASE Sentinel /\ ~Decide
      BY <3>2 DEF Sentinel, StartSentinel, Poll, ReadPromise, Publish, Eject, ExitSentinel,
         KillSentinel, log
    <3>3. CASE Decide
      BY <3>3 DEF Decide
    <3>4. CASE PromiseAges
      BY <3>4 DEF PromiseAges, log
    <3> QED
      BY <3>1, <3>2, <3>3, <3>4 DEF Next, Sentinel
  <2>2. sen.pc = "decide" /\ sen.seen.by = r /\ r > 0
        /\ sen.base # None /\ sen.base.is # sen.seen.is
    BY <2>1 DEF Decide, Announced, SeesChange, Runs
  <2>3. r \notin unread => sen.base.by = r
    BY <2>2 DEF EchoInv, ReadAfter
  <2> QED
    BY <2>2, <2>3 DEF EchoInv, RunsRestore
<1> QED
  BY <1>1, HolderAlwaysKnown, EchoInvariant, PTL DEF Spec, SentinelDoesNotEcho
(****************************** deferred changes ***************************)

BySentinel(r) == [run |-> r, by |-> "sentinel"] \in told

\* A promise is of a run only when the run has executed.
Executed(b) == b <= run.id /\ (b = run.id => run.pc \notin {"locked", "executing"})

ReadingsExecuted ==
    /\ Executed(status.by)
    /\ sen.base # None => Executed(sen.base.by)
    /\ sen.pc = "decide" => Executed(sen.seen.by)

\* A reading is held from the assessment until the state file is written.
ReadingHeld ==
    /\ sen.pc \notin {"decide", "publish"} => sen.seen = None
    /\ sen.pc = "publish" => sen.base = sen.seen

\* Runs and lives are numbered from one, and a run knows no later life.
Numbered ==
    /\ run.pc # "idle" => run.id \in Runs
    /\ \A d \in deferrals : d.run \in Runs
    /\ sen.pc # "down" => sen.life > 0
    /\ knew \in [Runs -> Nat]
    /\ \A r \in Runs : knew[r] <= sen.life

\* The sentinel that had read the promise before run r restored it meets the
\* result of r with a reading at risk, or it has told of it.
KnewIsTold ==
    \A r \in Runs : sen.pc # "down" /\ knew[r] = sen.life =>
        /\ sen.base # None /\ sen.base.by = r => BySentinel(r)
        /\ status.by = r => LastRead # None /\ (LastRead.is = "at_risk" \/ LastRead.by = r)
        /\ sen.pc = "decide" /\ sen.seen.by = r =>
              sen.base # None /\ (sen.base.is = "at_risk" \/ sen.base.by = r)

DeferInv == ReadingsExecuted /\ ReadingHeld /\ Numbered /\ KnewIsTold

\* A step of a run: its execution makes the result, for a sentinel that is known
\* to have read the promise at risk.
LEMMA BackupDefers ==
    ASSUME HolderKnown, EchoInv, DeferInv, Backup
    PROVE  DeferInv'
<1>1. /\ run \in RunRecord /\ status \in AnyStatus /\ sen \in SentinelRecord /\ run.id \in Nat
      /\ run.pc # "idle" => run.id > 0
  BY DEF HolderKnown, RunTyped, FilesTyped, SentinelTyped, RunRecord
<1>2. /\ UNCHANGED sen
      /\ \A r \in Runs : BySentinel(r) => BySentinel(r)'
  <2>1. UNCHANGED sen /\ told \subseteq told'
    BY DEF Backup, RunLocks, EmptyPlan, AssessBefore, Execute, AssessAfter, WriteHeartbeat,
           HeartbeatFails, DeferToSentinel, Dispatch, RecordRun, RunEnds, log
  <2> QED
    BY <2>1 DEF BySentinel
<1>3. ReadingHeld'
  BY <1>2 DEF DeferInv, ReadingHeld
<1>4. ASSUME UNCHANGED <<status, knew>> PROVE KnewIsTold'
  BY <1>2, <1>4 DEF DeferInv, KnewIsTold, LastRead
<1>5. ASSUME UNCHANGED status, run'.id = run.id \/ run'.id = run.id + 1,
             run'.id = run.id =>
               run'.pc \notin {"locked", "executing"} \/ run.pc \in {"locked", "executing"}
      PROVE  ReadingsExecuted'
  <2>1. /\ status.by \in Nat
        /\ sen.base # None => sen.base.by \in Nat
    BY <1>1 DEF AnyStatus, SentinelRecord
  <2>2. sen.pc = "decide" => sen.seen.by \in Nat
    BY <1>1, NoneAssumption DEF EchoInv, Awake, AnyStatus, SentinelRecord, Promises
  <2>3. ASSUME NEW b \in Nat, Executed(b) PROVE Executed(b)'
    <3>1. CASE run'.id = run.id
      BY <1>5, <2>3, <3>1 DEF Executed
    <3>2. CASE run'.id = run.id + 1
      BY <1>1, <2>3, <3>2 DEF Executed
    <3> QED
      BY <1>5, <3>1, <3>2
  <2> QED
    <3>1. /\ Executed(status.by)
          /\ sen.base # None => Executed(sen.base.by)
          /\ sen.pc = "decide" => Executed(sen.seen.by)
      BY DEF DeferInv, ReadingsExecuted
    <3>2. status' = status /\ sen' = sen
      BY <1>2, <1>5
    <3> QED
      BY <2>1, <2>2, <2>3, <3>1, <3>2 DEF ReadingsExecuted, Executed
<1>6. ASSUME UNCHANGED knew, run'.pc # "idle" => run'.id \in Runs,
             \A d \in deferrals' : d \in deferrals \/ d.run \in Runs
      PROVE  Numbered'
  BY <1>2, <1>6 DEF DeferInv, Numbered
<1>7. CASE RunLocks
  <2>1. /\ UNCHANGED <<status, knew, deferrals>> /\ run'.id = run.id + 1 /\ run.id < MaxRuns
    BY <1>7 DEF RunLocks, Idle, log
  <2>2. run'.id \in Runs
    BY <1>1, <2>1, BoundAssumption DEF Runs
  <2>3. run'.id # run.id
    BY <1>1, <2>1
  <2> QED
    BY <1>3, <1>4, <1>5, <1>6, <2>1, <2>2, <2>3 DEF DeferInv
<1>8. CASE EmptyPlan \/ AssessBefore \/ AssessAfter \/ WriteHeartbeat \/ HeartbeatFails \/ RecordRun
           \/ \E delivered \in BOOLEAN : Dispatch(delivered)
  <2>1. /\ UNCHANGED <<status, knew, deferrals>> /\ run'.id = run.id /\ run.pc # "idle"
        /\ run'.pc \notin {"locked", "executing"} \/ run.pc \in {"locked", "executing"}
    BY <1>1, <1>8 DEF EmptyPlan, AssessBefore, AssessAfter, WriteHeartbeat, HeartbeatFails, RecordRun,
                      Dispatch, log, RunRecord
  <2> QED
    BY <1>3, <1>4, <1>5, <1>6, <2>1 DEF DeferInv, Numbered
<1>9. CASE RunEnds
  <2>1. /\ UNCHANGED <<status, knew, deferrals>> /\ run'.id = run.id /\ run'.pc = "idle"
    BY <1>9 DEF RunEnds, Idle, log
  <2> QED
    BY <1>3, <1>4, <1>5, <1>6, <2>1 DEF DeferInv
<1>10. CASE DeferToSentinel
  <2>1. /\ UNCHANGED <<status, knew>> /\ run'.id = run.id /\ run.pc = "beaten" /\ run'.pc = "gated"
        /\ \A d \in deferrals' : d \in deferrals \/ d.run = run.id
    BY <1>1, <1>10 DEF DeferToSentinel, RunRecord
  <2> QED
    BY <1>3, <1>4, <1>5, <1>6, <2>1 DEF DeferInv, Numbered
<1>11. ASSUME NEW restores \in BOOLEAN, NEW fails \in BOOLEAN, Execute(restores, fails)
       PROVE  DeferInv'
  <2>1. /\ run.pc = "executing" /\ run'.id = run.id /\ run'.pc = "executed" /\ UNCHANGED deferrals
    BY <1>1, <1>11 DEF Execute, RunRecord
  <2>2. CASE UNCHANGED <<status, knew>>
    BY <1>3, <1>4, <1>5, <1>6, <2>1, <2>2 DEF DeferInv, Numbered
  <2>3. CASE /\ status' = [is |-> "protected", by |-> run.id]
             /\ knew' = [knew EXCEPT ![run.id] =
                           IF LastRead # None /\ LastRead.is = "at_risk" THEN sen.life ELSE 0]
    <3>1. run.id \in Runs /\ sen.life \in Nat /\ knew \in [Runs -> Nat]
      BY <1>1, <2>1 DEF DeferInv, Numbered, SentinelRecord
    <3>2. /\ knew'[run.id] = IF LastRead # None /\ LastRead.is = "at_risk" THEN sen.life ELSE 0
          /\ \A r \in Runs : r # run.id => knew'[r] = knew[r]
          /\ knew' \in [Runs -> Nat]
      BY <2>3, <3>1
    <3>3. status'.by = run.id
      BY <2>3
    <3>4. Numbered'
      BY <1>2, <2>1, <3>1, <3>2 DEF DeferInv, Numbered
    <3>5. /\ sen.base # None => sen.base.by # run.id
          /\ sen.pc = "decide" => sen.seen.by # run.id
      BY <2>1 DEF DeferInv, ReadingsExecuted, Executed
    <3>6. ReadingsExecuted'
      BY <1>1, <1>2, <2>1, <3>3 DEF DeferInv, ReadingsExecuted, Executed
    <3>7. ASSUME NEW r \in Runs, sen.pc # "down", knew'[r] = sen.life
          PROVE  /\ sen.base # None /\ sen.base.by = r => BySentinel(r)
                 /\ status'.by = r => LastRead # None /\ (LastRead.is = "at_risk" \/ LastRead.by = r)
                 /\ sen.pc = "decide" /\ sen.seen.by = r =>
                      sen.base # None /\ (sen.base.is = "at_risk" \/ sen.base.by = r)
      <4>1. CASE r = run.id
        <5>1. sen.life # 0
          BY <3>1, <3>7 DEF DeferInv, Numbered
        <5> QED
          BY <3>2, <3>5, <3>7, <4>1, <5>1
      <4>2. CASE r # run.id
        BY <3>2, <3>3, <3>7, <4>2 DEF DeferInv, KnewIsTold
      <4> QED
        BY <4>1, <4>2
    <3>8. LastRead' = LastRead
      BY <1>2 DEF LastRead
    <3>9. KnewIsTold'
      BY <1>2, <3>7, <3>8 DEF KnewIsTold
    <3> QED
      BY <1>3, <3>4, <3>6, <3>9 DEF DeferInv
  <2>4. \/ UNCHANGED <<status, knew>>
        \/ /\ status' = [is |-> "protected", by |-> run.id]
           /\ knew' = [knew EXCEPT ![run.id] =
                         IF LastRead # None /\ LastRead.is = "at_risk" THEN sen.life ELSE 0]
    BY <1>11 DEF Execute
  <2> QED
    BY <2>2, <2>3, <2>4
<1> QED
  BY <1>7, <1>8, <1>9, <1>10, <1>11 DEF Backup

\* A step of the sentinel: what it takes for its own and is of run r it tells,
\* for it had read the promise at risk, or had told before.
LEMMA SentinelDefers ==
    ASSUME HolderKnown, EchoInv, DeferInv, Sentinel
    PROVE  DeferInv'
<1>1. sen \in SentinelRecord /\ status \in AnyStatus /\ sen.life \in Nat
  BY DEF HolderKnown, SentinelTyped, FilesTyped, SentinelRecord
<1>2. UNCHANGED <<status, run, deferrals, knew>> /\ told \subseteq told'
  BY DEF Sentinel, StartSentinel, Poll, ReadPromise, Decide, Publish, Eject, ExitSentinel, KillSentinel,
         log
<1>3. \A r \in Runs : BySentinel(r) => BySentinel(r)'
  BY <1>2 DEF BySentinel
<1>4. None # status
  BY <1>1, NoneAssumption DEF AnyStatus, Promises
<1>5. ASSUME sen'.life = sen.life, sen'.pc # "down" => sen.pc # "down" PROVE Numbered'
  BY <1>2, <1>5 DEF DeferInv, Numbered
<1>6. CASE \E mounted \in BOOLEAN : StartSentinel(mounted)
  <2>1. PICK mounted \in BOOLEAN : StartSentinel(mounted)
    BY <1>6
  <2>2. /\ sen'.base = None /\ sen'.seen = None /\ sen'.life = sen.life + 1
        /\ sen'.pc = IF mounted THEN "assess" ELSE "ready"
    BY <2>1 DEF StartSentinel, Asleep
  <2>3. \A r \in Runs : knew'[r] # sen'.life
    BY <1>1, <1>2, <2>2 DEF DeferInv, Numbered
  <2>4. Numbered'
    BY <1>1, <1>2, <2>2 DEF DeferInv, Numbered
  <2>5. ReadingsExecuted' /\ ReadingHeld' /\ KnewIsTold'
    BY <1>2, <2>2, <2>3 DEF DeferInv, ReadingsExecuted, ReadingHeld, KnewIsTold, Executed
  <2> QED
    BY <2>4, <2>5 DEF DeferInv
<1>7. CASE ExitSentinel \/ KillSentinel
  <2>1. sen'.base = None /\ sen'.seen = None /\ sen'.life = sen.life /\ sen'.pc = "down"
    BY <1>7 DEF ExitSentinel, KillSentinel, Asleep
  <2>2. ReadingsExecuted' /\ ReadingHeld' /\ KnewIsTold'
    BY <1>2, <2>1 DEF DeferInv, ReadingsExecuted, ReadingHeld, KnewIsTold, Executed
  <2> QED
    BY <1>5, <2>1, <2>2 DEF DeferInv
<1>8. CASE Eject
  <2>1. UNCHANGED sen
    BY <1>8 DEF Eject
  <2> QED
    BY <1>2, <1>3, <2>1 DEF DeferInv, ReadingsExecuted, ReadingHeld, Numbered, KnewIsTold, Executed,
                            LastRead
<1>9. CASE \E detected \in SUBSET Detectable : Poll(detected)
  <2>1. /\ sen'.base = sen.base /\ sen'.seen = sen.seen /\ sen'.life = sen.life
        /\ sen.pc = "ready" /\ sen'.pc \in {"ready", "assess"}
    BY <1>1, <1>9 DEF Poll, SentinelRecord
  <2>2. ReadingsExecuted' /\ ReadingHeld' /\ KnewIsTold'
    BY <1>2, <1>3, <2>1 DEF DeferInv, ReadingsExecuted, ReadingHeld, KnewIsTold, Executed, LastRead
  <2> QED
    BY <1>5, <2>1, <2>2 DEF DeferInv
<1>10. CASE ReadPromise
  <2>1. /\ sen.pc = "assess" /\ sen'.pc = "decide" /\ sen'.seen = status /\ sen'.base = sen.base
        /\ sen'.life = sen.life
    BY <1>1, <1>10 DEF ReadPromise, SentinelRecord
  <2>2. LastRead = sen.base /\ LastRead' = status
    BY <1>4, <2>1 DEF LastRead, DeferInv, ReadingHeld
  <2>3. ReadingsExecuted' /\ ReadingHeld'
    BY <1>2, <2>1 DEF DeferInv, ReadingsExecuted, ReadingHeld, Executed
  <2>4. KnewIsTold'
    BY <1>2, <1>3, <1>4, <2>1, <2>2 DEF DeferInv, KnewIsTold
  <2> QED
    BY <1>5, <2>1, <2>3, <2>4 DEF DeferInv
<1>11. CASE Decide
  <2>1. /\ sen.pc = "decide" /\ sen'.pc = "publish" /\ sen'.base = sen.seen /\ sen'.seen = sen.seen
        /\ sen'.life = sen.life /\ told' = told \cup Announced
    BY <1>1, <1>11 DEF Decide, SentinelRecord
  <2>2. sen.seen \in AnyStatus /\ sen.seen # None
    BY <2>1, NoneAssumption DEF EchoInv, Awake, AnyStatus, Promises
  <2>3. LastRead = sen.seen /\ LastRead' = sen.seen
    BY <2>1, <2>2 DEF LastRead
  <2>4. ReadingsExecuted' /\ ReadingHeld'
    BY <1>2, <2>1, <2>2 DEF DeferInv, ReadingsExecuted, ReadingHeld, Executed
  <2>5. ASSUME NEW r \in Runs, knew[r] = sen.life, sen.seen.by = r PROVE BySentinel(r)'
    <3>1. sen.base # None /\ (sen.base.is = "at_risk" \/ sen.base.by = r)
      BY <2>1, <2>5 DEF DeferInv, KnewIsTold
    <3>2. CASE sen.base.by = r
      BY <1>3, <2>1, <2>5, <3>1, <3>2 DEF DeferInv, KnewIsTold
    <3>3. CASE sen.base.is = "at_risk"
      <4>1. r > 0 /\ sen.seen.is = "protected"
        BY <2>1, <2>5 DEF EchoInv, RunsRestore, Runs
      <4>2. [run |-> r, by |-> "sentinel"] \in Announced
        BY <2>5, <3>1, <3>3, <4>1 DEF Announced, SeesChange
      <4> QED
        BY <2>1, <4>2 DEF BySentinel
    <3> QED
      BY <3>1, <3>2, <3>3
  <2>6. KnewIsTold'
    BY <1>2, <1>3, <2>1, <2>3, <2>5 DEF DeferInv, KnewIsTold
  <2> QED
    BY <1>5, <2>1, <2>4, <2>6 DEF DeferInv
<1>12. CASE \E written \in BOOLEAN : Publish(written)
  <2>1. /\ sen.pc = "publish" /\ sen'.pc = "ready" /\ sen'.base = sen.base /\ sen'.seen = None
        /\ sen'.life = sen.life
    BY <1>1, <1>12 DEF Publish, SentinelRecord
  <2>2. LastRead' = LastRead
    BY <2>1 DEF LastRead, DeferInv, ReadingHeld
  <2>3. ReadingsExecuted' /\ ReadingHeld'
    BY <1>2, <2>1 DEF DeferInv, ReadingsExecuted, ReadingHeld, Executed
  <2>4. KnewIsTold'
    BY <1>2, <1>3, <2>1, <2>2 DEF DeferInv, KnewIsTold
  <2> QED
    BY <1>5, <2>1, <2>3, <2>4 DEF DeferInv
<1> QED
  BY <1>6, <1>7, <1>8, <1>9, <1>10, <1>11, <1>12 DEF Sentinel

LEMMA DeferInvariant == Spec => []DeferInv
<1>1. Init => DeferInv
  <2> SUFFICES ASSUME Init PROVE DeferInv
    OBVIOUS
  <2>1. /\ status.by = 0 /\ sen.pc = "down" /\ sen.base = None /\ sen.seen = None /\ sen.life = 0
        /\ run.pc = "idle" /\ run.id = 0
    BY DEF Init, Asleep, Idle
  <2>2. knew = [r \in Runs |-> 0] /\ deferrals = {}
    BY DEF Init
  <2> QED
    BY <2>1, <2>2 DEF DeferInv, ReadingsExecuted, ReadingHeld, Numbered, KnewIsTold, Executed
<1>2. HolderKnown /\ EchoInv /\ DeferInv /\ [Next]_vars => DeferInv'
  <2> SUFFICES ASSUME HolderKnown, EchoInv, DeferInv, [Next]_vars PROVE DeferInv'
    OBVIOUS
  <2> USE DEF DeferInv, ReadingsExecuted, ReadingHeld, Numbered, KnewIsTold, Executed, LastRead,
              BySentinel
  <2>1. CASE PromiseAges
    <3>1. /\ UNCHANGED <<run, sen, told, knew, deferrals>> /\ status'.by = 0
      BY <2>1 DEF PromiseAges, log
    <3>2. run.id \in Nat /\ (run.pc # "idle" => run.id > 0)
      BY DEF HolderKnown, RunTyped, RunRecord
    <3>3. \A r \in Runs : r # 0
      BY DEF Runs
    <3> QED
      BY <3>1, <3>2, <3>3
  <2>2. CASE UNCHANGED vars
    BY <2>2 DEF vars
  <2> QED
    BY <2>1, <2>2, BackupDefers, SentinelDefers DEF Next
<1> QED
  BY <1>1, <1>2, HolderAlwaysKnown, EchoInvariant, PTL DEF Spec

\* A promise change gate_dispatch leaves to a sentinel that had read the promise
\* before the run is announced when that sentinel takes the run's result for its
\* own, whatever it was doing meanwhile and however many runs there are.
THEOREM DeferredChangesAreTold == Spec => []DeferredChangeIsTold
<1>1. DeferInv => DeferredChangeIsTold
  BY DEF DeferInv, Numbered, KnewIsTold, DeferredChangeIsTold, SentinelAlive, BySentinel
<1> QED
  BY <1>1, DeferInvariant, PTL

(****************************** type correctness ***************************)

\* Everything that is numbered stays within the bounds.
Bounded ==
    /\ status.by <= MaxRuns /\ run.id <= MaxRuns
    /\ heartbeat # None => heartbeat.run <= MaxRuns
    /\ file \in {None} \cup 0..MaxLives
    /\ sen.life <= MaxLives /\ sen.lastBeat <= beats
    /\ sen.firstBeat <= MaxRuns /\ sen.ended <= MaxRuns
    /\ sen.base # None => sen.base.by <= MaxRuns
    /\ sen.seen # None => sen.seen.by <= MaxRuns
    /\ knew \in [Runs -> 0..MaxLives]

\* The log holds runs, lives and triggers.
Logged ==
    /\ told \subseteq [run : Runs, by : {"run", "sentinel"}]
    /\ failTold \subseteq Runs /\ beatless \subseteq Runs /\ unread \subseteq Runs
    /\ deferrals \subseteq [run : Runs, life : Lives, change : BOOLEAN, failed : BOOLEAN]
    /\ recorded \subseteq Trace

\* A run writes the heartbeat at most twice, and it is missing just when nobody did.
Written ==
    IF run.pc = "beaten" THEN 1
    ELSE IF run.pc \in {"gated", "recorded", "idle"} THEN 2 ELSE 0

BeatsCounted ==
    /\ beats + 1 <= 2 * run.id + Written
    /\ (heartbeat = None) <=> (beats = 0)

\* A reading is kept until it is published.
HoldsReading == sen.pc = "publish" => sen.seen # None

TypeInv == Bounded /\ Logged /\ BeatsCounted /\ HoldsReading

\* The bounds, the counts and the reading are all there is to the types beyond
\* the shape of the records.
LEMMA TypesFollow ==
    ASSUME HolderKnown, TypeInv
    PROVE  TypeOK
<1> USE BoundAssumption DEF HolderKnown, TypeInv, Bounded, Logged, BeatsCounted
<1>1. status \in Status
  BY DEF FilesTyped, AnyStatus, Status
<1>2. heartbeat \in {None} \cup [is : Promises, run : 0..MaxRuns, dispatched : BOOLEAN]
  BY DEF FilesTyped, Heartbeat
<1>3. run \in [pc : RunPoints, id : 0..MaxRuns, pre : Promises \cup {None},
               prev : Promises \cup {None}, post : Promises \cup {None}, failed : BOOLEAN]
  BY DEF RunTyped, RunRecord
<1>4. beats \in 0..(2 * MaxRuns + 1)
  BY <1>3 DEF FilesTyped, Written
<1>5. meta \in {None} \cup [who : {"run", "sentinel"}, id : Nat]
  BY DEF FilesTyped, Holder
<1>6. sen.base \in Status \cup {None} /\ sen.seen \in Status \cup {None}
  BY DEF SentinelTyped, SentinelRecord, AnyStatus, Status
<1>7. sen \in [pc : SentinelPoints, life : 0..MaxLives,
               base : Status \cup {None}, seen : Status \cup {None},
               assessed : BOOLEAN, lastBeat : 0..beats, firstBeat : 0..MaxRuns,
               trigger : Triggers, emit : BOOLEAN, ended : 0..MaxRuns]
  BY <1>6 DEF SentinelTyped, SentinelRecord
<1> QED
  BY <1>1, <1>2, <1>3, <1>4, <1>5, <1>7 DEF TypeOK

\* mark_dispatched rewrites a heartbeat that is there.
LEMMA MarkKeeps ==
    ASSUME FilesTyped, MarkDispatched
    PROVE  /\ (heartbeat' = None) <=> (heartbeat = None)
           /\ heartbeat # None => heartbeat'.run = heartbeat.run
           /\ beats' = IF heartbeat = None THEN beats ELSE beats + 1
<1>1. CASE heartbeat = None
  BY <1>1 DEF MarkDispatched
<1>2. CASE heartbeat # None
  <2>1. heartbeat' = [heartbeat EXCEPT !.dispatched = TRUE] /\ heartbeat \in Heartbeat
    BY <1>2 DEF MarkDispatched, FilesTyped
  <2>2. heartbeat' \in Heartbeat /\ heartbeat'.run = heartbeat.run
    BY <2>1 DEF Heartbeat
  <2>3. heartbeat' # None
    BY <2>2, NoneAssumption DEF Heartbeat, Promises
  <2> QED
    BY <1>2, <2>2, <2>3 DEF MarkDispatched
<1> QED
  BY <1>1, <1>2

\* A step of a run.
LEMMA BackupTypes ==
    ASSUME HolderKnown, DeferInv, TypeInv, Backup
    PROVE  TypeInv'
<1>1. /\ run \in RunRecord /\ run.id \in Nat /\ sen \in SentinelRecord
      /\ FilesTyped /\ status \in AnyStatus /\ status.by \in Nat /\ beats \in Nat
      /\ MaxRuns \in Nat /\ MaxLives \in Nat
      /\ run.pc # "idle" => run.id \in Runs
      /\ sen.life \in Nat /\ sen.lastBeat \in Nat
      /\ sen.pc # "down" => sen.life > 0
  BY BoundAssumption DEF HolderKnown, RunTyped, FilesTyped, SentinelTyped, RunRecord, SentinelRecord,
                         AnyStatus, DeferInv, Numbered
<1>2. UNCHANGED <<sen, file>>
  BY DEF Backup, RunLocks, EmptyPlan, AssessBefore, Execute, AssessAfter, WriteHeartbeat,
         HeartbeatFails, DeferToSentinel, Dispatch, RecordRun, RunEnds
<1>3. HoldsReading'
  BY <1>2 DEF TypeInv, HoldsReading
<1>4. ASSUME UNCHANGED <<status, heartbeat, beats, knew>>, run'.id <= MaxRuns PROVE Bounded'
  BY <1>2, <1>4 DEF TypeInv, Bounded
<1>5. ASSUME UNCHANGED <<heartbeat, beats>>, run'.id = run.id,
             Written' = Written \/ (Written = 0 /\ Written' \in {0, 1, 2}) \/ Written' = 2
      PROVE  BeatsCounted'
  BY <1>1, <1>5 DEF TypeInv, BeatsCounted, Written
<1>6. ASSUME UNCHANGED log PROVE Logged'
  BY <1>6 DEF TypeInv, Logged, log
<1>7. CASE RunLocks
  <2>1. /\ UNCHANGED <<status, heartbeat, beats>> /\ UNCHANGED log
        /\ run'.id = run.id + 1 /\ run'.pc = "locked" /\ run.pc = "idle" /\ run.id < MaxRuns
    BY <1>7 DEF RunLocks, Idle
  <2>2. BeatsCounted'
    BY <1>1, <2>1 DEF TypeInv, BeatsCounted, Written
  <2>3. Bounded'
    BY <1>1, <1>4, <2>1 DEF log
  <2> QED
    BY <1>3, <1>6, <2>1, <2>2, <2>3 DEF TypeInv
<1>8. CASE EmptyPlan \/ AssessBefore \/ AssessAfter \/ RunEnds
  <2>1. UNCHANGED <<status, heartbeat, beats>> /\ UNCHANGED log
    BY <1>8 DEF EmptyPlan, AssessBefore, AssessAfter, RunEnds
  <2>2. /\ run'.id = run.id
        /\ \/ run.pc \in {"locked", "executed"} /\ run'.pc \in {"executed", "executing", "assessed"}
           \/ run'.pc = "idle"
    <3>1. CASE EmptyPlan
      BY <1>1, <3>1 DEF EmptyPlan, RunRecord
    <3>2. CASE AssessBefore
      BY <1>1, <3>2 DEF AssessBefore, RunRecord
    <3>3. CASE AssessAfter
      BY <1>1, <3>3 DEF AssessAfter, RunRecord
    <3>4. CASE RunEnds
      BY <1>1, <3>4, IdleTyped DEF RunEnds
    <3> QED
      BY <1>8, <3>1, <3>2, <3>3, <3>4
  <2>3. Written' = Written \/ Written' = 2
    BY <2>2 DEF Written
  <2> QED
    BY <1>3, <1>4, <1>5, <1>6, <2>1, <2>2, <2>3 DEF TypeInv, Bounded, log
<1>9. ASSUME NEW restores \in BOOLEAN, NEW fails \in BOOLEAN, Execute(restores, fails)
      PROVE  TypeInv'
  <2>1. /\ UNCHANGED <<heartbeat, beats, told, failTold, deferrals, beatless, unread, recorded>>
        /\ run'.id = run.id /\ run.pc = "executing" /\ run'.pc = "executed"
    BY <1>1, <1>9 DEF Execute, RunRecord
  <2>2. Logged' /\ BeatsCounted'
    BY <2>1 DEF TypeInv, Logged, BeatsCounted, Written
  <2>3. status'.by <= MaxRuns /\ knew' \in [Runs -> 0..MaxLives]
    <3>1. /\ run.id <= MaxRuns /\ status.by <= MaxRuns /\ knew \in [Runs -> 0..MaxLives]
          /\ sen.life \in 0..MaxLives
      BY <1>1 DEF TypeInv, Bounded
    <3>2. /\ status' = [is |-> "protected", by |-> run.id] \/ UNCHANGED status
          /\ \/ UNCHANGED knew
             \/ knew' = [knew EXCEPT ![run.id] =
                           IF LastRead # None /\ LastRead.is = "at_risk" THEN sen.life ELSE 0]
      BY <1>9 DEF Execute
    <3> QED
      BY <1>1, <3>1, <3>2
  <2>4. Bounded'
    BY <1>2, <2>1, <2>3 DEF TypeInv, Bounded
  <2> QED
    BY <1>3, <2>2, <2>4 DEF TypeInv
<1>10. CASE WriteHeartbeat
  <2>1. /\ UNCHANGED status /\ UNCHANGED log /\ run'.id = run.id /\ run.pc = "assessed" /\ run'.pc = "beaten"
        /\ heartbeat' = [is |-> run.post, run |-> run.id, dispatched |-> FALSE]
        /\ beats' = beats + 1
    BY <1>1, <1>10 DEF WriteHeartbeat, RunRecord
  <2>2. heartbeat' # None /\ heartbeat'.run = run.id
    <3>1. heartbeat' \in Heartbeat
      BY <1>1, <2>1 DEF HolderKnown, RunTyped, Heartbeat
    <3> QED
      BY <2>1, <3>1, NoneAssumption DEF Heartbeat, Promises
  <2>3. Bounded'
    BY <1>1, <1>2, <2>1, <2>2 DEF TypeInv, Bounded, log
  <2>4. BeatsCounted'
    BY <1>1, <2>1, <2>2 DEF TypeInv, BeatsCounted, Written
  <2> QED
    BY <1>3, <1>6, <2>1, <2>3, <2>4 DEF TypeInv
<1>11. CASE HeartbeatFails
  <2>1. /\ UNCHANGED <<status, heartbeat, beats, knew, told, failTold, deferrals, unread, recorded>>
        /\ run'.id = run.id /\ run.pc = "assessed" /\ run'.pc = "beaten"
        /\ beatless' = beatless \cup {run.id}
    BY <1>1, <1>11 DEF HeartbeatFails, RunRecord
  <2>2. Logged'
    BY <1>1, <2>1 DEF TypeInv, Logged
  <2>3. Bounded'
    BY <1>4, <2>1 DEF TypeInv, Bounded
  <2>4. BeatsCounted'
    BY <1>1, <2>1 DEF TypeInv, BeatsCounted, Written
  <2> QED
    BY <1>3, <2>2, <2>3, <2>4 DEF TypeInv
<1>12. ASSUME MarkDispatched \/ UNCHANGED <<heartbeat, beats>>, run.pc = "beaten", run'.pc = "gated",
              run'.id = run.id, UNCHANGED <<status, knew>>
       PROVE  Bounded' /\ BeatsCounted'
  <2>1. /\ (heartbeat' = None) <=> (heartbeat = None)
        /\ heartbeat # None => heartbeat'.run = heartbeat.run
        /\ beats' = beats \/ (heartbeat # None /\ beats' = beats + 1)
    BY <1>1, <1>12, MarkKeeps
  <2>2. Bounded'
    BY <1>1, <1>2, <1>12, <2>1 DEF TypeInv, Bounded
  <2>3. BeatsCounted'
    BY <1>1, <1>12, <2>1 DEF TypeInv, BeatsCounted, Written
  <2> QED
    BY <2>2, <2>3
<1>13. CASE DeferToSentinel
  <2>1. /\ MarkDispatched /\ run.pc = "beaten" /\ run'.pc = "gated" /\ run'.id = run.id
        /\ UNCHANGED <<status, knew, told, failTold, beatless, unread, recorded>>
        /\ SentinelIsRunning
        /\ deferrals' \subseteq deferrals \cup {[run |-> run.id, life |-> sen.life,
                                          change |-> PromiseChanged, failed |-> run.failed]}
    BY <1>1, <1>13 DEF DeferToSentinel, RunRecord
  <2>2. [run |-> run.id, life |-> sen.life, change |-> PromiseChanged, failed |-> run.failed]
          \in [run : Runs, life : Lives, change : BOOLEAN, failed : BOOLEAN]
    <3>1. sen.life \in Lives
      BY <1>1, <2>1 DEF TypeInv, Bounded, Lives, SentinelIsRunning, SentinelAlive
    <3>2. PromiseChanged \in BOOLEAN /\ run.failed \in BOOLEAN
      BY <1>1 DEF PromiseChanged, RunRecord
    <3> QED
      BY <1>1, <2>1, <3>1, <3>2
  <2>3. Logged'
    BY <2>1, <2>2 DEF TypeInv, Logged
  <2> QED
    BY <1>3, <1>12, <2>1, <2>3 DEF TypeInv
<1>14. ASSUME NEW delivered \in BOOLEAN, Dispatch(delivered) PROVE TypeInv'
  <2>1. /\ MarkDispatched \/ UNCHANGED <<heartbeat, beats>>
        /\ run.pc = "beaten" /\ run'.pc = "gated" /\ run'.id = run.id
        /\ UNCHANGED <<status, knew, deferrals, beatless, recorded>>
        /\ told' \subseteq told \cup {[run |-> run.id, by |-> "run"]}
        /\ failTold' \subseteq failTold \cup {run.id} /\ unread' \subseteq unread \cup {run.id}
    BY <1>1, <1>14 DEF Dispatch, RunRecord
  <2>2. Logged'
    BY <1>1, <2>1 DEF TypeInv, Logged
  <2> QED
    BY <1>3, <1>12, <2>1, <2>2 DEF TypeInv
<1>15. CASE RecordRun
  <2>1. /\ UNCHANGED <<status, heartbeat, beats, knew, told, failTold, deferrals, beatless, unread>>
        /\ run.pc = "gated" /\ run'.pc = "recorded" /\ run'.id = run.id
        /\ recorded' \subseteq recorded \cup {[run |-> run.id, by |-> "run", trigger |-> "run",
                                        during |-> TRUE, first |-> FALSE]}
    BY <1>1, <1>15 DEF RecordRun, RunRecord
  <2>2. [run |-> run.id, by |-> "run", trigger |-> "run", during |-> TRUE, first |-> FALSE] \in Trace
    BY <1>1, <2>1 DEF Trace
  <2>3. Logged'
    BY <2>1, <2>2 DEF TypeInv, Logged
  <2>4. BeatsCounted'
    BY <2>1 DEF TypeInv, BeatsCounted, Written
  <2> QED
    BY <1>3, <1>4, <2>1, <2>3, <2>4 DEF TypeInv, Bounded
<1> QED
  BY <1>7, <1>8, <1>9, <1>10, <1>11, <1>13, <1>14, <1>15 DEF Backup

\* A step of the sentinel.
LEMMA SentinelTypes ==
    ASSUME HolderKnown, EchoInv, DeferInv, TypeInv, Sentinel
    PROVE  TypeInv'
<1>1. /\ run \in RunRecord /\ run.id \in Nat /\ sen \in SentinelRecord
      /\ FilesTyped /\ status \in AnyStatus /\ status.by \in Nat /\ beats \in Nat
      /\ MaxRuns \in Nat /\ MaxLives \in Nat /\ sen.life \in Nat
      /\ EndedRuns <= MaxRuns /\ EndedRuns \in Nat
  BY BoundAssumption DEF HolderKnown, RunTyped, FilesTyped, SentinelTyped, RunRecord, SentinelRecord,
                         AnyStatus, EndedRuns, TypeInv, Bounded
<1>2. UNCHANGED <<status, heartbeat, beats, run, knew, failTold, deferrals, beatless, unread>>
  BY DEF Sentinel, StartSentinel, Poll, ReadPromise, Decide, Publish, Eject, ExitSentinel, KillSentinel,
         log
<1>3. BeatsCounted'
  BY <1>2 DEF TypeInv, BeatsCounted, Written
<1>4. ASSUME UNCHANGED <<told, recorded>> PROVE Logged'
  BY <1>2, <1>4 DEF TypeInv, Logged
<1>5. ASSUME NEW mounted \in BOOLEAN, StartSentinel(mounted) PROVE TypeInv'
  <2>1. /\ sen'.life = sen.life + 1 /\ sen.life < MaxLives /\ sen'.lastBeat = beats
        /\ sen'.firstBeat = 0 /\ sen'.ended = EndedRuns /\ sen'.base = None /\ sen'.seen = None
        /\ sen'.pc # "publish" /\ UNCHANGED <<file, told, recorded>>
    BY <1>5 DEF StartSentinel, Asleep, log
  <2> QED
    BY <1>1, <1>2, <1>3, <1>4, <2>1 DEF TypeInv, Bounded, HoldsReading
<1>6. ASSUME NEW detected \in SUBSET Detectable, Poll(detected) PROVE TypeInv'
  <2>1. /\ sen'.life = sen.life /\ sen'.lastBeat = beats /\ sen'.base = sen.base /\ sen'.seen = sen.seen
        /\ sen'.firstBeat = sen.firstBeat \/ (heartbeat # None /\ sen'.firstBeat = heartbeat.run)
        /\ sen'.ended \in {0, EndedRuns} /\ sen'.pc # "publish" /\ UNCHANGED <<file, told, recorded>>
    BY <1>1, <1>6 DEF Poll, SentinelRecord, log
  <2> QED
    BY <1>1, <1>2, <1>3, <1>4, <2>1 DEF TypeInv, Bounded, HoldsReading
<1>7. CASE ReadPromise
  <2>1. /\ sen'.pc = "decide" /\ sen'.seen = status /\ sen'.base = sen.base /\ sen'.life = sen.life
        /\ sen'.lastBeat = sen.lastBeat /\ sen'.firstBeat = sen.firstBeat /\ sen'.ended = sen.ended
        /\ UNCHANGED <<file, told, recorded>>
    BY <1>1, <1>7 DEF ReadPromise, SentinelRecord, log
  <2> QED
    BY <1>2, <1>3, <1>4, <2>1 DEF TypeInv, Bounded, HoldsReading
<1>8. CASE Decide
  <2>1. /\ sen.pc = "decide" /\ sen'.pc = "publish" /\ sen'.base = sen.seen /\ sen'.seen = sen.seen
        /\ sen'.life = sen.life /\ sen'.lastBeat = sen.lastBeat /\ sen'.firstBeat = sen.firstBeat
        /\ sen'.ended = sen.ended /\ UNCHANGED <<file, recorded>> /\ told' = told \cup Announced
    BY <1>1, <1>8 DEF Decide, SentinelRecord
  <2>2. sen.seen \in AnyStatus /\ sen.seen # None
    BY <2>1, NoneAssumption DEF EchoInv, Awake, AnyStatus, Promises
  <2>3. Announced \subseteq [run : Runs, by : {"run", "sentinel"}]
    BY <1>1, <2>2 DEF Announced, TypeInv, Bounded, Runs, AnyStatus
  <2>4. Logged'
    BY <1>2, <2>1, <2>3 DEF TypeInv, Logged
  <2> QED
    BY <1>2, <1>3, <2>1, <2>2, <2>4 DEF TypeInv, Bounded, HoldsReading
<1>9. ASSUME NEW written \in BOOLEAN, Publish(written) PROVE TypeInv'
  <2>1. /\ sen.pc = "publish" /\ sen'.pc = "ready" /\ sen'.base = sen.base /\ sen'.seen = None
        /\ sen'.life = sen.life /\ sen'.lastBeat = sen.lastBeat /\ sen'.firstBeat = sen.firstBeat
        /\ sen'.ended = 0 /\ UNCHANGED told /\ file' \in {sen.life, file}
        /\ \/ UNCHANGED recorded
           \/ /\ sen.seen.by > 0
              /\ recorded' = recorded \cup {[run |-> sen.seen.by, by |-> "sentinel",
                                        trigger |-> sen.trigger,
                                        during |-> sen.seen.by > sen.ended,
                                        first |-> sen.seen.by <= sen.firstBeat]}
    BY <1>1, <1>9 DEF Publish, SentinelRecord
  <2>2. sen.seen \in AnyStatus /\ sen.seen # None /\ sen.ended \in Nat /\ sen.firstBeat \in Nat
        /\ sen.trigger \in Triggers
    BY <1>1, <2>1 DEF TypeInv, HoldsReading, SentinelRecord
  <2>3. Logged'
    <3>1. CASE UNCHANGED recorded
      BY <1>4, <2>1, <3>1
    <3>2. ASSUME sen.seen.by > 0
          PROVE  [run |-> sen.seen.by, by |-> "sentinel", trigger |-> sen.trigger,
                  during |-> sen.seen.by > sen.ended, first |-> sen.seen.by <= sen.firstBeat] \in Trace
      <4>1. sen.seen.by \in Runs
        BY <1>1, <2>2, <3>2 DEF TypeInv, Bounded, Runs, AnyStatus
      <4>2. (sen.seen.by > sen.ended) \in BOOLEAN /\ (sen.seen.by <= sen.firstBeat) \in BOOLEAN
        BY <2>2 DEF AnyStatus
      <4> QED
        BY <2>2, <4>1, <4>2 DEF Trace
    <3> QED
      BY <1>2, <2>1, <3>1, <3>2 DEF TypeInv, Logged
  <2>4. Bounded'
    BY <1>1, <1>2, <2>1 DEF TypeInv, Bounded
  <2> QED
    BY <1>3, <2>1, <2>3, <2>4 DEF TypeInv, HoldsReading
<1>10. CASE Eject
  <2>1. UNCHANGED <<sen, file, told, recorded>>
    BY <1>10 DEF Eject, log
  <2> QED
    BY <1>2, <1>3, <1>4, <2>1 DEF TypeInv, Bounded, HoldsReading
<1>11. CASE ExitSentinel \/ KillSentinel
  <2>1. /\ sen'.life = sen.life /\ sen'.lastBeat = 0 /\ sen'.firstBeat = 0 /\ sen'.ended = 0
        /\ sen'.base = None /\ sen'.seen = None /\ sen'.pc = "down" /\ UNCHANGED <<told, recorded>>
        /\ file' \in {None, file}
    BY <1>11 DEF ExitSentinel, KillSentinel, Asleep, log
  <2> QED
    BY <1>1, <1>2, <1>3, <1>4, <2>1 DEF TypeInv, Bounded, HoldsReading
<1> QED
  BY <1>5, <1>6, <1>7, <1>8, <1>9, <1>10, <1>11 DEF Sentinel

LEMMA TypeInvariant == Spec => []TypeInv
<1>1. Init => TypeInv
  <2> SUFFICES ASSUME Init PROVE TypeInv
    OBVIOUS
  <2>1. /\ status.by = 0 /\ run.id = 0 /\ run.pc = "idle" /\ sen.pc = "down" /\ sen.base = None
        /\ sen.seen = None /\ sen.life = 0 /\ sen.lastBeat = 0 /\ sen.firstBeat = 0 /\ sen.ended = 0
        /\ file \in {None, 0} /\ knew = [r \in Runs |-> 0]
        /\ told = {} /\ failTold = {} /\ deferrals = {} /\ beatless = {} /\ unread = {} /\ recorded = {}
    BY DEF Init, Asleep, Idle
  <2>2. \/ heartbeat = None /\ beats = 0
        \/ heartbeat # None /\ heartbeat.run = 0 /\ beats = 1
    <3>1. ASSUME NEW p \in Promises, heartbeat = [is |-> p, run |-> 0, dispatched |-> TRUE]
          PROVE  heartbeat # None /\ heartbeat.run = 0
      <4>1. heartbeat \in Heartbeat
        BY <3>1 DEF Heartbeat
      <4> QED
        BY <3>1, <4>1, NoneAssumption DEF Heartbeat, Promises
    <3> QED
      BY <3>1 DEF Init
  <2>3. Bounded
    BY <2>1, <2>2, BoundAssumption DEF Bounded
  <2> QED
    BY <2>1, <2>2, <2>3 DEF TypeInv, Logged, BeatsCounted, Written, HoldsReading
<1>2. HolderKnown /\ EchoInv /\ DeferInv /\ TypeInv /\ [Next]_vars => TypeInv'
  <2> SUFFICES ASSUME HolderKnown, EchoInv, DeferInv, TypeInv, [Next]_vars PROVE TypeInv'
    OBVIOUS
  <2>1. CASE PromiseAges
    <3>1. /\ UNCHANGED <<heartbeat, beats, file, run, sen, told, failTold, deferrals, knew, beatless,
                         unread, recorded>>
          /\ status'.by = 0
      BY <2>1 DEF PromiseAges, log
    <3> QED
      BY <3>1, BoundAssumption DEF TypeInv, Bounded, Logged, BeatsCounted, Written, HoldsReading
  <2>2. CASE UNCHANGED vars
    BY <2>2 DEF vars, TypeInv, Bounded, Logged, BeatsCounted, Written, HoldsReading
  <2> QED
    BY <2>1, <2>2, BackupTypes, SentinelTypes DEF Next
<1> QED
  BY <1>1, <1>2, HolderAlwaysKnown, EchoInvariant, DeferInvariant, PTL DEF Spec

\* The processes, the files and the log are of their types, for any number of
\* runs and of lives; a run writes the heartbeat at most twice.
THEOREM TypeCorrect == Spec => []TypeOK
<1> QED
  BY TypeInvariant, HolderAlwaysKnown, TypesFollow, PTL

(************************* the run has the last word ***********************)

RecordedByRun(r) == \E t \in recorded : t.by = "run" /\ t.run = r

\* Run r is past its heartbeat and has written it.
HasBeaten(r) ==
    /\ r \notin beatless
    /\ RecordedByRun(r) \/ (run.id = r /\ run.pc \in {"beaten", "gated", "recorded"})

\* A run is in the log when it has come there, and a round begins after the runs
\* it counts as over.
InOrder ==
    /\ \A r \in Runs : RecordedByRun(r) =>
          r <= run.id /\ (run.id = r => run.pc \in {"recorded", "idle"})
    /\ sen.ended <= EndedRuns
    /\ sen.lastBeat <= beats
    /\ \A s \in recorded : s.by = "sentinel" /\ ~s.during => s.run <= EndedRuns

\* The heartbeat is of the run that wrote it last.
HeartbeatIsLatest ==
    \A r \in Runs : HasBeaten(r) => heartbeat # None /\ heartbeat.run >= r

\* Between two rounds, and once the promise is read: a result the sentinel has
\* not read yet comes with a heartbeat it has not seen yet, or was over when the
\* sentinel saw its first.
UnreadIsUnseen ==
    \A r \in Runs :
        /\ HasBeaten(r) /\ status.by = r
        /\ sen.pc \in {"ready", "decide", "publish"}
        /\ LastRead # None /\ LastRead.by # r
        => beats > sen.lastBeat \/ r <= sen.firstBeat

\* A round that acts on a tick does not meet the result of a run that was over.
TickMeetsNoRun ==
    sen.trigger = "tick" =>
        \A r \in Runs : HasBeaten(r) /\ r <= sen.ended /\ r > sen.firstBeat =>
            /\ sen.pc = "assess" /\ sen.base # None /\ status.by = r => sen.base.by = r
            /\ sen.pc = "decide" /\ sen.base # None /\ sen.seen.by = r => sen.base.by = r
            /\ sen.pc = "publish" /\ sen.emit => sen.seen.by # r

\* What a tick recorded of a run that was over the run had not recorded.
TickRecordsApart ==
    \A s \in recorded :
        (/\ s.by = "sentinel" /\ s.trigger = "tick"
         /\ ~s.during /\ ~s.first /\ s.run \notin beatless)
        => ~RecordedByRun(s.run)

LogInv == InOrder /\ HeartbeatIsLatest /\ UnreadIsUnseen /\ TickMeetsNoRun /\ TickRecordsApart

\* A step of a run: it is past its heartbeat when it has written it, with an
\* mtime no sentinel has seen, and what it executes it has not yet written.
LEMMA BackupLogs ==
    ASSUME HolderKnown, DeferInv, TypeInv, LogInv, Backup
    PROVE  LogInv'
<1>1. /\ run \in RunRecord /\ run.id \in Nat /\ FilesTyped /\ beats \in Nat
      /\ run.pc # "idle" => run.id \in Runs /\ run.id > 0
      /\ sen \in SentinelRecord /\ sen.ended \in Nat /\ sen.lastBeat \in Nat
      /\ EndedRuns \in Nat
      /\ \A r \in Runs : r \in Nat
      /\ \A s \in recorded : s.run \in Runs
  <2>1. \A s \in recorded : s.run \in Runs
    BY DEF TypeInv, Logged, Trace
  <2> QED
    BY <2>1 DEF HolderKnown, RunTyped, FilesTyped, SentinelTyped, RunRecord, SentinelRecord, DeferInv,
                Numbered, EndedRuns, Runs
<1>2. UNCHANGED sen
  BY DEF Backup, RunLocks, EmptyPlan, AssessBefore, Execute, AssessAfter, WriteHeartbeat,
         HeartbeatFails, DeferToSentinel, Dispatch, RecordRun, RunEnds
<1>3. \A r \in Runs : HasBeaten(r) => r <= run.id
  BY <1>1 DEF HasBeaten, LogInv, InOrder
<1>4. ASSUME EndedRuns <= EndedRuns', EndedRuns' \in Nat, beats <= beats', beats' \in Nat,
             \A r \in Runs : HasBeaten(r)' =>
                \/ HasBeaten(r) /\ (status'.by = r => status.by = r)
                \/ r = run.id /\ run.pc # "idle" /\ beats' = beats + 1
      PROVE  UnreadIsUnseen' /\ TickMeetsNoRun' /\ sen'.ended <= EndedRuns' /\ sen'.lastBeat <= beats'
  <2>1. sen'.ended <= EndedRuns' /\ sen'.lastBeat <= beats'
    BY <1>1, <1>2, <1>4 DEF LogInv, InOrder
  <2>2. ASSUME NEW r \in Runs, HasBeaten(r)',
               ~(HasBeaten(r) /\ (status'.by = r => status.by = r))
        PROVE  r > sen.ended /\ beats' > sen.lastBeat
    <3>1. r = run.id /\ run.pc # "idle" /\ beats' = beats + 1
      BY <1>4, <2>2
    <3> QED
      BY <1>1, <3>1 DEF EndedRuns, LogInv, InOrder
  <2>3. UnreadIsUnseen'
    <3> SUFFICES ASSUME NEW r \in Runs, HasBeaten(r)', status'.by = r,
                        sen.pc \in {"ready", "decide", "publish"}, LastRead # None, LastRead.by # r
                 PROVE  beats' > sen.lastBeat \/ r <= sen.firstBeat
      BY <1>2 DEF UnreadIsUnseen, LastRead
    <3>1. CASE HasBeaten(r) /\ status.by = r
      <4>1. beats > sen.lastBeat \/ r <= sen.firstBeat
        BY <3>1 DEF LogInv, UnreadIsUnseen
      <4> QED
        BY <1>1, <1>4, <4>1
    <3> QED
      BY <2>2, <3>1
  <2>4. TickMeetsNoRun'
    <3> SUFFICES ASSUME sen.trigger = "tick",
                        NEW r \in Runs, HasBeaten(r)', r <= sen.ended, r > sen.firstBeat
                 PROVE  /\ sen.pc = "assess" /\ sen.base # None /\ status'.by = r => sen.base.by = r
                        /\ sen.pc = "decide" /\ sen.base # None /\ sen.seen.by = r => sen.base.by = r
                        /\ sen.pc = "publish" /\ sen.emit => sen.seen.by # r
      BY <1>2 DEF TickMeetsNoRun
    <3>1. HasBeaten(r) /\ (status'.by = r => status.by = r)
      BY <1>1, <2>2
    <3> QED
      BY <3>1 DEF LogInv, TickMeetsNoRun
  <2> QED
    BY <2>1, <2>3, <2>4
<1>5. ASSUME EndedRuns <= EndedRuns', EndedRuns' \in Nat, UNCHANGED recorded
      PROVE  \A s \in recorded' : s.by = "sentinel" /\ ~s.during => s.run <= EndedRuns'
  BY <1>1, <1>5 DEF LogInv, InOrder
<1>6. ASSUME UNCHANGED recorded, beatless \subseteq beatless' PROVE TickRecordsApart'
  BY <1>6 DEF LogInv, TickRecordsApart, RecordedByRun
<1>7. ASSUME run'.pc = "idle" \/ run.pc # "idle", run'.id = run.id
      PROVE  EndedRuns <= EndedRuns' /\ EndedRuns' \in Nat
  BY <1>1, <1>7 DEF EndedRuns
<1>8. ASSUME UNCHANGED <<heartbeat, beats, beatless, recorded>>, EndedRuns <= EndedRuns',
             EndedRuns' \in Nat,
             \/ run'.id = run.id /\ (run.pc \in {"recorded", "idle"} => run'.pc \in {"recorded", "idle"})
             \/ run'.id = run.id + 1,
             run'.pc \notin {"beaten", "gated", "recorded"},
             status' = status \/ (status'.by = run.id /\ run.pc = "executing")
      PROVE  LogInv'
  <2>1. \A r \in Runs : RecordedByRun(r)' <=> RecordedByRun(r)
    BY <1>8 DEF RecordedByRun
  <2>2. \A r \in Runs : HasBeaten(r)' => HasBeaten(r)
    BY <1>8, <2>1 DEF HasBeaten
  <2>3. \A r \in Runs : HasBeaten(r)' /\ status'.by = r => status.by = r
    <3>1. run.pc = "executing" => ~HasBeaten(run.id)
      BY <1>1 DEF HasBeaten, LogInv, InOrder
    <3> QED
      BY <1>8, <2>2, <3>1
  <2>4. UnreadIsUnseen' /\ TickMeetsNoRun' /\ sen'.ended <= EndedRuns' /\ sen'.lastBeat <= beats'
    BY <1>1, <1>4, <1>8, <2>2, <2>3
  <2>5. HeartbeatIsLatest'
    BY <1>8, <2>2 DEF LogInv, HeartbeatIsLatest
  <2>6. InOrder'
    <3>1. \A r \in Runs : RecordedByRun(r)' =>
            r <= run'.id /\ (run'.id = r => run'.pc \in {"recorded", "idle"})
      BY <1>1, <1>8, <2>1 DEF LogInv, InOrder
    <3> QED
      BY <1>5, <1>8, <2>4, <3>1 DEF InOrder
  <2> QED
    BY <1>6, <1>8, <2>4, <2>5, <2>6 DEF LogInv
<1>9. CASE RunLocks
  <2>1. /\ UNCHANGED <<status, heartbeat, beats, beatless, recorded>>
        /\ run.pc = "idle" /\ run'.pc = "locked" /\ run'.id = run.id + 1
    BY <1>9 DEF RunLocks, Idle, log
  <2>2. EndedRuns' = EndedRuns
    BY <1>1, <2>1 DEF EndedRuns
  <2> QED
    BY <1>1, <1>8, <2>1, <2>2
<1>10. CASE EmptyPlan \/ AssessBefore \/ AssessAfter
  <2>1. /\ UNCHANGED <<status, heartbeat, beats, beatless, recorded>>
        /\ run.pc \in {"locked", "executed"} /\ run'.pc \in {"executed", "executing", "assessed"}
        /\ run'.id = run.id
    <3>1. CASE EmptyPlan
      BY <1>1, <3>1 DEF EmptyPlan, RunRecord, log
    <3>2. CASE AssessBefore
      BY <1>1, <3>2 DEF AssessBefore, RunRecord, log
    <3>3. CASE AssessAfter
      BY <1>1, <3>3 DEF AssessAfter, RunRecord, log
    <3> QED
      BY <1>10, <3>1, <3>2, <3>3
  <2> QED
    BY <1>7, <1>8, <2>1
<1>11. CASE RunEnds
  <2>1. /\ UNCHANGED <<status, heartbeat, beats, beatless, recorded>>
        /\ run'.pc = "idle" /\ run'.id = run.id
    BY <1>1, <1>11, IdleTyped DEF RunEnds, log
  <2> QED
    BY <1>7, <1>8, <2>1
<1>12. ASSUME NEW restores \in BOOLEAN, NEW fails \in BOOLEAN, Execute(restores, fails)
       PROVE  LogInv'
  <2>1. /\ UNCHANGED <<heartbeat, beats, beatless, recorded>>
        /\ run.pc = "executing" /\ run'.pc = "executed" /\ run'.id = run.id
        /\ status' = status \/ status' = [is |-> "protected", by |-> run.id]
    BY <1>1, <1>12 DEF Execute, RunRecord
  <2>2. status' = status \/ status'.by = run.id
    BY <2>1
  <2> QED
    BY <1>7, <1>8, <2>1, <2>2
<1>13. CASE WriteHeartbeat
  <2>1. /\ UNCHANGED <<status, beatless, recorded>> /\ beats' = beats + 1
        /\ run.pc = "assessed" /\ run'.pc = "beaten" /\ run'.id = run.id
        /\ heartbeat' = [is |-> run.post, run |-> run.id, dispatched |-> FALSE]
    BY <1>1, <1>13 DEF WriteHeartbeat, RunRecord, log
  <2>2. \A r \in Runs : RecordedByRun(r)' <=> RecordedByRun(r)
    BY <2>1 DEF RecordedByRun
  <2>3. \A r \in Runs : HasBeaten(r)' => HasBeaten(r) \/ r = run.id
    BY <2>1, <2>2 DEF HasBeaten
  <2>4. UnreadIsUnseen' /\ TickMeetsNoRun' /\ sen'.ended <= EndedRuns' /\ sen'.lastBeat <= beats'
    BY <1>1, <1>4, <1>7, <2>1, <2>3
  <2>5. HeartbeatIsLatest'
    <3>1. heartbeat' # None /\ heartbeat'.run = run.id
      <4>1. heartbeat' \in Heartbeat
        BY <1>1, <2>1 DEF HolderKnown, RunTyped, Heartbeat
      <4> QED
        BY <2>1, <4>1, NoneAssumption DEF Heartbeat, Promises
    <3> QED
      BY <1>1, <1>3, <2>3, <3>1 DEF HeartbeatIsLatest
  <2>6. InOrder'
    <3>1. \A r \in Runs : RecordedByRun(r)' =>
            r <= run'.id /\ (run'.id = r => run'.pc \in {"recorded", "idle"})
      BY <2>1, <2>2 DEF LogInv, InOrder
    <3> QED
      BY <1>5, <1>7, <2>1, <2>4, <3>1 DEF InOrder
  <2> QED
    BY <1>6, <2>1, <2>4, <2>5, <2>6 DEF LogInv
<1>14. CASE HeartbeatFails
  <2>1. /\ UNCHANGED <<status, heartbeat, beats, recorded>> /\ beatless' = beatless \cup {run.id}
        /\ run.pc = "assessed" /\ run'.pc = "beaten" /\ run'.id = run.id
    BY <1>1, <1>14 DEF HeartbeatFails, RunRecord
  <2>2. \A r \in Runs : RecordedByRun(r)' <=> RecordedByRun(r)
    BY <2>1 DEF RecordedByRun
  <2>3. \A r \in Runs : HasBeaten(r)' => HasBeaten(r)
    BY <2>1, <2>2 DEF HasBeaten
  <2>4. UnreadIsUnseen' /\ TickMeetsNoRun' /\ sen'.ended <= EndedRuns' /\ sen'.lastBeat <= beats'
    BY <1>1, <1>4, <1>7, <2>1, <2>3
  <2>5. HeartbeatIsLatest'
    BY <2>1, <2>3 DEF LogInv, HeartbeatIsLatest
  <2>6. InOrder'
    <3>1. \A r \in Runs : RecordedByRun(r)' =>
            r <= run'.id /\ (run'.id = r => run'.pc \in {"recorded", "idle"})
      BY <2>1, <2>2 DEF LogInv, InOrder
    <3> QED
      BY <1>5, <1>7, <2>1, <2>4, <3>1 DEF InOrder
  <2> QED
    BY <1>6, <2>1, <2>4, <2>5, <2>6 DEF LogInv
<1>15. CASE DeferToSentinel \/ \E delivered \in BOOLEAN : Dispatch(delivered)
  <2>1. /\ MarkDispatched \/ UNCHANGED <<heartbeat, beats>>
        /\ UNCHANGED <<status, beatless, recorded>>
        /\ run.pc = "beaten" /\ run'.pc = "gated" /\ run'.id = run.id
    BY <1>1, <1>15 DEF DeferToSentinel, Dispatch, RunRecord
  <2>2. /\ heartbeat # None => heartbeat' # None /\ heartbeat'.run = heartbeat.run
        /\ beats <= beats' /\ beats' \in Nat
    BY <1>1, <2>1, MarkKeeps
  <2>3. \A r \in Runs : RecordedByRun(r)' <=> RecordedByRun(r)
    BY <2>1 DEF RecordedByRun
  <2>4. \A r \in Runs : HasBeaten(r)' => HasBeaten(r)
    BY <2>1, <2>3 DEF HasBeaten
  <2>5. UnreadIsUnseen' /\ TickMeetsNoRun' /\ sen'.ended <= EndedRuns' /\ sen'.lastBeat <= beats'
    BY <1>4, <1>7, <2>1, <2>2, <2>4
  <2>6. HeartbeatIsLatest'
    BY <2>2, <2>4 DEF LogInv, HeartbeatIsLatest
  <2>7. InOrder'
    <3>1. \A r \in Runs : RecordedByRun(r)' =>
            r <= run'.id /\ (run'.id = r => run'.pc \in {"recorded", "idle"})
      BY <2>1, <2>3 DEF LogInv, InOrder
    <3> QED
      BY <1>5, <1>7, <2>1, <2>5, <3>1 DEF InOrder
  <2> QED
    BY <1>6, <2>1, <2>5, <2>6, <2>7 DEF LogInv
<1>16. CASE RecordRun
  <2>1. /\ UNCHANGED <<status, heartbeat, beats, beatless>>
        /\ run.pc = "gated" /\ run'.pc = "recorded" /\ run'.id = run.id
        /\ recorded' \subseteq recorded \cup {[run |-> run.id, by |-> "run", trigger |-> "run",
                                        during |-> TRUE, first |-> FALSE]}
    BY <1>1, <1>16 DEF RecordRun, RunRecord
  <2>2. \A r \in Runs : RecordedByRun(r)' => RecordedByRun(r) \/ r = run.id
    BY <2>1 DEF RecordedByRun
  <2>3. \A r \in Runs : HasBeaten(r)' => HasBeaten(r)
    BY <2>1, <2>2 DEF HasBeaten
  <2>4. UnreadIsUnseen' /\ TickMeetsNoRun' /\ sen'.ended <= EndedRuns' /\ sen'.lastBeat <= beats'
    BY <1>1, <1>4, <1>7, <2>1, <2>3
  <2>5. HeartbeatIsLatest'
    BY <2>1, <2>3 DEF LogInv, HeartbeatIsLatest
  <2>6. EndedRuns' = EndedRuns /\ EndedRuns = run.id - 1
    BY <2>1 DEF EndedRuns
  <2>7. \A s \in recorded' : s.by = "sentinel" => s \in recorded
    BY <2>1
  <2>8. InOrder'
    <3>1. \A r \in Runs : RecordedByRun(r)' =>
            r <= run'.id /\ (run'.id = r => run'.pc \in {"recorded", "idle"})
      BY <1>1, <2>1, <2>2 DEF LogInv, InOrder
    <3>2. \A s \in recorded' : s.by = "sentinel" /\ ~s.during => s.run <= EndedRuns'
      BY <2>6, <2>7 DEF LogInv, InOrder
    <3> QED
      BY <2>4, <3>1, <3>2 DEF InOrder
  <2>9. TickRecordsApart'
    <3> SUFFICES ASSUME NEW s \in recorded, s.by = "sentinel", s.trigger = "tick",
                        ~s.during, ~s.first, s.run \notin beatless, RecordedByRun(s.run)'
                 PROVE  FALSE
      BY <2>1, <2>7 DEF TickRecordsApart
    <3>1. s.run \in Runs /\ s.run <= run.id - 1
      BY <1>1, <2>6 DEF LogInv, InOrder
    <3>2. RecordedByRun(s.run)
      BY <1>1, <2>2, <3>1
    <3> QED
      BY <3>2 DEF LogInv, TickRecordsApart
  <2> QED
    BY <2>4, <2>5, <2>8, <2>9 DEF LogInv
<1> QED
  BY <1>9, <1>10, <1>11, <1>12, <1>13, <1>14, <1>15, <1>16 DEF Backup

\* A step of the sentinel: the round that takes a finished run's result for its
\* own without the run's heartbeat is its first, and an ordinary tick records no
\* other.
LEMMA SentinelLogs ==
    ASSUME HolderKnown, EchoInv, DeferInv, TypeInv, LogInv, Sentinel
    PROVE  LogInv'
<1>1. /\ run.id \in Nat /\ FilesTyped /\ beats \in Nat /\ status \in AnyStatus
      /\ sen \in SentinelRecord /\ sen.ended \in Nat /\ sen.lastBeat \in Nat /\ sen.firstBeat \in Nat
      /\ EndedRuns \in Nat
      /\ \A r \in Runs : r \in Nat /\ r > 0
  BY DEF HolderKnown, RunTyped, FilesTyped, SentinelTyped, RunRecord, SentinelRecord, EndedRuns, Runs
<1>2. UNCHANGED <<status, heartbeat, beats, run, beatless>>
  BY DEF Sentinel, StartSentinel, Poll, ReadPromise, Decide, Publish, Eject, ExitSentinel, KillSentinel,
         log
<1>3. /\ \A r \in Runs : RecordedByRun(r)' <=> RecordedByRun(r)
      /\ \A r \in Runs : HasBeaten(r)' <=> HasBeaten(r)
  <2>1. recorded \subseteq recorded' /\ \A s \in recorded' \ recorded : s.by = "sentinel"
    <3>1. CASE \E written \in BOOLEAN : Publish(written)
      BY <3>1 DEF Publish
    <3>2. CASE ~\E written \in BOOLEAN : Publish(written)
      BY <3>2 DEF Sentinel, StartSentinel, Poll, ReadPromise, Decide, Eject, ExitSentinel, KillSentinel,
                  log
    <3> QED
      BY <3>1, <3>2
  <2>2. \A r \in Runs : RecordedByRun(r)' <=> RecordedByRun(r)
    BY <2>1 DEF RecordedByRun
  <2> QED
    BY <1>2, <2>2 DEF HasBeaten
<1>4. HeartbeatIsLatest' /\ EndedRuns' = EndedRuns
  BY <1>2, <1>3 DEF LogInv, HeartbeatIsLatest, EndedRuns
<1>5. \A r \in Runs : RecordedByRun(r)' =>
         r <= run'.id /\ (run'.id = r => run'.pc \in {"recorded", "idle"})
  BY <1>2, <1>3 DEF LogInv, InOrder
<1>6. ASSUME UNCHANGED recorded, sen'.ended <= EndedRuns, sen'.lastBeat <= beats
      PROVE  InOrder' /\ TickRecordsApart'
  <2>1. InOrder'
    BY <1>2, <1>4, <1>5, <1>6 DEF LogInv, InOrder
  <2>2. TickRecordsApart'
    BY <1>2, <1>6 DEF LogInv, TickRecordsApart, RecordedByRun
  <2> QED
    BY <2>1, <2>2
<1>7. ASSUME NEW mounted \in BOOLEAN, StartSentinel(mounted) PROVE LogInv'
  <2>1. /\ UNCHANGED recorded /\ sen'.ended = EndedRuns /\ sen'.lastBeat = beats
        /\ sen'.base = None /\ sen'.seen = None /\ sen'.trigger # "tick"
    BY <1>7 DEF StartSentinel, Asleep, log
  <2>2. UnreadIsUnseen' /\ TickMeetsNoRun'
    BY <2>1 DEF UnreadIsUnseen, TickMeetsNoRun, LastRead
  <2> QED
    BY <1>1, <1>4, <1>6, <2>1, <2>2 DEF LogInv
<1>8. CASE ExitSentinel \/ KillSentinel
  <2>1. /\ UNCHANGED recorded /\ sen'.ended = 0 /\ sen'.lastBeat = 0
        /\ sen'.base = None /\ sen'.seen = None /\ sen'.trigger # "tick"
    BY <1>8 DEF ExitSentinel, KillSentinel, Asleep, log
  <2>2. UnreadIsUnseen' /\ TickMeetsNoRun'
    BY <2>1 DEF UnreadIsUnseen, TickMeetsNoRun, LastRead
  <2> QED
    BY <1>1, <1>4, <1>6, <2>1, <2>2 DEF LogInv
<1>9. CASE Eject
  <2>1. UNCHANGED <<sen, recorded>>
    BY <1>9 DEF Eject, log
  <2>2. UnreadIsUnseen' /\ TickMeetsNoRun'
    BY <1>2, <1>3, <2>1 DEF LogInv, UnreadIsUnseen, TickMeetsNoRun, LastRead
  <2> QED
    BY <1>4, <1>6, <2>1, <2>2 DEF LogInv, InOrder
<1>10. ASSUME NEW detected \in SUBSET Detectable, Poll(detected) PROVE LogInv'
  <2> DEFINE events == Collected(detected)
  <2>1. /\ sen.pc = "ready" /\ UNCHANGED recorded
        /\ sen' = [sen EXCEPT
                     !.pc = IF events = {} THEN "ready" ELSE "assess",
                     !.lastBeat = beats,
                     !.firstBeat = IF sen.lastBeat = 0 /\ heartbeat # None
                                   THEN heartbeat.run ELSE @,
                     !.trigger = Trigger(events),
                     !.ended = IF events = {} THEN 0 ELSE EndedRuns]
    BY <1>10 DEF Poll, log
  <2>2. BeatSeen => "completed" \in events
    BY DEF Collected
  <2> HIDE DEF events
  <2>3. /\ sen'.pc = IF events = {} THEN "ready" ELSE "assess"
        /\ sen'.lastBeat = beats
        /\ sen'.firstBeat = IF sen.lastBeat = 0 /\ heartbeat # None THEN heartbeat.run ELSE sen.firstBeat
        /\ sen'.trigger = Trigger(events) /\ sen'.ended \in {0, EndedRuns}
        /\ sen'.base = sen.base /\ sen'.seen = sen.seen
    BY <1>1, <2>1 DEF SentinelRecord
  <2>4. LastRead = sen.base /\ LastRead' = sen.base
    BY <2>1, <2>3 DEF LastRead, DeferInv, ReadingHeld
  <2>5. ASSUME NEW r \in Runs, HasBeaten(r), status.by = r, sen.base # None, sen.base.by # r
        PROVE  BeatSeen \/ r <= sen'.firstBeat
    <3>1. beats > sen.lastBeat \/ r <= sen.firstBeat
      BY <2>1, <2>4, <2>5 DEF LogInv, UnreadIsUnseen
    <3>2. heartbeat # None /\ heartbeat.run >= r
      BY <2>5 DEF LogInv, HeartbeatIsLatest
    <3> QED
      BY <1>1, <2>3, <3>1, <3>2 DEF BeatSeen
  <2>6. UnreadIsUnseen'
    <3> SUFFICES ASSUME NEW r \in Runs, HasBeaten(r)', status'.by = r,
                        sen'.pc \in {"ready", "decide", "publish"}, LastRead' # None, LastRead'.by # r
                 PROVE  r <= sen'.firstBeat
      BY DEF UnreadIsUnseen
    <3>1. ~BeatSeen
      BY <2>2, <2>3
    <3> QED
      BY <1>2, <1>3, <2>4, <2>5, <3>1
  <2>7. TickMeetsNoRun'
    <3> SUFFICES ASSUME Trigger(events) = "tick", NEW r \in Runs, HasBeaten(r), r > sen'.firstBeat,
                        sen.base # None, status.by = r
                 PROVE  sen.base.by = r
      BY <1>2, <1>3, <2>3 DEF TickMeetsNoRun
    <3>1. ~BeatSeen
      BY <2>2 DEF Trigger
    <3>2. sen'.firstBeat \in Nat
      BY <1>1, <2>3 DEF FilesTyped, Heartbeat
    <3> QED
      BY <1>1, <2>5, <3>1, <3>2
  <2> QED
    BY <1>1, <1>4, <1>6, <2>1, <2>3, <2>6, <2>7 DEF LogInv
<1>11. CASE ReadPromise
  <2>1. /\ sen.pc = "assess" /\ sen'.pc = "decide" /\ sen'.seen = status /\ sen'.base = sen.base
        /\ sen'.lastBeat = sen.lastBeat /\ sen'.firstBeat = sen.firstBeat /\ sen'.ended = sen.ended
        /\ sen'.trigger = sen.trigger /\ UNCHANGED recorded
    BY <1>1, <1>11 DEF ReadPromise, SentinelRecord, log
  <2>2. LastRead' = status
    <3>1. status # None
      BY <1>1, NoneAssumption DEF AnyStatus, Promises
    <3> QED
      BY <2>1, <3>1 DEF LastRead
  <2>3. UnreadIsUnseen'
    BY <1>2, <2>2 DEF UnreadIsUnseen
  <2>4. TickMeetsNoRun'
    BY <1>2, <1>3, <2>1 DEF LogInv, TickMeetsNoRun
  <2> QED
    BY <1>4, <1>6, <2>1, <2>3, <2>4 DEF LogInv, InOrder
<1>12. CASE Decide
  <2>1. /\ sen.pc = "decide" /\ sen'.pc = "publish" /\ sen'.seen = sen.seen /\ sen'.base = sen.seen
        /\ sen'.lastBeat = sen.lastBeat /\ sen'.firstBeat = sen.firstBeat /\ sen'.ended = sen.ended
        /\ sen'.trigger = sen.trigger /\ UNCHANGED recorded
    BY <1>1, <1>12 DEF Decide, SentinelRecord
  <2>2. LastRead = sen.seen /\ LastRead' = sen.seen
    <3>1. sen.seen # None
      BY <2>1, NoneAssumption DEF EchoInv, Awake, AnyStatus, Promises
    <3> QED
      BY <2>1, <3>1 DEF LastRead
  <2>3. UnreadIsUnseen'
    BY <1>2, <1>3, <2>1, <2>2 DEF LogInv, UnreadIsUnseen
  <2>4. TickMeetsNoRun'
    <3>0. sen'.emit <=> SeesChange /\ ShouldRecord
      BY <1>1, <1>12 DEF Decide, SentinelRecord
    <3> SUFFICES ASSUME sen.trigger = "tick", NEW r \in Runs, HasBeaten(r), r <= sen.ended,
                        r > sen.firstBeat, SeesChange, sen.seen.by = r
                 PROVE  FALSE
      BY <1>3, <2>1, <3>0 DEF TickMeetsNoRun
    <3>1. sen.base # None /\ sen.base.is # sen.seen.is
      BY DEF SeesChange
    <3>2. sen.base.by = r
      BY <2>1, <3>1 DEF LogInv, TickMeetsNoRun
    <3> QED
      BY <1>1, <2>1, <3>1, <3>2 DEF EchoInv, RunsRestore
  <2> QED
    BY <1>4, <1>6, <2>1, <2>3, <2>4 DEF LogInv, InOrder
<1>13. ASSUME NEW written \in BOOLEAN, Publish(written) PROVE LogInv'
  <2> DEFINE trace == [run |-> sen.seen.by, by |-> "sentinel", trigger |-> sen.trigger,
                       during |-> sen.seen.by > sen.ended, first |-> sen.seen.by <= sen.firstBeat]
  <2>1. /\ sen.pc = "publish" /\ sen'.pc = "ready" /\ sen'.seen = None /\ sen'.base = sen.base
        /\ sen'.lastBeat = sen.lastBeat /\ sen'.firstBeat = sen.firstBeat /\ sen'.ended = 0
        /\ sen'.trigger = "none"
        /\ recorded' = IF sen.emit /\ sen.seen.by > 0 THEN recorded \cup {trace} ELSE recorded
    BY <1>1, <1>13 DEF Publish, SentinelRecord
  <2>2. sen.seen # None /\ sen.seen \in AnyStatus /\ sen.seen.by \in Nat
    BY <1>1, <2>1 DEF TypeInv, HoldsReading, SentinelRecord, AnyStatus
  <2>3. LastRead = sen.seen /\ LastRead' = sen.seen
    BY <2>1, <2>2 DEF LastRead, DeferInv, ReadingHeld
  <2>4. UnreadIsUnseen'
    BY <1>2, <1>3, <2>1, <2>3 DEF LogInv, UnreadIsUnseen
  <2>5. TickMeetsNoRun'
    BY <2>1 DEF TickMeetsNoRun
  <2>6. \A s \in recorded' : s \in recorded \/ (sen.emit /\ sen.seen.by > 0 /\ s = trace)
    BY <2>1
  <2>7. /\ trace.run = sen.seen.by /\ trace.trigger = sen.trigger
        /\ trace.during <=> sen.seen.by > sen.ended
        /\ trace.first <=> sen.seen.by <= sen.firstBeat
    OBVIOUS
  <2> HIDE DEF trace
  <2>8. InOrder'
    <3>1. \A s \in recorded' : s.by = "sentinel" /\ ~s.during => s.run <= EndedRuns'
      BY <1>1, <1>4, <2>2, <2>6, <2>7 DEF LogInv, InOrder
    <3>2. sen'.ended <= EndedRuns' /\ sen'.lastBeat <= beats'
      BY <1>1, <1>2, <1>4, <2>1 DEF LogInv, InOrder
    <3> QED
      BY <1>5, <3>1, <3>2 DEF InOrder
  <2>9. TickRecordsApart'
    <3> SUFFICES ASSUME NEW s \in recorded', s.by = "sentinel", s.trigger = "tick",
                        ~s.during, ~s.first, s.run \notin beatless, RecordedByRun(s.run)'
                 PROVE  FALSE
      BY <1>2 DEF TickRecordsApart
    <3>1. s.run \in Runs
      <4>1. CASE s \in recorded
        BY <4>1 DEF TypeInv, Logged, Trace
      <4>2. CASE sen.emit /\ sen.seen.by > 0 /\ s = trace
        BY <2>2, <2>7, <4>2, BoundAssumption DEF TypeInv, Bounded, Runs
      <4> QED
        BY <2>6, <4>1, <4>2
    <3>2. RecordedByRun(s.run) /\ HasBeaten(s.run)
      BY <1>3, <3>1 DEF HasBeaten
    <3>3. CASE s \in recorded
      BY <3>2, <3>3 DEF LogInv, TickRecordsApart
    <3>4. CASE sen.emit /\ s = trace
      <4>1. /\ sen.trigger = "tick" /\ s.run = sen.seen.by /\ s.run <= sen.ended
            /\ s.run > sen.firstBeat
        BY <1>1, <2>2, <2>7, <3>4
      <4> QED
        BY <2>1, <3>1, <3>2, <3>4, <4>1 DEF LogInv, TickMeetsNoRun
    <3> QED
      BY <2>6, <3>3, <3>4
  <2> QED
    BY <1>4, <2>4, <2>5, <2>8, <2>9 DEF LogInv
<1> QED
  BY <1>7, <1>8, <1>9, <1>10, <1>11, <1>12, <1>13 DEF Sentinel

LEMMA LogInvariant == Spec => []LogInv
<1>1. Init => LogInv
  <2> SUFFICES ASSUME Init PROVE LogInv
    OBVIOUS
  <2>1. /\ run.id = 0 /\ run.pc = "idle" /\ sen.pc = "down" /\ sen.base = None /\ sen.seen = None
        /\ sen.lastBeat = 0 /\ sen.ended = 0 /\ sen.trigger = "none" /\ recorded = {} /\ beats \in Nat
    BY DEF Init, Asleep, Idle
  <2>2. \A r \in Runs : ~RecordedByRun(r) /\ ~HasBeaten(r)
    BY <2>1 DEF RecordedByRun, HasBeaten, Runs
  <2> QED
    BY <2>1, <2>2 DEF LogInv, InOrder, HeartbeatIsLatest, UnreadIsUnseen, TickMeetsNoRun,
                      TickRecordsApart, EndedRuns
<1>2. HolderKnown /\ EchoInv /\ DeferInv /\ TypeInv /\ LogInv /\ [Next]_vars => LogInv'
  <2> SUFFICES ASSUME HolderKnown, EchoInv, DeferInv, TypeInv, LogInv, [Next]_vars PROVE LogInv'
    OBVIOUS
  <2>1. ASSUME UNCHANGED <<heartbeat, beats, run, sen, beatless, recorded>>,
               status' = status \/ status'.by = 0
        PROVE  LogInv'
    <3>1. \A r : (RecordedByRun(r)' <=> RecordedByRun(r)) /\ (HasBeaten(r)' <=> HasBeaten(r))
      BY <2>1 DEF RecordedByRun, HasBeaten
    <3>2. \A r \in Runs : status'.by = r => status.by = r
      BY <2>1 DEF Runs
    <3>3. InOrder' /\ HeartbeatIsLatest' /\ TickRecordsApart'
      BY <2>1, <3>1 DEF LogInv, InOrder, HeartbeatIsLatest, TickRecordsApart, EndedRuns
    <3>4. UnreadIsUnseen' /\ TickMeetsNoRun'
      BY <2>1, <3>1, <3>2 DEF LogInv, UnreadIsUnseen, TickMeetsNoRun, LastRead
    <3> QED
      BY <3>3, <3>4 DEF LogInv
  <2>2. CASE PromiseAges
    BY <2>1, <2>2 DEF PromiseAges, log
  <2>3. CASE UNCHANGED vars
    BY <2>1, <2>3 DEF vars
  <2> QED
    BY <2>2, <2>3, BackupLogs, SentinelLogs DEF Next
<1> QED
  BY <1>1, <1>2, HolderAlwaysKnown, EchoInvariant, DeferInvariant, TypeInvariant, PTL DEF Spec

\* "Backup is canonical" (sentinel.rs): a transition a run recorded
\* no ordinary tick records again, however the two processes interleave, crash and
\* restart, but for a run still going when the round began, a first heartbeat and
\* a heartbeat that was never written.
THEOREM TicksRepeatNoRun == Spec => []TickNeverRepeatsARun
<1>1. TypeInv /\ LogInv => TickNeverRepeatsARun
  BY DEF LogInv, TickRecordsApart, TickNeverRepeatsARun, RecordedByRun
<1> QED
  BY <1>1, TypeInvariant, LogInvariant, PTL

=============================================================================
