---------------------------- MODULE SentinelGate ----------------------------
(***************************************************************************)
(* Two processes tell the user about one subvolume's promise and write     *)
(* its transitions to the event log: `urd backup`, at the tail of a run    *)
(* (run_tail.rs, recorder.rs), and `urd sentinel`, whenever it re-assesses *)
(* (sentinel.rs, sentinel_runner/).  They never talk to each other.  What  *)
(* they share is files: the heartbeat, whose mtime says that a run is      *)
(* over; the sentinel's state file, whose pid says that a sentinel will    *)
(* speak; the lock file, whose pid says that a run is under way.           *)
(*                                                                         *)
(* The promise of the subvolume, and who changed it last, is `status`: a   *)
(* run, or time and events no run caused.  A pid is the number of the run  *)
(* or of the sentinel's life.                                              *)
(***************************************************************************)
EXTENDS Naturals

CONSTANTS
    None,     \* no file, no baseline, nothing read
    MaxRuns,  \* bound: backup runs
    MaxLives  \* bound: starts of the sentinel

ASSUME BoundAssumption == MaxRuns \in Nat /\ MaxLives \in Nat

\* Nothing is told apart from what a file or a reading may hold.
ASSUME NoneAssumption ==
    /\ None \notin Nat
    /\ None \notin [is : {"protected", "at_risk"}, by : Nat]
    /\ None \notin [is : {"protected", "at_risk"}, run : Nat, dispatched : BOOLEAN]

VARIABLES
    status,     \* what an assessment would find: [is, by]
    heartbeat,  \* heartbeat.json: None or [is, run, dispatched]
    beats,      \* its mtime: how often it was written
    file,       \* sentinel-state.json: None or the pid (life) in it
    meta,       \* metadata in the lock file: None or [who, id]
    run,        \* the backup process
    sen,        \* the sentinel process
    told,       \* promise changes announced: [run, by]
    failTold,   \* runs whose failure was announced
    deferrals,  \* batches a run left to the sentinel: [run, life, change, failed]
    knew,       \* knew[r]: sentinel life that had read the promise before run r restored it
    beatless,   \* runs whose heartbeat was not written
    unread,     \* runs that met a sentinel with a first reading not yet in its file
    recorded    \* transitions in the event log: [run, by, trigger, during, first]

vars == <<status, heartbeat, beats, file, meta, run, sen,
          told, failTold, deferrals, knew, beatless, unread, recorded>>

log == <<told, failTold, deferrals, knew, beatless, unread, recorded>>

Runs == 1..MaxRuns
Lives == 1..MaxLives
Promises == {"protected", "at_risk"}
Status == [is : Promises, by : 0..MaxRuns]
Triggers == {"none", "tick", "external"}

\* Points of a run.  "locked": it holds the lock; "executing": pre_assessments
\* is taken; "executed": the executor is done; "assessed": the tail is decided;
\* "beaten": the heartbeat is written; "gated": the notices are out or left to
\* the sentinel; "recorded": the promise diff is in the log.
RunPoints == {"idle", "locked", "executing", "executed", "assessed",
              "beaten", "gated", "recorded"}

\* Points of the sentinel.  "ready": between two rounds of the poll loop;
\* "assess": events were turned into an Assess action; "decide": the promise
\* was read; "publish": the notices are out, the state file is not yet written.
SentinelPoints == {"down", "ready", "assess", "decide", "publish"}

Trace == [run : Runs, by : {"run", "sentinel"}, trigger : Triggers \cup {"run"},
          during : BOOLEAN, first : BOOLEAN]

TypeOK ==
    /\ status \in Status
    /\ heartbeat \in {None} \cup
          [is : Promises, run : 0..MaxRuns, dispatched : BOOLEAN]
    /\ beats \in 0..(2 * MaxRuns + 1)
    /\ (heartbeat = None) <=> (beats = 0)
    /\ file \in {None} \cup 0..MaxLives
    /\ meta \in {None} \cup [who : {"run", "sentinel"}, id : Nat]
    /\ run \in [pc : RunPoints, id : 0..MaxRuns, pre : Promises \cup {None},
                prev : Promises \cup {None}, post : Promises \cup {None},
                failed : BOOLEAN]
    /\ sen \in [pc : SentinelPoints, life : 0..MaxLives,
                base : Status \cup {None}, seen : Status \cup {None},
                assessed : BOOLEAN, lastBeat : 0..beats, firstBeat : 0..MaxRuns,
                trigger : Triggers, emit : BOOLEAN, ended : 0..MaxRuns]
    /\ told \subseteq [run : Runs, by : {"run", "sentinel"}]
    /\ failTold \subseteq Runs
    /\ deferrals \subseteq [run : Runs, life : Lives, change : BOOLEAN, failed : BOOLEAN]
    /\ knew \in [Runs -> 0..MaxLives]
    /\ beatless \subseteq Runs /\ unread \subseteq Runs
    /\ recorded \subseteq Trace

Asleep(life) ==
    [pc |-> "down", life |-> life, base |-> None, seen |-> None,
     assessed |-> FALSE, lastBeat |-> 0, firstBeat |-> 0, trigger |-> "none",
     emit |-> FALSE, ended |-> 0]

Idle(id) ==
    [pc |-> "idle", id |-> id, pre |-> None, prev |-> None, post |-> None,
     failed |-> FALSE]

\* A run, number 0, may have left its heartbeat and its pid in the lock file, and a
\* sentinel, killed in life 0, its state file.
Init ==
    /\ status \in [is : Promises, by : {0}]
    /\ \/ heartbeat = None /\ beats = 0
       \/ /\ \E p \in Promises : heartbeat = [is |-> p, run |-> 0, dispatched |-> TRUE]
          /\ beats = 1
    /\ file \in {None, 0}
    /\ meta \in {None, [who |-> "run", id |-> 0]}
    /\ run = Idle(0) /\ sen = Asleep(0)
    /\ told = {} /\ failTold = {} /\ deferrals = {} /\ beatless = {} /\ unread = {} /\ recorded = {}
    /\ knew = [r \in Runs |-> 0]

(**************************** pids and probes ******************************)

RunAlive(id) == run.pc # "idle" /\ run.id = id
SentinelAlive(life) == sen.pc # "down" /\ sen.life = life

\* A fault: the run asks the lock file who is running.
SentinelHoldsLock == meta # None /\ meta.who = "sentinel" /\ SentinelAlive(meta.id)

\* sentinel_is_running: the state file is there and its pid is alive.
SentinelIsRunning == file # None /\ SentinelAlive(file)

\* read_lock_info and is_pid_alive.
HolderAlive == IF meta.who = "run" THEN RunAlive(meta.id) ELSE SentinelAlive(meta.id)

\* A fault: the sentinel's own pid counts as a run.
AnyHolderActive == meta # None /\ HolderAlive

\* backup_run_active_at, asked by the sentinel: a foreign live pid is recorded
\* in the lock file.  Its own pid is what an eject of its own left there.
BackupRunActive ==
    /\ meta # None
    /\ ~(meta.who = "sentinel" /\ meta.id = sen.life)
    /\ HolderAlive

(******************************** the world ********************************)

\* Copies grow old, drives stay away: the promise is broken by no run.
PromiseAges ==
    /\ status.is = "protected"
    /\ status' = [is |-> "at_risk", by |-> 0]
    /\ UNCHANGED <<heartbeat, beats, file, meta, run, sen, log>>

(******************************** the backup *******************************)

\* acquire_lock: the flock, then the pid in the file.
RunLocks ==
    /\ run.pc = "idle" /\ run.id < MaxRuns
    /\ run' = [Idle(run.id + 1) EXCEPT !.pc = "locked"]
    /\ meta' = [who |-> "run", id |-> run.id + 1]
    /\ UNCHANGED <<status, heartbeat, beats, file, sen, log>>

\* The plan is empty: straight to the tail, with no promise diff.
EmptyPlan ==
    /\ run.pc = "locked"
    /\ run' = [run EXCEPT !.pc = "executed"]
    /\ UNCHANGED <<status, heartbeat, beats, file, meta, sen, log>>

\* pre_assessments, taken under the lock.
AssessBefore ==
    /\ run.pc = "locked"
    /\ run' = [run EXCEPT !.pc = "executing", !.pre = status.is]
    /\ UNCHANGED <<status, heartbeat, beats, file, meta, sen, log>>

\* What the sentinel last read.
LastRead == IF sen.seen # None THEN sen.seen ELSE sen.base

\* Executor::execute: it may restore the promise, and operations may fail.
Execute(restores, fails) ==
    /\ run.pc = "executing"
    /\ restores => status.is = "at_risk"
    /\ run' = [run EXCEPT !.pc = "executed", !.failed = fails]
    /\ IF restores
       THEN /\ status' = [is |-> "protected", by |-> run.id]
            /\ knew' = [knew EXCEPT ![run.id] =
                          IF LastRead # None /\ LastRead.is = "at_risk"
                          THEN sen.life ELSE 0]
       ELSE UNCHANGED <<status, knew>>
    /\ UNCHANGED <<heartbeat, beats, file, meta, sen, told, failTold,
                   deferrals, beatless, unread, recorded>>

\* previous_hb is read and the promise assessed: decide_tail has its inputs.
AssessAfter ==
    /\ run.pc = "executed"
    /\ run' = [run EXCEPT !.pc = "assessed", !.post = status.is,
                          !.prev = IF heartbeat = None THEN None ELSE heartbeat.is]
    /\ UNCHANGED <<status, heartbeat, beats, file, meta, sen, log>>

WriteHeartbeat ==
    /\ run.pc = "assessed"
    /\ run' = [run EXCEPT !.pc = "beaten"]
    /\ heartbeat' = [is |-> run.post, run |-> run.id, dispatched |-> FALSE]
    /\ beats' = beats + 1
    /\ UNCHANGED <<status, file, meta, sen, log>>

\* The write failed: the run warns and goes on.
HeartbeatFails ==
    /\ run.pc = "assessed"
    /\ run' = [run EXCEPT !.pc = "beaten"]
    /\ beatless' = beatless \cup {run.id}
    /\ UNCHANGED <<status, heartbeat, beats, file, meta, sen, told, failTold, deferrals,
                   knew, unread, recorded>>

\* compute_notifications: a promise change against the last heartbeat any run
\* wrote, and the run's failed operations.
PromiseChanged == run.prev # None /\ run.prev # run.post

\* A fault: the heartbeat is gone after the mark.
MarkLosesHeartbeat == heartbeat' = None /\ beats' = beats

\* mark_dispatched reads the heartbeat, if there is one, and writes it again: a
\* new mtime.
MarkDispatched ==
    IF heartbeat = None
    THEN UNCHANGED <<heartbeat, beats>>
    ELSE /\ heartbeat' = [heartbeat EXCEPT !.dispatched = TRUE]
         /\ beats' = beats + 1

\* A sentinel that has read the promise but has no state file to show for it.
ReadButUnpublished ==
    /\ sen.pc # "down" /\ file # sen.life
    /\ sen.seen # None \/ sen.base # None

\* gate_dispatch: leave the batch to a running sentinel.
DeferToSentinel ==
    /\ run.pc = "beaten" /\ SentinelIsRunning
    /\ MarkDispatched
    /\ deferrals' = IF PromiseChanged \/ run.failed
                    THEN deferrals \cup {[run |-> run.id, life |-> sen.life,
                                          change |-> PromiseChanged, failed |-> run.failed]}
                    ELSE deferrals
    /\ run' = [run EXCEPT !.pc = "gated"]
    /\ UNCHANGED <<status, file, meta, sen, told, failTold, knew, beatless, unread, recorded>>

\* gate_dispatch: no sentinel, so the run speaks itself; it marks the heartbeat
\* when a channel took the batch or there was nothing to say.
Dispatch(delivered) ==
    /\ run.pc = "beaten" /\ ~SentinelIsRunning
    /\ IF delivered \/ ~(PromiseChanged \/ run.failed)
       THEN MarkDispatched ELSE UNCHANGED <<heartbeat, beats>>
    /\ told' = IF PromiseChanged THEN told \cup {[run |-> run.id, by |-> "run"]} ELSE told
    /\ failTold' = IF run.failed THEN failTold \cup {run.id} ELSE failTold
    /\ unread' = IF ReadButUnpublished THEN unread \cup {run.id} ELSE unread
    /\ run' = [run EXCEPT !.pc = "gated"]
    /\ UNCHANGED <<status, file, meta, sen, deferrals, knew, beatless, recorded>>

\* The promise diff of the run, trigger = Run; an empty plan has none.
RecordRun ==
    /\ run.pc = "gated"
    /\ recorded' = IF run.pre # None /\ run.pre # run.post
                   THEN recorded \cup {[run |-> run.id, by |-> "run", trigger |-> "run",
                                        during |-> TRUE, first |-> FALSE]}
                   ELSE recorded
    /\ run' = [run EXCEPT !.pc = "recorded"]
    /\ UNCHANGED <<status, heartbeat, beats, file, meta, sen, told, failTold, deferrals,
                   knew, beatless, unread>>

\* The process ends, and the flock with it; the metadata stays in the file.  A
\* run can be killed anywhere, or leave at a metrics write that fails.
RunEnds ==
    /\ run.pc # "idle"
    /\ run' = Idle(run.id)
    /\ UNCHANGED <<status, heartbeat, beats, file, meta, sen, log>>

(******************************* the sentinel ******************************)

\* A fault: a tick records although a run was completed in the same round.
TriggerOnTick(events) ==
    IF "external" \in events THEN "external"
    ELSE IF "tick" \in events THEN "tick" ELSE "none"

\* pick_transition_trigger: an external event wins; a completed run silences a
\* tick of the same round.
Trigger(events) ==
    CASE "external" \in events -> "external"
      [] events \cap {"external", "completed"} = {} /\ "tick" \in events -> "tick"
      [] OTHER -> "none"

\* What a round may find beside a heartbeat; "external" is a mounted drive or an
\* edited config, which record under their own triggers.
Detectable == {"external", "unmounted", "tick"}

\* The runs over when a round begins.
EndedRuns == IF run.pc = "idle" THEN run.id ELSE run.id - 1

\* SentinelRunner::new and restore_mount_tracking; the first scan finds a drive
\* the previous sentinel had not seen, or finds nothing new.
StartSentinel(mounted) ==
    /\ sen.pc = "down" /\ sen.life < MaxLives
    /\ sen' = [Asleep(sen.life + 1) EXCEPT
                 !.pc = IF mounted THEN "assess" ELSE "ready",
                 !.trigger = IF mounted THEN "external" ELSE "none",
                 !.lastBeat = beats,
                 !.ended = EndedRuns]
    /\ UNCHANGED <<status, heartbeat, beats, file, meta, run, log>>

\* detect_heartbeat_event: the first heartbeat a sentinel ever sees is taken as a
\* baseline, in silence.
BeatSeen == sen.lastBeat > 0 /\ beats > sen.lastBeat

\* collect_events: before the first assessment a tick is always due.
Collected(detected) ==
    detected \cup (IF BeatSeen THEN {"completed"} ELSE {})
             \cup (IF sen.assessed THEN {} ELSE {"tick"})

\* One round of the poll loop up to its Assess: drives, heartbeat, tick, config.
Poll(detected) ==
    /\ sen.pc = "ready"
    /\ LET events == Collected(detected)
       IN  sen' = [sen EXCEPT
                     !.pc = IF events = {} THEN "ready" ELSE "assess",
                     !.lastBeat = beats,
                     !.firstBeat = IF sen.lastBeat = 0 /\ heartbeat # None
                                   THEN heartbeat.run ELSE @,
                     !.trigger = Trigger(events),
                     !.ended = IF events = {} THEN 0 ELSE EndedRuns]
    /\ UNCHANGED <<status, heartbeat, beats, file, meta, run, log>>

\* execute_assess reads the world.
ReadPromise ==
    /\ sen.pc = "assess"
    /\ sen' = [sen EXCEPT !.pc = "decide", !.seen = status]
    /\ UNCHANGED <<status, heartbeat, beats, file, meta, run, log>>

\* has_initial_assessment, and has_promise_changes against the baseline.
SeesChange == sen.base # None /\ sen.base.is # sen.seen.is

\* should_record_transitions, with the lock file read at this moment.
ShouldRecord == sen.base # None /\ sen.trigger # "none" /\ ~BackupRunActive

\* A fault: what is not recorded is not announced either.
AnnouncedIfRecorded ==
    IF SeesChange /\ ShouldRecord /\ sen.seen.by > 0
    THEN {[run |-> sen.seen.by, by |-> "sentinel"]} ELSE {}

\* The changes of a run the assessment announces: whatever the trigger.
Announced ==
    IF SeesChange /\ sen.seen.by > 0
    THEN {[run |-> sen.seen.by, by |-> "sentinel"]} ELSE {}

\* execute_assess decides what to record, speaks, and moves its baseline.
Decide ==
    /\ sen.pc = "decide"
    /\ told' = told \cup Announced
    /\ sen' = [sen EXCEPT !.pc = "publish", !.base = sen.seen, !.assessed = TRUE,
                          !.emit = SeesChange /\ ShouldRecord]
    /\ UNCHANGED <<status, heartbeat, beats, file, meta, run, failTold, deferrals, knew,
                   beatless, unread, recorded>>

\* write_state_file, which may fail, and the flush of the audit events.
Publish(written) ==
    /\ sen.pc = "publish"
    /\ file' = IF written
               THEN sen.life ELSE file
    /\ recorded' = IF sen.emit /\ sen.seen.by > 0
                   THEN recorded \cup {[run |-> sen.seen.by, by |-> "sentinel",
                                        trigger |-> sen.trigger,
                                        during |-> sen.seen.by > sen.ended,
                                        first |-> sen.seen.by <= sen.firstBeat]}
                   ELSE recorded
    /\ sen' = [sen EXCEPT !.pc = "ready", !.seen = None, !.emit = FALSE,
                          !.trigger = "none", !.ended = 0]
    /\ UNCHANGED <<status, heartbeat, beats, meta, run, told, failTold, deferrals, knew,
                   beatless, unread>>

\* The idle eject of drive_eject_protocol takes the lock when it is free, and
\* leaves the sentinel's own pid in the file.
Eject ==
    /\ sen.pc = "ready" /\ run.pc = "idle"
    /\ meta' = [who |-> "sentinel", id |-> sen.life]
    /\ UNCHANGED <<status, heartbeat, beats, file, run, sen, log>>

\* SIGTERM, seen between two rounds: execute_exit removes the state file.
ExitSentinel ==
    /\ sen.pc = "ready"
    /\ sen' = Asleep(sen.life)
    /\ file' = None
    /\ UNCHANGED <<status, heartbeat, beats, meta, run, log>>

KillSentinel ==
    /\ sen.pc # "down"
    /\ sen' = Asleep(sen.life)
    /\ UNCHANGED <<status, heartbeat, beats, file, meta, run, log>>

Backup ==
    \/ RunLocks \/ EmptyPlan \/ AssessBefore
    \/ \E restores, fails \in BOOLEAN : Execute(restores, fails)
    \/ AssessAfter \/ WriteHeartbeat \/ HeartbeatFails \/ DeferToSentinel
    \/ \E delivered \in BOOLEAN : Dispatch(delivered)
    \/ RecordRun \/ RunEnds

Sentinel ==
    \/ \E mounted \in BOOLEAN : StartSentinel(mounted)
    \/ \E detected \in SUBSET Detectable : Poll(detected)
    \/ ReadPromise \/ Decide
    \/ \E written \in BOOLEAN : Publish(written)
    \/ Eject \/ ExitSentinel \/ KillSentinel

Next == PromiseAges \/ Backup \/ Sentinel

Spec == Init /\ [][Next]_vars

(******************************** properties *******************************)

\* "Backup is canonical": a transition the run recorded is not recorded again by
\* an ordinary tick, unless the round began before the run was over, or the run's
\* heartbeat was the first this sentinel saw, or was never written.
TickNeverRepeatsARun ==
    \A s \in recorded :
        (/\ s.by = "sentinel" /\ s.trigger = "tick"
         /\ \E r \in recorded : r.by = "run" /\ r.run = s.run)
        => s.during \/ s.first \/ s.run \in beatless

\* A promise change left to a sentinel that had read the promise before the run
\* restored it is announced by the time that sentinel has taken the run's result for its own.
DeferredChangeIsTold ==
    \A d \in deferrals :
        (/\ d.change /\ SentinelAlive(d.life) /\ knew[d.run] = d.life
         /\ sen.base # None /\ sen.base.by = d.run)
        => [run |-> d.run, by |-> "sentinel"] \in told

\* What a run has announced no sentinel announces after it, unless that sentinel
\* had read the promise and not yet published when the run asked for it.
SentinelDoesNotEcho ==
    [][\A r \in Runs :
         (/\ [run |-> r, by |-> "run"] \in told
          /\ [run |-> r, by |-> "sentinel"] \in told' \ told)
         => r \in unread]_vars

\* A pid left in the lock file, of a dead run or of the sentinel's own eject,
\* silences no transition seen while no run is alive.
LeftoverLockSilencesNothing ==
    [][(Decide /\ SeesChange /\ sen.trigger # "none" /\ run.pc = "idle")
       => sen'.emit]_vars

=============================================================================
