-------------------------- MODULE OperationsMonitor --------------------------
(***************************************************************************)
(* The worker's heartbeat (worker_heartbeat.py), the operational health    *)
(* report that the worker's monitor and the API's /ready both collect, and *)
(* the durable incidents the monitor reconciles with it (operations.py).   *)
(*                                                                         *)
(* A report is collected with several reads, each at a moment of its own,  *)
(* and dated when it was begun; sessions, the process and time go on in    *)
(* between.  Times are ticks of a bounded clock.  /ready only reads, and   *)
(* nothing the monitor writes is read by a report: the two never influence *)
(* each other, and one report is collected at a time.                      *)
(***************************************************************************)
EXTENDS Integers, Sequences, FiniteSets, FiniteSetsExt

CONSTANTS
    LiveMaxAge,         \* live_max_age_ms, in ticks
    OfflineAge,         \* offline_age_ms
    Window,             \* reconnect_window_s and unknown_handle_window_s
    ReconnectWarning,   \* reconnect_warning_count
    ReconnectCritical,  \* reconnect_critical_count
    ScanLimit,          \* MAX_HEALTH_CHECKPOINT_VALIDATIONS
    Watched,            \* the codes whose incidents are followed: each code is reconciled apart
    MaxTime,            \* bound on the clock
    MaxChanges,         \* bound on changes of the session and the storage, and on
                        \* reads and writes that raise
    MaxStarts           \* bound on worker processes

VARIABLES
    now,        \* now_us()
    storage,    \* levels of free disk space and of database size, and the schema
    session,    \* what the tables say of one analysis session
    changes,    \* changes of storage and session, and raised errors, so far
    proc,       \* the worker process: instance, tasks, stop_event
    beat,       \* the row of timing_worker_heartbeats
    report,     \* the report being collected, by the monitor or for /ready
    incidents,  \* timing_operational_incidents: the rows of each code, in id order
    absent      \* keys without cause at some moment of the monitor's observation

None == -1
Collectors == {"monitor", "ready"}

Level == {"ok", "warning", "critical", "unknown"}
CheckpointKind == {"restorable", "rejected", "ineligible"}

Session == [active : BOOLEAN, started : Nat, frame : Int, gap : BOOLEAN,
            gaps : Seq(Nat), pending : Int, processed : BOOLEAN, failed : BOOLEAN,
            checkpoints : Seq(CheckpointKind), schema : {"PENDING", "CURRENT", "DEGRADED"},
            unknown : Int, runError : Int]

\* timing_worker_heartbeats; an empty table has state MISSING.
Beat == [state : {"MISSING", "STARTING", "READY", "STOPPED", "FAILED"}, at : Nat]

Severity == {"WARNING", "CRITICAL"}
SystemCodes == {"DISK_SPACE_LOW", "DISK_STATUS_UNAVAILABLE", "DATABASE_SIZE_UNAVAILABLE",
                "DATABASE_SIZE_HIGH", "SCHEMA_MIGRATION_MISMATCH", "WORKER_OFFLINE", "WORKER_STALE"}
SessionCodes == {"SOURCE_OFFLINE", "SOURCE_STALE", "CHECKPOINT_INVALID", "CHECKPOINT_MISSING",
                 "FRAME_DECODE_FAILURE", "PROCESSING_QUEUE_LAG", "RECONNECT_STORM",
                 "RESULT_SCHEMA_DEGRADED", "RESULT_SCHEMA_PENDING", "UNKNOWN_SOURCE_HANDLE",
                 "INGEST_RUN_FAILED"}
Codes == SystemCodes \cup SessionCodes

ASSUME OperationsAssumption ==
    /\ LiveMaxAge \in Nat /\ OfflineAge \in Nat /\ LiveMaxAge <= OfflineAge
    /\ Window \in Nat /\ ReconnectWarning \in Nat /\ ReconnectCritical \in Nat
    /\ ScanLimit \in Nat /\ MaxTime \in Nat /\ MaxChanges \in Nat
    /\ MaxStarts \in Nat
    /\ Watched \subseteq Codes

Incomplete == {"DATABASE_UNAVAILABLE", "SESSION_HEALTH_UNAVAILABLE"}
Alert == [code : Codes \cup Incomplete \cup {"OTHER"}, severity : Severity]

\* A row of timing_operational_incidents; its code is where it is kept.
Episode == [severity : Severity, open : BOOLEAN, opened : Nat, resolved : Int]

\* The locals of collect_operational_health.
Report == [by : Collectors, pc : {"idle", "database", "sessions", "ingest", "tables", "report"}, at : Nat,
           alerts : SUBSET Alert, pending : BOOLEAN, age : Nat]
NoReport == [by |-> "monitor", pc |-> "idle", at |-> 0, alerts |-> {}, pending |-> FALSE, age |-> 0]

\* Types of the tables, the process and the reports.
TypeOK ==
    /\ now \in 0..MaxTime /\ changes \in 0..MaxChanges
    /\ storage \in [disk : Level, size : Level, schema : {"ok", "critical"}]
    /\ session \in Session
    /\ proc \in [up : BOOLEAN, starts : 0..MaxStarts, stop : BOOLEAN, failed : BOOLEAN,
                 heart : {"starting", "readying", "beating", "done"}, lastUp : Nat]
    /\ beat \in Beat
    /\ report \in Report
    /\ incidents \in [Watched -> Seq(Episode)]
    /\ absent \subseteq Watched

-----------------------------------------------------------------------------
(* The alerts, as functions of what is read and of the report's time.      *)

Alerting(code, severity) == {[code |-> code, severity |-> severity]}
AlertIf(p, code, severity) == IF p THEN Alerting(code, severity) ELSE {}

\* _age_ms: never negative, although a row may be newer than the report.
Age(observed, at) == IF at > observed THEN at - observed ELSE 0

\* Two thresholds of one code: CRITICAL is tested first, and there is one alert.
Graded(critical, warning, code) ==
    AlertIf(critical, code, "CRITICAL") \cup AlertIf(warning /\ ~critical, code, "WARNING")

DiskHealth ==
    Graded(storage.disk = "critical", storage.disk = "warning", "DISK_SPACE_LOW")
    \cup AlertIf(storage.disk = "unknown", "DISK_STATUS_UNAVAILABLE", "WARNING")
    \cup AlertIf(storage.size = "unknown", "DATABASE_SIZE_UNAVAILABLE", "WARNING")
    \cup Graded(storage.size = "critical", storage.size = "warning", "DATABASE_SIZE_HIGH")

MigrationHealth == AlertIf(storage.schema # "ok", "SCHEMA_MIGRATION_MISMATCH", "CRITICAL")

\* Mutant: only the state of the heartbeat counts, not its age.
WorkerOfflineByState(at) == beat.state # "READY"

WorkerOffline(at) == beat.state # "READY" \/ Age(beat.at, at) > OfflineAge

WorkerHealth(at) ==
    AlertIf(WorkerOffline(at), "WORKER_OFFLINE", "CRITICAL")
    \cup AlertIf(~WorkerOffline(at) /\ Age(beat.at, at) > LiveMaxAge, "WORKER_STALE", "WARNING")

\* Age of the newest frame, or of the session while it has none.
SourceAge(at) == Age(IF session.frame # None THEN session.frame ELSE session.started, at)

SourceHealth(at) ==
    Graded(session.gap \/ SourceAge(at) > OfflineAge, FALSE, "SOURCE_OFFLINE")
    \cup AlertIf(~session.gap /\ SourceAge(at) > LiveMaxAge /\ SourceAge(at) <= OfflineAge,
                 "SOURCE_STALE", "WARNING")

\* The eligible checkpoints, newest first, as far as the scan goes: those passed
\* over before the first that restores.
EligibleOf(checkpoints) == SelectSeq(checkpoints, LAMBDA k : k # "ineligible")
Eligible == EligibleOf(session.checkpoints)
Scanned == {i \in DOMAIN Eligible : i > Len(Eligible) - ScanLimit}
Restorable == {i \in Scanned : Eligible[i] = "restorable"}
RejectedNewer == Cardinality({i \in Scanned : \A j \in Restorable : j < i})

CheckpointHealth ==
    IF session.processed /\ Restorable = {}
    THEN IF session.checkpoints # <<>> THEN Alerting("CHECKPOINT_INVALID", "CRITICAL")
                                       ELSE Alerting("CHECKPOINT_MISSING", "WARNING")
    ELSE AlertIf(RejectedNewer > 0, "CHECKPOINT_INVALID", "WARNING")

\* What read_ingest_health's snapshot decides.
IngestHealth(at) ==
    SourceHealth(at) \cup CheckpointHealth
    \cup AlertIf(session.failed, "FRAME_DECODE_FAILURE", "CRITICAL")

QueueLag(at) == IF session.pending = None THEN 0 ELSE Age(session.pending, at)
Reconnects(at) == Cardinality({i \in DOMAIN session.gaps : session.gaps[i] >= at - Window})

\* What is read afterwards; the snapshot had counted the pending frames.
TableHealth(at, pendingSeen, age) ==
    Graded(pendingSeen /\ QueueLag(at) > OfflineAge,
           pendingSeen /\ QueueLag(at) > LiveMaxAge, "PROCESSING_QUEUE_LAG")
    \cup Graded(Reconnects(at) >= ReconnectCritical, Reconnects(at) >= ReconnectWarning,
                "RECONNECT_STORM")
    \cup AlertIf(session.schema = "DEGRADED", "RESULT_SCHEMA_DEGRADED", "CRITICAL")
    \cup AlertIf(session.schema = "PENDING" /\ age > LiveMaxAge, "RESULT_SCHEMA_PENDING", "WARNING")
    \cup AlertIf(session.unknown >= Max({0, at - Window}), "UNKNOWN_SOURCE_HANDLE", "WARNING")
    \cup AlertIf(session.runError >= Max({0, at - Window}), "INGEST_RUN_FAILED", "CRITICAL")

\* Everything that is wrong at this moment, for a report dated at.
Causes(at) ==
    {a.code : a \in DiskHealth \cup MigrationHealth \cup WorkerHealth(at)
                    \cup (IF session.active
                          THEN IngestHealth(at)
                               \cup TableHealth(at, session.pending # None, SourceAge(at))
                          ELSE {})}

-----------------------------------------------------------------------------

facts == <<storage, session>>
tables == <<facts, changes>>
worker == <<proc, beat>>
vars == <<now, tables, worker, report, incidents, absent>>

Init ==
    /\ now = 0 /\ changes = 0 /\ absent = {}
    /\ storage = [disk |-> "ok", size |-> "ok", schema |-> "ok"]
    /\ \E gap \in BOOLEAN :        \* a fresh session, or one an earlier process left in a gap
        session = [active |-> TRUE, started |-> 0, frame |-> None, gap |-> gap,
                   gaps |-> IF gap THEN <<0>> ELSE <<>>, pending |-> None, processed |-> FALSE,
                   failed |-> FALSE, checkpoints |-> <<>>, schema |-> "PENDING",
                   unknown |-> None, runError |-> None]
    /\ proc = [up |-> FALSE, starts |-> 0, stop |-> FALSE, failed |-> FALSE,
               heart |-> "done", lastUp |-> 0]
    /\ beat = [state |-> "MISSING", at |-> 0]
    /\ report = NoReport
    /\ incidents = [c \in Watched |-> <<>>]

-----------------------------------------------------------------------------
(* What goes on around: time, the recorder, the operator.                  *)

Tick ==
    /\ now < MaxTime
    /\ now' = now + 1
    /\ UNCHANGED <<tables, worker, report, incidents>>

\* What the recorder writes into the session's tables.
Recorded(s) ==
    {[s EXCEPT !.frame = now, !.pending = IF @ = None THEN now ELSE @],     \* persist_raw_frame
     [s EXCEPT !.pending = None, !.processed = @ \/ s.pending # None],      \* mark_processed
     [s EXCEPT !.pending = None, !.failed = @ \/ s.pending # None],         \* decode_frame failed
     [s EXCEPT !.gap = TRUE, !.gaps = Append(@, now)],                      \* record_gap
     [s EXCEPT !.gap = FALSE],                                              \* close_gap
     [s EXCEPT !.runError = now],                                           \* finish_run error:
     [s EXCEPT !.unknown = now]}                                            \* an unknown handle
    \cup {[s EXCEPT !.checkpoints = Append(@, k)] : k \in CheckpointKind}
    \cup {[s EXCEPT !.schema = k] : k \in {"CURRENT", "DEGRADED"}}

Record ==
    /\ session.active /\ proc.up /\ changes < MaxChanges
    /\ session' \in Recorded(session) \ {session}
    /\ changes' = changes + 1
    /\ UNCHANGED <<now, storage, worker, report, incidents>>

\* The operator closes the session.
CloseSession ==
    /\ session.active
    /\ session' = [session EXCEPT !.active = FALSE]
    /\ UNCHANGED <<now, storage, changes, worker, report, incidents>>

\* Disk, database size and schema as the operating system and a deploy leave them.
StorageChanges ==
    /\ changes < MaxChanges
    /\ changes' = changes + 1
    /\ \E l \in Level \ {"ok"} :
        storage' \in {[storage EXCEPT !.disk = l], [storage EXCEPT !.size = l],
                      [storage EXCEPT !.schema = "critical"],
                      [disk |-> "ok", size |-> "ok", schema |-> "ok"]} \ {storage}
    /\ UNCHANGED <<now, session, worker, report, incidents>>

\* The alerts a report is kept with: those of the followed codes, those that make
\* it incomplete, and one that stands for any other critical alert.
Kept(alerts) ==
    {a \in alerts : a.code \in Watched \cup Incomplete}
    \cup {[code |-> "OTHER", severity |-> "CRITICAL"] : a \in {b \in alerts : b.severity = "CRITICAL"}}

At(p) == report.pc = p
By(c) == report.by = c
Goto(p, alerts) == report' = [report EXCEPT !.pc = p, !.alerts = @ \cup Kept(alerts)]

-----------------------------------------------------------------------------
(* The worker process and its heartbeat.                                   *)

\* write_worker_heartbeat: the upsert of the single row.
Written(state) == [state |-> state, at |-> now]

\* systemd starts the worker; an operator may also start a stopped one.
StartWorker ==
    /\ ~proc.up /\ proc.starts < MaxStarts
    /\ proc' = [proc EXCEPT !.up = TRUE, !.starts = @ + 1, !.stop = FALSE, !.failed = FALSE,
                            !.heart = "starting"]
    /\ UNCHANGED <<now, tables, beat, report, incidents>>

\* STARTING, READY, then READY at every interval.
Heartbeat ==
    /\ proc.up /\ proc.heart # "done"
    /\ proc.heart = "beating" => ~proc.stop
    /\ beat' = Written(IF proc.heart = "starting" THEN "STARTING" ELSE "READY")
    /\ proc' = [proc EXCEPT !.heart = IF proc.heart = "starting" THEN "readying" ELSE "beating"]
    /\ UNCHANGED <<now, tables, report, incidents>>

\* SIGTERM sets the stop event.
StopSignal ==
    /\ proc.up /\ ~proc.stop
    /\ proc' = [proc EXCEPT !.stop = TRUE]
    /\ UNCHANGED <<now, tables, beat, report, incidents>>

\* The loop ends and the finally block writes STOPPED.
HeartbeatStops ==
    /\ proc.up /\ proc.heart = "beating" /\ proc.stop
    /\ beat' = Written("STOPPED")
    /\ proc' = [proc EXCEPT !.heart = "done"]
    /\ UNCHANGED <<now, tables, report, incidents>>

\* A write raises: FAILED is written if that still works, STOPPED over it if the
\* stop event is set, and the task group ends.
HeartbeatFails ==
    /\ proc.up /\ proc.heart # "done" /\ changes < MaxChanges
    /\ changes' = changes + 1
    /\ beat' \in {beat, IF proc.stop THEN Written("STOPPED") ELSE Written("FAILED")}
    /\ proc' = [proc EXCEPT !.heart = "done", !.failed = TRUE]
    /\ UNCHANGED <<now, facts, report, incidents>>

\* The process ends once its tasks have: cancelled after a failure, or finished
\* after a stop.  The monitor's report goes with it.
WorkerExits ==
    /\ proc.up /\ proc.heart = "done"
    /\ proc.failed \/ At("idle") \/ By("ready")
    /\ proc' = [proc EXCEPT !.up = FALSE, !.lastUp = now]
    /\ report' = IF By("monitor") THEN NoReport ELSE report
    /\ UNCHANGED <<now, tables, beat, incidents>>

\* The process is killed, or a sibling task fails: the row stays as it is.
WorkerKilled ==
    /\ proc.up /\ proc.starts < MaxStarts
    /\ proc' = [proc EXCEPT !.up = FALSE, !.lastUp = now]
    /\ report' = IF By("monitor") THEN NoReport ELSE report
    /\ UNCHANGED <<now, tables, beat, incidents>>

-----------------------------------------------------------------------------
(* Collecting a report.                                                    *)

\* The report is dated, and the disk is looked at.
CollectStorage(c) ==
    /\ At("idle")
    /\ c = "monitor" => proc.up /\ ~proc.stop /\ ~proc.failed
    /\ report' = [NoReport EXCEPT !.by = c, !.pc = "database", !.at = now,
                                  !.alerts = Kept(DiskHealth)]
    /\ UNCHANGED <<now, tables, worker, incidents>>

CollectDatabase ==
    /\ At("database")
    /\ Goto("sessions", MigrationHealth \cup WorkerHealth(report.at))
    /\ UNCHANGED <<now, tables, worker, incidents>>

CollectSessions ==
    /\ At("sessions")
    /\ Goto(IF session.active THEN "ingest" ELSE "report", {})
    /\ UNCHANGED <<now, tables, worker, incidents>>

\* read_ingest_health, one snapshot.
CollectIngest ==
    /\ At("ingest")
    /\ report' = [report EXCEPT !.pc = "tables", !.alerts = @ \cup Kept(IngestHealth(report.at)),
                                !.pending = session.pending # None, !.age = SourceAge(report.at)]
    /\ UNCHANGED <<now, tables, worker, incidents>>

CollectTables ==
    /\ At("tables")
    /\ Goto("report", TableHealth(report.at, report.pending, report.age))
    /\ UNCHANGED <<now, tables, worker, incidents>>

\* A read raises: the report is incomplete, and says so.
CollectFault ==
    /\ report.pc \notin {"idle", "report"} /\ changes < MaxChanges
    /\ changes' = changes + 1
    /\ \E code \in IF At("ingest") THEN Incomplete ELSE {"DATABASE_UNAVAILABLE"} :
        Goto("report", Alerting(code, "CRITICAL"))
    /\ UNCHANGED <<now, facts, worker, incidents>>

-----------------------------------------------------------------------------
(* What is done with a report.                                             *)

\* Mutant: every report is reconciled.
ReconciliationSafeAlways(alerts) == TRUE

\* incident_reconciliation_safe
ReconciliationSafe(alerts) == \A a \in alerts : a.code \notin Incomplete

OpenRows(episodes) == {i \in DOMAIN episodes : episodes[i].open}

\* Mutant: an alert that is still there opens another row.
SeenAgainOpens(episodes, severity, at) ==
    Append(episodes, [severity |-> severity, open |-> TRUE, opened |-> at, resolved |-> None])

\* The alert is in the report: a new row, or the open one updated.
SeenAgain(episodes, severity, at) ==
    IF OpenRows(episodes) = {}
    THEN Append(episodes, [severity |-> severity, open |-> TRUE, opened |-> at, resolved |-> None])
    ELSE [i \in DOMAIN episodes |->
            IF episodes[i].open THEN [episodes[i] EXCEPT !.severity = severity]
            ELSE episodes[i]]

\* It is not: the open row is resolved.
NotSeen(episodes, at) ==
    [i \in DOMAIN episodes |->
       IF episodes[i].open THEN [episodes[i] EXCEPT !.open = FALSE, !.resolved = at]
       ELSE episodes[i]]

\* reconcile_operational_incidents, one transaction.
Reconciled(alerts, at) ==
    [c \in Watched |->
       IF \E a \in alerts : a.code = c
       THEN SeenAgain(incidents[c], (CHOOSE a \in alerts : a.code = c).severity, at)
       ELSE NotSeen(incidents[c], at)]

Reconcile ==
    /\ At("report") /\ By("monitor") /\ ~proc.failed
    /\ incidents' = IF ReconciliationSafe(report.alerts)
                    THEN Reconciled(report.alerts, report.at) ELSE incidents
    /\ report' = NoReport
    /\ UNCHANGED <<now, tables, worker>>

\* The transaction raises and is rolled back; the monitor goes on.
ReconcileFault ==
    /\ At("report") /\ By("monitor") /\ changes < MaxChanges
    /\ changes' = changes + 1
    /\ report' = NoReport
    /\ UNCHANGED <<now, facts, worker, incidents>>

\* /ready answers 503 only for a critical alert.
Ready(alerts) == \A a \in alerts : a.severity # "CRITICAL"

Answer ==
    /\ At("report") /\ By("ready")
    /\ report' = NoReport
    /\ UNCHANGED <<now, tables, worker, incidents>>

-----------------------------------------------------------------------------

WorkerStep == Heartbeat \/ HeartbeatStops \/ WorkerExits
ReportStep == \/ CollectDatabase \/ CollectSessions \/ CollectIngest \/ CollectTables
              \/ Reconcile \/ Answer

Step ==
    \/ Tick \/ Record \/ CloseSession \/ StorageChanges
    \/ StartWorker \/ StopSignal \/ WorkerStep \/ HeartbeatFails \/ WorkerKilled
    \/ CollectStorage("monitor") \/ CollectStorage("ready") \/ ReportStep
    \/ CollectFault \/ ReconcileFault

\* A history variable: the codes without a cause at some moment since the
\* monitor's report was begun, judged at the time it is dated.
Observe ==
    absent' = IF report'.pc = "idle" \/ report'.by = "ready" THEN {}
              ELSE (IF At("idle") THEN {} ELSE absent) \cup (Watched \ Causes(report.at)')

Next == Step /\ Observe

Spec == Init /\ [][Next]_vars

-----------------------------------------------------------------------------

Open(code) == OpenRows(incidents[code]) # {}

\* One open incident per code and scope; an earlier one was resolved before the
\* next was opened, whatever restarts, failed transactions and overlapping
\* reports came between.
EpisodesDisjoint ==
    \A c \in Watched : \A i, j \in DOMAIN incidents[c] :
        i < j => /\ ~incidents[c][i].open
                 /\ incidents[c][i].resolved <= incidents[c][j].opened

\* The incidents, the heartbeat and the report are typed and no two episodes of one
\* condition overlap.
IncidentsConsistent == TypeOK /\ EpisodesDisjoint

\* README: an incident is resolved "only after a complete healthy observation":
\* at some moment since the report was begun its cause was absent.
ResolvedWhenAbsent ==
    [][\A c \in Watched : Open(c) /\ OpenRows(incidents'[c]) = {} => c \in absent]_vars

\* /ready never vouches for a worker that was gone for longer than OfflineAge
\* when the report was begun.
ReadyMeansAlive ==
    [][At("report") /\ By("ready") /\ report'.pc = "idle" /\ Ready(report.alerts) =>
         proc.up \/ report.at - proc.lastUp <= OfflineAge]_vars

=============================================================================
