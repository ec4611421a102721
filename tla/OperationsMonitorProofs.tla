----------------------- MODULE OperationsMonitorProofs -----------------------
(***************************************************************************)
(* For all thresholds, clocks, numbers of processes and followed codes:    *)
(* the episodes of a condition do not overlap, an incident is resolved     *)
(* only when its cause was absent during the observation, and /ready does  *)
(* not vouch for a worker that was gone too long.                          *)
(***************************************************************************)
EXTENDS OperationsMonitor, SequenceTheorems, TLAPS

\* The codes each read of collect_operational_health decides.
DiskCodes     == {"DISK_SPACE_LOW", "DISK_STATUS_UNAVAILABLE", "DATABASE_SIZE_UNAVAILABLE",
                  "DATABASE_SIZE_HIGH"}
DatabaseCodes == {"SCHEMA_MIGRATION_MISMATCH", "WORKER_OFFLINE", "WORKER_STALE"}
IngestCodes   == {"SOURCE_OFFLINE", "SOURCE_STALE", "CHECKPOINT_INVALID", "CHECKPOINT_MISSING",
                  "FRAME_DECODE_FAILURE"}
TableCodes    == {"PROCESSING_QUEUE_LAG", "RECONNECT_STORM", "RESULT_SCHEMA_DEGRADED",
                  "RESULT_SCHEMA_PENDING", "UNKNOWN_SOURCE_HANDLE", "INGEST_RUN_FAILED"}

\* The codes that are decided when the report has got as far as p.
Decided(p) ==
    CASE p = "database"              -> DiskCodes
      [] p \in {"sessions", "ingest"} -> DiskCodes \cup DatabaseCodes
      [] p = "tables"                -> DiskCodes \cup DatabaseCodes \cup IngestCodes
      [] OTHER                       -> Codes

Named(code, alerts) == \E a \in alerts : a.code = code

-----------------------------------------------------------------------------
(* The inductive invariant.                                                *)

\* Nothing is dated in the future, and the heartbeat of a process that is gone
\* is not younger than its end.
ClockInv ==
    /\ report.at <= now /\ beat.at <= now /\ proc.lastUp <= now
    /\ ~proc.up => beat.at <= proc.lastUp

\* A row was resolved before the report that may open the next one was begun.
EpisodeInv ==
    \A c \in Watched : \A i \in DOMAIN incidents[c] :
        /\ incidents[c][i].resolved <= now
        /\ ~At("idle") => incidents[c][i].resolved <= report.at

\* A followed code that is decided is in the monitor's report, or its cause was
\* absent since the report was begun.  What the tables are read with was true
\* when the snapshot was taken.
ObservedInv ==
    ~At("idle") /\ By("monitor") /\ ReconciliationSafe(report.alerts) =>
        /\ \A c \in Watched \cap Decided(report.pc) : c \in absent \/ Named(c, report.alerts)
        /\ At("tables") /\ ~report.pending => {"PROCESSING_QUEUE_LAG"} \cap Watched \subseteq absent
        /\ At("tables") /\ report.age <= LiveMaxAge => {"RESULT_SCHEMA_PENDING"} \cap Watched \subseteq absent

\* Once a report for /ready has read the heartbeat and found nothing critical,
\* the worker is up or has not been gone for too long.
ReadyInv ==
    By("ready") /\ report.pc \in {"sessions", "ingest", "tables", "report"} /\ Ready(report.alerts) =>
        proc.up \/ report.at - proc.lastUp <= OfflineAge

IInv == TypeOK /\ EpisodesDisjoint /\ ClockInv /\ EpisodeInv /\ ObservedInv /\ ReadyInv

-----------------------------------------------------------------------------
(* What the reads say.                                                     *)

\* Every alert is well formed and belongs to the read that raises it.
LEMMA GroupCodes ==
    ASSUME NEW at, NEW seen, NEW age
    PROVE  /\ \A a \in DiskHealth : a \in Alert /\ a.code \in DiskCodes
           /\ \A a \in MigrationHealth \cup WorkerHealth(at) : a \in Alert /\ a.code \in DatabaseCodes
           /\ \A a \in IngestHealth(at) : a \in Alert /\ a.code \in IngestCodes
           /\ \A a \in TableHealth(at, seen, age) : a \in Alert /\ a.code \in TableCodes
<1> USE DEF Graded, AlertIf, Alerting, Alert, Codes, SystemCodes, SessionCodes, Severity
<1>1. \A a \in DiskHealth : a \in Alert /\ a.code \in DiskCodes
  BY DEF DiskHealth, DiskCodes
<1>2. \A a \in MigrationHealth \cup WorkerHealth(at) : a \in Alert /\ a.code \in DatabaseCodes
  BY DEF MigrationHealth, WorkerHealth, DatabaseCodes
<1>3. \A a \in IngestHealth(at) : a \in Alert /\ a.code \in IngestCodes
  <2>1. \A a \in SourceHealth(at) : a \in Alert /\ a.code \in IngestCodes
    BY DEF SourceHealth, IngestCodes
  <2>2. \A a \in CheckpointHealth : a \in Alert /\ a.code \in IngestCodes
    BY DEF CheckpointHealth, IngestCodes
  <2> QED
    BY <2>1, <2>2 DEF IngestHealth, IngestCodes
<1>4. \A a \in TableHealth(at, seen, age) : a \in Alert /\ a.code \in TableCodes
  BY DEF TableHealth, TableCodes
<1> QED
  BY <1>1, <1>2, <1>3, <1>4

\* The groups are disjoint and are all codes.
LEMMA GroupsDisjoint ==
    /\ DiskCodes \cap (DatabaseCodes \cup IngestCodes \cup TableCodes) = {}
    /\ DatabaseCodes \cap (IngestCodes \cup TableCodes) = {}
    /\ IngestCodes \cap TableCodes = {}
    /\ Codes = DiskCodes \cup DatabaseCodes \cup IngestCodes \cup TableCodes
BY DEF DiskCodes, DatabaseCodes, IngestCodes, TableCodes, Codes, SystemCodes, SessionCodes

\* A code is without a cause when the read that decides it raises no alert of it.
LEMMA NoCause ==
    ASSUME NEW at, NEW c
    PROVE  /\ c \in DiskCodes /\ ~Named(c, DiskHealth) => c \notin Causes(at)
           /\ c \in DatabaseCodes /\ ~Named(c, MigrationHealth \cup WorkerHealth(at)) => c \notin Causes(at)
           /\ c \in IngestCodes /\ ~Named(c, IngestHealth(at)) => c \notin Causes(at)
           /\ /\ c \in TableCodes
              /\ ~Named(c, TableHealth(at, session.pending # None, SourceAge(at)))
              => c \notin Causes(at)
           /\ c \in IngestCodes \cup TableCodes /\ ~session.active => c \notin Causes(at)
<1> DEFINE all == DiskHealth \cup MigrationHealth \cup WorkerHealth(at)
                  \cup (IF session.active
                        THEN IngestHealth(at) \cup TableHealth(at, session.pending # None, SourceAge(at))
                        ELSE {})
<1>1. c \in Causes(at) => \E a \in all : a.code = c
  BY DEF Causes
<1>2. /\ \A a \in DiskHealth : a.code \in DiskCodes
      /\ \A a \in MigrationHealth \cup WorkerHealth(at) : a.code \in DatabaseCodes
      /\ \A a \in IngestHealth(at) : a.code \in IngestCodes
      /\ \A a \in TableHealth(at, session.pending # None, SourceAge(at)) : a.code \in TableCodes
  BY GroupCodes
<1> QED
  BY <1>1, <1>2, GroupsDisjoint DEF Named

\* The causes depend on the tables, the heartbeat and the date only.
LEMMA CausesSame ==
    ASSUME NEW at, report'.at = at, UNCHANGED <<facts, beat>>
    PROVE  Causes(report.at)' = Causes(at)
<1>0. storage' = storage /\ session' = session /\ beat' = beat
  BY DEF facts
<1> USE <1>0
<1>1. DiskHealth' = DiskHealth /\ MigrationHealth' = MigrationHealth
  BY DEF DiskHealth, MigrationHealth
<1>2. WorkerHealth(report.at)' = WorkerHealth(at)
  BY DEF WorkerHealth, WorkerOffline
<1>3. SourceAge(report.at)' = SourceAge(at)
  BY DEF SourceAge
<1>4. IngestHealth(report.at)' = IngestHealth(at)
  <2>1. SourceHealth(report.at)' = SourceHealth(at)
    BY <1>3 DEF SourceHealth
  <2>2. CheckpointHealth' = CheckpointHealth
    <3>1. Eligible' = Eligible
      BY DEF Eligible
    <3>2. Scanned' = Scanned
      BY <3>1 DEF Scanned
    <3>3. Restorable' = Restorable
      BY <3>1, <3>2 DEF Restorable
    <3>4. RejectedNewer' = RejectedNewer
      BY <3>2, <3>3 DEF RejectedNewer
    <3> QED
      BY <3>3, <3>4 DEF CheckpointHealth
  <2> QED
    BY <2>1, <2>2 DEF IngestHealth
<1>5. TableHealth(report.at, session.pending # None, SourceAge(report.at))'
        = TableHealth(at, session.pending # None, SourceAge(at))
  BY <1>3 DEF TableHealth, QueueLag, Reconnects
<1> QED
  BY <1>1, <1>2, <1>4, <1>5 DEF Causes

\* What a report keeps of the alerts it is given.
LEMMA KeptAlerts ==
    ASSUME NEW alerts, \A a \in alerts : a \in Alert
    PROVE  /\ Kept(alerts) \subseteq Alert
           /\ \A c \in Watched : Named(c, alerts) => Named(c, Kept(alerts))
           /\ \A code \in Incomplete : Named(code, alerts) => Named(code, Kept(alerts))
           /\ (\E a \in alerts : a.severity = "CRITICAL") => \E a \in Kept(alerts) : a.severity = "CRITICAL"
<1>1. \A a \in alerts : a.code \in Watched \cup Incomplete => a \in Kept(alerts)
  BY DEF Kept
<1>2. Kept(alerts) \subseteq alerts \cup {[code |-> "OTHER", severity |-> "CRITICAL"]}
  BY DEF Kept
<1>3. [code |-> "OTHER", severity |-> "CRITICAL"] \in Alert
  BY DEF Alert, Severity
<1>4. ASSUME NEW a \in alerts, a.severity = "CRITICAL"
      PROVE  [code |-> "OTHER", severity |-> "CRITICAL"] \in Kept(alerts)
  BY <1>4 DEF Kept
<1> QED
  BY <1>1, <1>2, <1>3, <1>4 DEF Named

-----------------------------------------------------------------------------
(* Types.                                                                  *)

\* A session stays well formed when its fields are given values of their types.
LEMMA SessionUpdates ==
    ASSUME NEW s \in Session
    PROVE  /\ \A m, n \in Int : [s EXCEPT !.frame = m, !.pending = n] \in Session
           /\ \A m \in Int, b \in BOOLEAN : [s EXCEPT !.pending = m, !.processed = b] \in Session
           /\ \A m \in Int, b \in BOOLEAN : [s EXCEPT !.pending = m, !.failed = b] \in Session
           /\ \A b \in BOOLEAN, times \in Seq(Nat) : [s EXCEPT !.gap = b, !.gaps = times] \in Session
           /\ \A b \in BOOLEAN : [s EXCEPT !.gap = b] \in Session /\ [s EXCEPT !.active = b] \in Session
           /\ \A m \in Int : [s EXCEPT !.runError = m] \in Session /\ [s EXCEPT !.unknown = m] \in Session
           /\ \A kinds \in Seq(CheckpointKind) : [s EXCEPT !.checkpoints = kinds] \in Session
           /\ \A schema \in {"PENDING", "CURRENT", "DEGRADED"} : [s EXCEPT !.schema = schema] \in Session
BY Zenon DEF Session

\* What the recorder writes is a well-formed session.
LEMMA RecordedType ==
    ASSUME TypeOK, NEW s \in Recorded(session)
    PROVE  s \in Session
<1>0. now \in Nat /\ now \in Int /\ None \in Int /\ session \in Session
  BY OperationsAssumption DEF TypeOK, None
<1>1. CASE s \in {[session EXCEPT !.checkpoints = Append(@, k)] : k \in CheckpointKind}
  <2>1. PICK k \in CheckpointKind : s = [session EXCEPT !.checkpoints = Append(@, k)]
    BY <1>1
  <2>2. Append(session.checkpoints, k) \in Seq(CheckpointKind)
    BY <1>0 DEF Session
  <2> QED
    BY <1>0, <2>1, <2>2, SessionUpdates
<1>2. CASE s \in {[session EXCEPT !.schema = k] : k \in {"CURRENT", "DEGRADED"}}
  BY <1>0, <1>2, SessionUpdates
<1>3. CASE s = [session EXCEPT !.frame = now, !.pending = IF @ = None THEN now ELSE @]
  <2>1. (IF session.pending = None THEN now ELSE session.pending) \in Int
    BY <1>0 DEF Session
  <2> QED
    BY <1>0, <1>3, <2>1, SessionUpdates
<1>4. CASE s = [session EXCEPT !.pending = None, !.processed = @ \/ session.pending # None]
  <2> DEFINE b == session.processed \/ session.pending # None
  <2>1. b \in BOOLEAN
    OBVIOUS
  <2>2. s = [session EXCEPT !.pending = None, !.processed = b]
    BY <1>4
  <2> HIDE DEF b
  <2> QED
    BY <1>0, <2>1, <2>2, SessionUpdates
<1>7. CASE s = [session EXCEPT !.pending = None, !.failed = @ \/ session.pending # None]
  <2> DEFINE b == session.failed \/ session.pending # None
  <2>1. b \in BOOLEAN
    OBVIOUS
  <2>2. s = [session EXCEPT !.pending = None, !.failed = b]
    BY <1>7
  <2> HIDE DEF b
  <2> QED
    BY <1>0, <2>1, <2>2, SessionUpdates
<1>5. CASE s = [session EXCEPT !.gap = TRUE, !.gaps = Append(@, now)]
  <2>1. Append(session.gaps, now) \in Seq(Nat)
    BY <1>0 DEF Session
  <2> QED
    BY <1>0, <1>5, <2>1, SessionUpdates
<1>6. CASE \/ s = [session EXCEPT !.gap = FALSE]
           \/ s = [session EXCEPT !.runError = now]
           \/ s = [session EXCEPT !.unknown = now]
  BY <1>0, <1>6, SessionUpdates
<1> QED
  BY <1>1, <1>2, <1>3, <1>4, <1>5, <1>6, <1>7 DEF Recorded

\* The rows of one code after a reconciliation that finds the alert, or does not.
LEMMA ReconciledRows ==
    ASSUME NEW episodes \in Seq(Episode), NEW severity \in Severity, NEW at \in Nat
    PROVE  /\ SeenAgain(episodes, severity, at) \in Seq(Episode)
           /\ NotSeen(episodes, at) \in Seq(Episode)
<1>1. ASSUME NEW f \in [DOMAIN episodes -> Episode]
      PROVE  f \in Seq(Episode)
  <2>1. DOMAIN episodes = 1..Len(episodes) /\ Len(episodes) \in Nat
    OBVIOUS
  <2> QED
    BY <1>1, <2>1, IsASeq
<1>2. \A i \in DOMAIN episodes : episodes[i] \in Episode
  OBVIOUS
<1>3. NotSeen(episodes, at) \in [DOMAIN episodes -> Episode]
  <2>1. at \in Int
    OBVIOUS
  <2>2. \A e \in Episode : [e EXCEPT !.open = FALSE, !.resolved = at] \in Episode
    BY <2>1 DEF Episode
  <2> QED
    BY <1>2, <2>2 DEF NotSeen
<1>4. [i \in DOMAIN episodes |->
         IF episodes[i].open THEN [episodes[i] EXCEPT !.severity = severity] ELSE episodes[i]]
        \in [DOMAIN episodes -> Episode]
  BY <1>2 DEF Episode
<1>5. [severity |-> severity, open |-> TRUE, opened |-> at, resolved |-> None] \in Episode
  BY DEF Episode, None
<1>6. SeenAgain(episodes, severity, at) \in Seq(Episode)
  BY <1>1, <1>4, <1>5 DEF SeenAgain
<1> QED
  BY <1>1, <1>3, <1>6

LEMMA ReconciledType ==
    ASSUME TypeOK
    PROVE  Reconciled(report.alerts, report.at) \in [Watched -> Seq(Episode)]
<1>0. report.at \in Nat /\ report.alerts \subseteq Alert
  BY DEF TypeOK, Report
<1>1. ASSUME NEW c \in Watched
      PROVE  Reconciled(report.alerts, report.at)[c] \in Seq(Episode)
  <2>0. incidents[c] \in Seq(Episode)
    BY DEF TypeOK
  <2>1. CASE \E a \in report.alerts : a.code = c
    <3> DEFINE a == CHOOSE a \in report.alerts : a.code = c
    <3>1. a \in report.alerts
      BY <2>1
    <3>2. a.severity \in Severity
      BY <1>0, <3>1 DEF Alert
    <3> HIDE DEF a
    <3> QED
      BY <1>0, <2>0, <2>1, <3>2, ReconciledRows DEF Reconciled, a
  <2>2. CASE ~ \E a \in report.alerts : a.code = c
    <3>1. "WARNING" \in Severity
      BY DEF Severity
    <3> QED
      BY <1>0, <2>0, <2>2, <3>1, ReconciledRows DEF Reconciled
  <2> QED
    BY <2>1, <2>2
<1> QED
  BY <1>1 DEF Reconciled

Proc == [up : BOOLEAN, starts : 0..MaxStarts, stop : BOOLEAN, failed : BOOLEAN,
         heart : {"starting", "readying", "beating", "done"}, lastUp : Nat]

\* The fields of the process and of the report that steps change.
LEMMA ProcUpdates ==
    ASSUME NEW p \in Proc
    PROVE  /\ \A n \in 0..MaxStarts : [p EXCEPT !.up = TRUE, !.starts = n, !.stop = FALSE,
                                                !.failed = FALSE, !.heart = "starting"] \in Proc
           /\ \A h \in {"starting", "readying", "beating", "done"} : [p EXCEPT !.heart = h] \in Proc
           /\ [p EXCEPT !.stop = TRUE] \in Proc
           /\ [p EXCEPT !.heart = "done", !.failed = TRUE] \in Proc
           /\ \A t \in Nat : [p EXCEPT !.up = FALSE, !.lastUp = t] \in Proc
BY Zenon DEF Proc

LEMMA ReportUpdates ==
    /\ NoReport \in Report
    /\ \A c \in Collectors, t \in Nat, s \in SUBSET Alert :
         [NoReport EXCEPT !.by = c, !.pc = "database", !.at = t, !.alerts = s] \in Report
    /\ \A r \in Report, p \in {"idle", "database", "sessions", "ingest", "tables", "report"},
          s \in SUBSET Alert : [r EXCEPT !.pc = p, !.alerts = s] \in Report
    /\ \A r \in Report, s \in SUBSET Alert, b \in BOOLEAN, n \in Nat :
         [r EXCEPT !.pc = "tables", !.alerts = s, !.pending = b, !.age = n] \in Report
<1>1. NoReport \in Report
  BY DEF NoReport, Report, Collectors
<1>2. \A c \in Collectors, t \in Nat, s \in SUBSET Alert :
        [NoReport EXCEPT !.by = c, !.pc = "database", !.at = t, !.alerts = s] \in Report
  BY <1>1, Zenon DEF Report
<1>3. \A r \in Report, p \in {"idle", "database", "sessions", "ingest", "tables", "report"},
         s \in SUBSET Alert : [r EXCEPT !.pc = p, !.alerts = s] \in Report
  BY Zenon DEF Report
<1>4. \A r \in Report, s \in SUBSET Alert, b \in BOOLEAN, n \in Nat :
        [r EXCEPT !.pc = "tables", !.alerts = s, !.pending = b, !.age = n] \in Report
  BY Zenon DEF Report
<1> QED
  BY <1>1, <1>2, <1>3, <1>4

LEMMA InitType == Init => TypeOK
<1> SUFFICES ASSUME Init PROVE TypeOK
  OBVIOUS
<1>1. session \in Session
  <2>1. PICK gap \in BOOLEAN :
          session = [active |-> TRUE, started |-> 0, frame |-> None, gap |-> gap,
                     gaps |-> IF gap THEN <<0>> ELSE <<>>, pending |-> None, processed |-> FALSE,
                     failed |-> FALSE, checkpoints |-> <<>>, schema |-> "PENDING",
                     unknown |-> None, runError |-> None]
    BY DEF Init
  <2>2. /\ (IF gap THEN <<0>> ELSE <<>>) \in Seq(Nat) /\ <<>> \in Seq(CheckpointKind)
        /\ None \in Int /\ 0 \in Nat
    BY DEF None
  <2> HIDE DEF None
  <2> QED
    BY <2>1, <2>2, Zenon DEF Session
<1>2. proc \in Proc
  BY OperationsAssumption DEF Init, Proc
<1>3. incidents \in [Watched -> Seq(Episode)]
  BY EmptySeq DEF Init
<1>4. storage \in [disk : Level, size : Level, schema : {"ok", "critical"}] /\ beat \in Beat
  BY DEF Init, Level, Beat
<1>5. now \in 0..MaxTime /\ changes \in 0..MaxChanges /\ absent \subseteq Watched
  BY OperationsAssumption DEF Init
<1>6. report \in Report
  BY ReportUpdates DEF Init
<1> QED
  BY <1>1, <1>2, <1>3, <1>4, <1>5, <1>6 DEF TypeOK, Proc

\* The age of the source is a number of ticks.
LEMMA SourceAgeNat ==
    ASSUME TypeOK PROVE SourceAge(report.at) \in Nat
BY DEF TypeOK, SourceAge, Age, Session, Report

\* Every step keeps the types.
LEMMA TypeStep == TypeOK /\ [Next]_vars => TypeOK'
<1> SUFFICES ASSUME TypeOK, [Next]_vars PROVE TypeOK'
  OBVIOUS
<1>0. /\ now \in 0..MaxTime /\ now \in Nat /\ changes \in 0..MaxChanges
      /\ storage \in [disk : Level, size : Level, schema : {"ok", "critical"}]
      /\ session \in Session /\ proc \in Proc /\ beat \in Beat /\ report \in Report
      /\ incidents \in [Watched -> Seq(Episode)] /\ absent \subseteq Watched
  BY OperationsAssumption DEF TypeOK, Proc
<1>1. CASE UNCHANGED vars
  BY <1>1 DEF TypeOK, vars, tables, facts, worker
<1>2. CASE Next
  <2>1. absent' \subseteq Watched
    BY <1>0, <1>2 DEF Next, Observe
  <2>2. ASSUME UNCHANGED <<now, tables, worker, incidents>>, report' \in Report
        PROVE  TypeOK'
    BY <1>0, <2>1, <2>2 DEF TypeOK, tables, facts, worker, Proc
  <2>3. ASSUME UNCHANGED <<now, facts, worker, incidents>>, report' \in Report,
               changes < MaxChanges, changes' = changes + 1
        PROVE  TypeOK'
    <3>1. changes' \in 0..MaxChanges
      BY <1>0, <2>3, OperationsAssumption
    <3> QED
      BY <1>0, <2>1, <2>3, <3>1 DEF TypeOK, facts, worker, Proc
  <2>4. ASSUME UNCHANGED <<now, facts, incidents>>, changes' \in 0..MaxChanges,
               proc' \in Proc, beat' \in Beat, report' \in Report
        PROVE  TypeOK'
    BY <1>0, <2>1, <2>4 DEF TypeOK, facts, Proc
  <2>5. CASE Tick
    <3>1. now' \in 0..MaxTime
      BY <1>0, <2>5, OperationsAssumption DEF Tick
    <3> QED
      BY <1>0, <2>1, <2>5, <3>1 DEF Tick, TypeOK, tables, facts, worker, Proc
  <2>6. CASE Record
    <3>1. session' \in Session
      BY <2>6, RecordedType DEF Record
    <3>2. changes' \in 0..MaxChanges
      BY <1>0, <2>6, OperationsAssumption DEF Record
    <3> QED
      BY <1>0, <2>1, <2>6, <3>1, <3>2 DEF Record, TypeOK, worker, Proc
  <2>7. CASE CloseSession
    <3>1. session' \in Session
      BY <1>0, <2>7, SessionUpdates DEF CloseSession
    <3> QED
      BY <1>0, <2>1, <2>7, <3>1 DEF CloseSession, TypeOK, worker, Proc
  <2>8. CASE StorageChanges
    <3>1. storage' \in [disk : Level, size : Level, schema : {"ok", "critical"}]
      BY <1>0, <2>8 DEF StorageChanges, Level
    <3>2. changes' \in 0..MaxChanges
      BY <1>0, <2>8, OperationsAssumption DEF StorageChanges
    <3> QED
      BY <1>0, <2>1, <2>8, <3>1, <3>2 DEF StorageChanges, TypeOK, worker, Proc
  <2>9. CASE StartWorker
    <3>1. proc.starts + 1 \in 0..MaxStarts
      BY <1>0, <2>9, OperationsAssumption DEF StartWorker, Proc
    <3>2. proc' \in Proc
      BY <1>0, <2>9, <3>1, ProcUpdates DEF StartWorker
    <3> QED
      BY <1>0, <2>4, <2>9, <3>2 DEF StartWorker, tables
  <2>10. CASE Heartbeat \/ HeartbeatStops \/ StopSignal
    <3>1. proc' \in Proc
      BY <1>0, <2>10, ProcUpdates DEF Heartbeat, HeartbeatStops, StopSignal
    <3>2. beat' \in Beat
      BY <1>0, <2>10 DEF Heartbeat, HeartbeatStops, StopSignal, Written, Beat
    <3> QED
      BY <1>0, <2>4, <2>10, <3>1, <3>2 DEF Heartbeat, HeartbeatStops, StopSignal, tables
  <2>11. CASE HeartbeatFails
    <3>1. proc' \in Proc
      BY <1>0, <2>11, ProcUpdates DEF HeartbeatFails
    <3>2. beat' \in Beat
      BY <1>0, <2>11 DEF HeartbeatFails, Written, Beat
    <3>3. changes' \in 0..MaxChanges
      BY <1>0, <2>11, OperationsAssumption DEF HeartbeatFails
    <3> QED
      BY <1>0, <2>4, <2>11, <3>1, <3>2, <3>3 DEF HeartbeatFails
  <2>12. CASE WorkerExits \/ WorkerKilled
    <3>1. proc' \in Proc
      BY <1>0, <2>12, ProcUpdates DEF WorkerExits, WorkerKilled
    <3>2. report' \in Report
      BY <1>0, <2>12, ReportUpdates DEF WorkerExits, WorkerKilled
    <3> QED
      BY <1>0, <2>4, <2>12, <3>1, <3>2 DEF WorkerExits, WorkerKilled, tables
  <2>13. ASSUME NEW c \in Collectors, CollectStorage(c)
         PROVE  TypeOK'
    <3>1. Kept(DiskHealth) \subseteq Alert
      BY GroupCodes, KeptAlerts
    <3>2. report' \in Report
      BY <1>0, <2>13, <3>1, ReportUpdates DEF CollectStorage
    <3> QED
      BY <2>2, <2>13, <3>2 DEF CollectStorage
  <2>14. ASSUME NEW p \in {"sessions", "ingest", "report"}, NEW alerts,
                \A a \in alerts : a \in Alert, Goto(p, alerts)
         PROVE  report' \in Report
    <3>1. report.alerts \cup Kept(alerts) \in SUBSET Alert
      BY <1>0, <2>14, KeptAlerts DEF Report
    <3> QED
      BY <1>0, <2>14, <3>1, ReportUpdates DEF Goto
  <2>15. CASE CollectDatabase
    <3>1. \A a \in MigrationHealth \cup WorkerHealth(report.at) : a \in Alert
      BY GroupCodes
    <3> QED
      BY <2>2, <2>14, <2>15, <3>1 DEF CollectDatabase
  <2>16. CASE CollectSessions
    BY <2>2, <2>14, <2>16 DEF CollectSessions
  <2>17. CASE CollectIngest
    <3>1. \A a \in IngestHealth(report.at) : a \in Alert
      BY GroupCodes
    <3>2. report.alerts \cup Kept(IngestHealth(report.at)) \in SUBSET Alert
      BY <1>0, <3>1, KeptAlerts DEF Report
    <3>3. SourceAge(report.at) \in Nat /\ (session.pending # None) \in BOOLEAN
      BY SourceAgeNat
    <3>4. report' \in Report
      BY <1>0, <2>17, <3>2, <3>3, ReportUpdates DEF CollectIngest
    <3> QED
      BY <2>2, <2>17, <3>4 DEF CollectIngest
  <2>18. CASE CollectTables
    <3>1. \A a \in TableHealth(report.at, report.pending, report.age) : a \in Alert
      BY GroupCodes
    <3> QED
      BY <2>2, <2>14, <2>18, <3>1 DEF CollectTables
  <2>19. CASE CollectFault
    <3>1. PICK code \in Incomplete : Goto("report", Alerting(code, "CRITICAL"))
      BY <2>19 DEF CollectFault, Incomplete
    <3>2. \A a \in Alerting(code, "CRITICAL") : a \in Alert
      BY DEF Alerting, Alert, Severity
    <3> QED
      BY <2>3, <2>14, <2>19, <3>1, <3>2 DEF CollectFault
  <2>20. CASE Reconcile
    <3>1. incidents' \in [Watched -> Seq(Episode)]
      BY <1>0, <2>20, ReconciledType DEF Reconcile
    <3>2. report' \in Report
      BY <2>20, ReportUpdates DEF Reconcile
    <3> QED
      BY <1>0, <2>1, <2>20, <3>1, <3>2 DEF Reconcile, TypeOK, tables, facts, worker, Proc
  <2>21. CASE ReconcileFault
    BY <2>3, <2>21, ReportUpdates DEF ReconcileFault
  <2>22. CASE Answer
    BY <2>2, <2>22, ReportUpdates DEF Answer
  <2> QED
    BY <1>2, <2>5, <2>6, <2>7, <2>8, <2>9, <2>10, <2>11, <2>12, <2>13, <2>15, <2>16, <2>17, <2>18,
       <2>19, <2>20, <2>21, <2>22
    DEF Next, Step, WorkerStep, ReportStep, Collectors
<1> QED
  BY <1>1, <1>2

-----------------------------------------------------------------------------
(* Clocks and episodes.                                                    *)

\* What a step does to the clock, the report and the incidents.
LEMMA StepShape ==
    ASSUME TypeOK, Next
    PROVE  /\ now' = now \/ now' = now + 1
           /\ Reconcile \/ incidents' = incidents
           /\ \/ report' = report
              \/ report' = NoReport
              \/ ~At("idle") /\ report'.at = report.at /\ report'.by = report.by /\ UNCHANGED now
              \/ At("idle") /\ report'.at = now /\ UNCHANGED now
<1>0. report \in Report
  BY DEF TypeOK
<1>1. CASE Tick \/ Record \/ CloseSession \/ StorageChanges
  BY <1>1 DEF Tick, Record, CloseSession, StorageChanges
<1>2. CASE StartWorker \/ StopSignal \/ WorkerStep \/ HeartbeatFails \/ WorkerKilled
  BY <1>2 DEF StartWorker, StopSignal, WorkerStep, HeartbeatFails, WorkerKilled, Heartbeat,
              HeartbeatStops, WorkerExits
<1>3. CASE CollectStorage("monitor") \/ CollectStorage("ready")
  <2>1. report'.at = now
    BY <1>3 DEF CollectStorage, NoReport
  <2> QED
    BY <1>3, <2>1 DEF CollectStorage
<1>4. CASE CollectDatabase \/ CollectSessions \/ CollectIngest \/ CollectTables \/ CollectFault
  <2>1. ~At("idle") /\ UNCHANGED <<now, incidents>>
    BY <1>4 DEF CollectDatabase, CollectSessions, CollectIngest, CollectTables, CollectFault, At
  <2>2. report'.at = report.at /\ report'.by = report.by
    BY <1>0, <1>4 DEF CollectDatabase, CollectSessions, CollectIngest, CollectTables, CollectFault,
                      Goto, Report
  <2> QED
    BY <2>1, <2>2
<1>5. CASE Reconcile \/ Answer \/ ReconcileFault
  BY <1>5 DEF Reconcile, Answer, ReconcileFault
<1> QED
  BY <1>1, <1>2, <1>3, <1>4, <1>5 DEF Next, Step, ReportStep

LEMMA ClockStep ==
    ASSUME TypeOK, ClockInv, [Next]_vars
    PROVE  ClockInv'
<1>0. /\ now \in Nat /\ report.at \in Nat /\ beat.at \in Nat /\ proc.lastUp \in Nat
      /\ proc \in Proc /\ beat \in Beat
  BY OperationsAssumption DEF TypeOK, Report, Beat, Proc
<1>1. CASE UNCHANGED vars
  BY <1>1 DEF ClockInv, vars, worker
<1>2. CASE Next
  <2>1. report'.at <= now' /\ now <= now' /\ now' \in Nat
    BY <1>0, <1>2, StepShape DEF ClockInv, NoReport
  <2>2. CASE UNCHANGED worker
    BY <1>0, <2>1, <2>2 DEF ClockInv, worker
  <2>3. CASE StartWorker \/ StopSignal
    BY <1>0, <2>1, <2>3 DEF ClockInv, StartWorker, StopSignal, Proc
  <2>4. CASE Heartbeat \/ HeartbeatStops \/ HeartbeatFails
    <3>1. beat'.at \in {beat.at, now}
      BY <2>4 DEF Heartbeat, HeartbeatStops, HeartbeatFails, Written
    <3>2. proc'.up /\ proc'.lastUp = proc.lastUp
      BY <1>0, <2>4 DEF Heartbeat, HeartbeatStops, HeartbeatFails, Proc
    <3> QED
      BY <1>0, <2>1, <3>1, <3>2 DEF ClockInv
  <2>5. CASE WorkerExits \/ WorkerKilled
    <3>1. proc'.lastUp = now /\ beat' = beat
      BY <1>0, <2>5 DEF WorkerExits, WorkerKilled, Proc
    <3> QED
      BY <1>0, <2>1, <3>1 DEF ClockInv
  <2> QED
    BY <1>2, <2>2, <2>3, <2>4, <2>5
    DEF Next, Step, WorkerStep, ReportStep, Tick, Record, CloseSession, StorageChanges, CollectStorage,
        CollectDatabase, CollectSessions, CollectIngest, CollectTables, CollectFault, Reconcile,
        ReconcileFault, Answer
<1> QED
  BY <1>1, <1>2

\* One code's rows, reconciled by a report that is younger than their resolutions.
RowsDisjoint(rows) ==
    \A i, j \in DOMAIN rows : i < j => ~rows[i].open /\ rows[i].resolved <= rows[j].opened

LEMMA RowsReconciled ==
    ASSUME NEW rows \in Seq(Episode), NEW severity, NEW at \in Nat,
           RowsDisjoint(rows), \A i \in DOMAIN rows : rows[i].resolved <= at,
           NEW new \in {SeenAgain(rows, severity, at), NotSeen(rows, at)}
    PROVE  RowsDisjoint(new) /\ \A i \in DOMAIN new : new[i].resolved <= at
<1>0. /\ DOMAIN rows = 1..Len(rows) /\ Len(rows) \in Nat
      /\ \A i \in DOMAIN rows : rows[i] \in Episode
  OBVIOUS
<1>1. CASE new = NotSeen(rows, at)
  <2>1. DOMAIN new = DOMAIN rows
    BY <1>1 DEF NotSeen
  <2>2. ASSUME NEW i \in DOMAIN rows
        PROVE  /\ ~new[i].open /\ new[i].opened = rows[i].opened
               /\ new[i].resolved = (IF rows[i].open THEN at ELSE rows[i].resolved)
    BY <1>0, <1>1 DEF NotSeen, Episode
  <2> QED
    BY <1>0, <2>1, <2>2 DEF RowsDisjoint
<1>2. CASE new = SeenAgain(rows, severity, at) /\ OpenRows(rows) = {}
  <2> DEFINE row == [severity |-> severity, open |-> TRUE, opened |-> at, resolved |-> None]
  <2>1. new = Append(rows, row)
    BY <1>2 DEF SeenAgain
  <2>2. /\ DOMAIN new = 1..(Len(rows) + 1) /\ new[Len(rows) + 1] = row
        /\ \A i \in DOMAIN rows : new[i] = rows[i]
    BY <1>0, <2>1
  <2>3. \A i \in DOMAIN rows : ~rows[i].open
    BY <1>2 DEF OpenRows
  <2>4. ASSUME NEW i \in DOMAIN new
        PROVE  i \in DOMAIN rows \/ i = Len(rows) + 1
    BY <1>0, <2>2
  <2>5. row.opened = at /\ row.resolved = -1
    BY DEF None
  <2> HIDE DEF row
  <2> QED
    BY <1>0, <2>2, <2>3, <2>4, <2>5 DEF RowsDisjoint
<1>3. CASE new = SeenAgain(rows, severity, at) /\ OpenRows(rows) # {}
  <2>1. DOMAIN new = DOMAIN rows
    BY <1>3 DEF SeenAgain
  <2>2. ASSUME NEW i \in DOMAIN rows
        PROVE  /\ new[i].open = rows[i].open /\ new[i].opened = rows[i].opened
               /\ new[i].resolved = rows[i].resolved
    BY <1>0, <1>3 DEF SeenAgain, Episode
  <2> QED
    BY <1>0, <2>1, <2>2 DEF RowsDisjoint
<1> QED
  BY <1>1, <1>2, <1>3

\* Episodes stay apart.
LEMMA EpisodeStep ==
    ASSUME TypeOK, ClockInv, EpisodesDisjoint, EpisodeInv, [Next]_vars
    PROVE  EpisodesDisjoint' /\ EpisodeInv'
<1>0. /\ now \in Nat /\ report.at \in Nat /\ incidents \in [Watched -> Seq(Episode)]
  BY OperationsAssumption DEF TypeOK, Report
<1>1. CASE UNCHANGED vars
  BY <1>1 DEF EpisodesDisjoint, EpisodeInv, vars, At
<1>2. CASE Next /\ incidents' = incidents
  <2>1. EpisodesDisjoint'
    BY <1>2 DEF EpisodesDisjoint
  <2>2. ASSUME NEW c \in Watched, NEW i \in DOMAIN incidents[c]
        PROVE  /\ incidents[c][i].resolved <= now'
               /\ report'.pc # "idle" => incidents[c][i].resolved <= report'.at
    <3>1. incidents[c][i].resolved \in Int
      <4>1. incidents[c] \in Seq(Episode)
        BY <1>0
      <4>2. incidents[c][i] \in Episode
        BY <4>1
      <4> QED
        BY <4>2 DEF Episode
    <3> QED
      BY <1>0, <1>2, <3>1, StepShape DEF EpisodeInv, NoReport, At
  <2> QED
    BY <1>2, <2>1, <2>2 DEF EpisodeInv, At
<1>3. CASE Next /\ Reconcile /\ incidents' # incidents
  <2>1. /\ incidents' = Reconciled(report.alerts, report.at) /\ report'.pc = "idle" /\ now' = now
        /\ report.pc = "report"
    BY <1>3 DEF Reconcile, NoReport, At
  <2>2. ASSUME NEW c \in Watched
        PROVE  RowsDisjoint(incidents'[c]) /\ \A i \in DOMAIN incidents'[c] : incidents'[c][i].resolved <= report.at
    <3>1. RowsDisjoint(incidents[c]) /\ \A i \in DOMAIN incidents[c] : incidents[c][i].resolved <= report.at
      BY <2>1 DEF EpisodesDisjoint, EpisodeInv, RowsDisjoint, At
    <3>2. \E s : incidents'[c] \in {SeenAgain(incidents[c], s, report.at), NotSeen(incidents[c], report.at)}
      BY <2>1 DEF Reconciled
    <3> QED
      BY <1>0, <3>1, <3>2, RowsReconciled
  <2>3. EpisodesDisjoint'
    BY <2>2 DEF EpisodesDisjoint, RowsDisjoint
  <2>4. incidents' \in [Watched -> Seq(Episode)]
    BY <2>1, ReconciledType
  <2>5. ASSUME NEW c \in Watched, NEW i \in DOMAIN incidents'[c]
        PROVE  incidents'[c][i].resolved <= now'
    <3>1. incidents'[c][i].resolved \in Int
      <4>1. incidents'[c] \in Seq(Episode)
        BY <2>4
      <4>2. incidents'[c][i] \in Episode
        BY <4>1
      <4> QED
        BY <4>2 DEF Episode
    <3> QED
      BY <1>0, <2>1, <2>2, <3>1 DEF ClockInv
  <2> QED
    BY <2>1, <2>3, <2>5 DEF EpisodeInv, At
<1> QED
  BY <1>1, <1>2, <1>3, StepShape

-----------------------------------------------------------------------------
(* What a report tells of the causes.                                      *)

\* While the monitor observes, what is noted as absent stays so, and what has no
\* cause after the step is added.
LEMMA AbsentGrows ==
    ASSUME Next, report'.pc # "idle", report'.by = "monitor"
    PROVE  (~At("idle") => absent \subseteq absent') /\ Watched \ Causes(report.at)' \subseteq absent'
BY DEF Next, Observe

LEMMA DecidedCodes ==
    /\ Decided("database") = DiskCodes
    /\ Decided("sessions") = DiskCodes \cup DatabaseCodes
    /\ Decided("ingest") = DiskCodes \cup DatabaseCodes
    /\ Decided("tables") = DiskCodes \cup DatabaseCodes \cup IngestCodes
    /\ Decided("report") = Codes
BY DEF Decided

\* One read: the codes decided before and those of a group G of alerts.
LEMMA ReadStep ==
    ASSUME TypeOK, ObservedInv, Next, UNCHANGED <<facts, beat>>,
           ~At("idle"), By("monitor"), report'.pc # "idle", report'.at = report.at, report'.by = report.by,
           ReconciliationSafe(report'.alerts),
           NEW alerts, report'.alerts = report.alerts \cup Kept(alerts), \A a \in alerts : a \in Alert,
           NEW codes, Decided(report'.pc) \cap Watched \subseteq Decided(report.pc) \cup codes,
           \A c \in codes : Named(c, alerts) \/ c \notin Causes(report.at) \/ c \in absent
    PROVE  /\ \A c \in Watched \cap Decided(report'.pc) : c \in absent' \/ Named(c, report'.alerts)
           /\ absent \subseteq absent' /\ Watched \ Causes(report.at) \subseteq absent'
<1>1. Causes(report.at)' = Causes(report.at)
  BY CausesSame
<1>2. absent \subseteq absent' /\ Watched \ Causes(report.at) \subseteq absent'
  BY <1>1, AbsentGrows DEF By
<1>3. ReconciliationSafe(report.alerts)
  BY DEF ReconciliationSafe
<1>4. ASSUME NEW c \in Watched, c \in Decided(report.pc)
      PROVE  c \in absent' \/ Named(c, report'.alerts)
  BY <1>2, <1>3, <1>4 DEF ObservedInv, Named
<1>5. ASSUME NEW c \in Watched, c \in codes
      PROVE  c \in absent' \/ Named(c, report'.alerts)
  <2>1. Named(c, alerts) => Named(c, Kept(alerts))
    BY KeptAlerts
  <2> QED
    BY <1>2, <1>5, <2>1 DEF Named
<1> QED
  BY <1>2, <1>4, <1>5

LEMMA ObservedStep ==
    ASSUME TypeOK, ObservedInv, [Next]_vars
    PROVE  ObservedInv'
<1>0. report \in Report
  BY DEF TypeOK
<1>1. CASE UNCHANGED vars
  BY <1>1 DEF ObservedInv, vars, At, By
<1>2. CASE Next
  <2> SUFFICES ASSUME report'.pc # "idle", report'.by = "monitor", ReconciliationSafe(report'.alerts)
               PROVE  /\ \A c \in Watched \cap Decided(report'.pc) : c \in absent' \/ Named(c, report'.alerts)
                      /\ report'.pc = "tables" /\ ~report'.pending =>
                           {"PROCESSING_QUEUE_LAG"} \cap Watched \subseteq absent'
                      /\ report'.pc = "tables" /\ report'.age <= LiveMaxAge =>
                           {"RESULT_SCHEMA_PENDING"} \cap Watched \subseteq absent'
    BY DEF ObservedInv, At, By
  <2>1. CASE report' = report
    <3>1. absent \subseteq absent'
      BY <1>2, <2>1, AbsentGrows DEF At
    <3> QED
      BY <2>1, <3>1 DEF ObservedInv, At, By
  <2>2. CASE CollectStorage("monitor") \/ CollectStorage("ready")
    <3>1. /\ report'.pc = "database" /\ report'.at = now /\ report'.alerts = Kept(DiskHealth)
          /\ UNCHANGED <<facts, beat>>
      BY <2>2 DEF CollectStorage, NoReport, tables, facts, worker
    <3>2. Causes(report.at)' = Causes(now)
      BY <3>1, CausesSame
    <3>3. Watched \ Causes(now) \subseteq absent'
      BY <1>2, <3>2, AbsentGrows
    <3>4. ASSUME NEW c \in Watched, c \in DiskCodes
          PROVE  c \in absent' \/ Named(c, Kept(DiskHealth))
      <4>1. CASE Named(c, DiskHealth)
        BY <4>1, GroupCodes, KeptAlerts
      <4>2. CASE ~Named(c, DiskHealth)
        BY <3>3, <3>4, <4>2, NoCause
      <4> QED
        BY <4>1, <4>2
    <3> QED
      BY <3>1, <3>4, DecidedCodes
  <2>3. CASE CollectDatabase
    <3> DEFINE G == MigrationHealth \cup WorkerHealth(report.at)
    <3>1. /\ report'.pc = "sessions" /\ report'.alerts = report.alerts \cup Kept(G) /\ report.pc = "database"
          /\ report'.at = report.at /\ report'.by = report.by /\ UNCHANGED <<facts, beat>>
      BY <1>0, <2>3 DEF CollectDatabase, Goto, Report, tables, facts, worker, At
    <3>2. \A a \in G : a \in Alert
      BY GroupCodes
    <3>3. \A c \in DatabaseCodes : Named(c, G) \/ c \notin Causes(report.at) \/ c \in absent
      BY NoCause
    <3>4. Decided("sessions") \subseteq Decided("database") \cup DatabaseCodes
      BY DecidedCodes
    <3> HIDE DEF G
    <3> QED
      BY <1>2, <3>1, <3>2, <3>3, <3>4, ReadStep DEF At, By
  <2>4. CASE CollectSessions
    <3>1. /\ report'.pc = (IF session.active THEN "ingest" ELSE "report")
          /\ report'.alerts = report.alerts \cup Kept({}) /\ report.pc = "sessions"
          /\ report'.at = report.at /\ report'.by = report.by /\ UNCHANGED <<facts, beat>>
      BY <1>0, <2>4 DEF CollectSessions, Goto, Report, tables, facts, worker, At
    <3> DEFINE none == {}
    <3>4. report'.alerts = report.alerts \cup Kept(none) /\ \A a \in none : a \in Alert
      BY <3>1
    <3>5. \A c \in none : Named(c, none) \/ c \notin Causes(report.at) \/ c \in absent
      OBVIOUS
    <3> HIDE DEF none
    <3>2. CASE session.active
      <4>1. Decided("ingest") \cap Watched \subseteq Decided("sessions") \cup none
        BY DecidedCodes
      <4> QED
        BY <1>2, <3>1, <3>2, <3>4, <3>5, <4>1, ReadStep DEF At, By
    <3>3. CASE ~session.active
      <4>1. \A c \in IngestCodes \cup TableCodes : c \notin Causes(report.at)
        BY <3>3, NoCause
      <4>2. Decided("report") \subseteq Decided("sessions") \cup (IngestCodes \cup TableCodes)
        BY DecidedCodes, GroupsDisjoint
      <4> QED
        BY <1>2, <3>1, <3>3, <3>4, <4>1, <4>2, ReadStep DEF At, By
    <3> QED
      BY <3>2, <3>3
  <2>5. CASE CollectIngest
    <3> DEFINE G == IngestHealth(report.at)
    <3>1. /\ report'.pc = "tables" /\ report'.alerts = report.alerts \cup Kept(G) /\ report.pc = "ingest"
          /\ report'.at = report.at /\ report'.by = report.by /\ UNCHANGED <<facts, beat>>
          /\ report'.pending = (session.pending # None) /\ report'.age = SourceAge(report.at)
      BY <1>0, <2>5 DEF CollectIngest, Report, tables, facts, worker, At
    <3>2. \A a \in G : a \in Alert
      BY GroupCodes
    <3>3. \A c \in IngestCodes : Named(c, G) \/ c \notin Causes(report.at) \/ c \in absent
      BY NoCause
    <3>4. Decided("tables") \subseteq Decided("ingest") \cup IngestCodes
      BY DecidedCodes
    <3> HIDE DEF G
    <3>5. /\ \A c \in Watched \cap Decided("tables") : c \in absent' \/ Named(c, report'.alerts)
          /\ Watched \ Causes(report.at) \subseteq absent'
      BY <1>2, <3>1, <3>2, <3>3, <3>4, ReadStep DEF At, By
    <3>6. ASSUME ~(session.pending # None)
          PROVE  "PROCESSING_QUEUE_LAG" \notin Causes(report.at)
      <4>1. ~Named("PROCESSING_QUEUE_LAG", TableHealth(report.at, session.pending # None, SourceAge(report.at)))
        BY <3>6 DEF Named, TableHealth, Graded, AlertIf, Alerting
      <4> QED
        BY <4>1, NoCause DEF TableCodes
    <3>7. ASSUME SourceAge(report.at) <= LiveMaxAge
          PROVE  "RESULT_SCHEMA_PENDING" \notin Causes(report.at)
      <4>0. ~(SourceAge(report.at) > LiveMaxAge)
        BY <3>7, SourceAgeNat, OperationsAssumption
      <4>1. ~Named("RESULT_SCHEMA_PENDING", TableHealth(report.at, session.pending # None, SourceAge(report.at)))
        BY <4>0 DEF Named, TableHealth, Graded, AlertIf, Alerting
      <4> QED
        BY <4>1, NoCause DEF TableCodes
    <3> QED
      BY <3>1, <3>5, <3>6, <3>7
  <2>6. CASE CollectTables
    <3> DEFINE G == TableHealth(report.at, report.pending, report.age)
               T == TableHealth(report.at, session.pending # None, SourceAge(report.at))
    <3>1. /\ report'.pc = "report" /\ report'.alerts = report.alerts \cup Kept(G) /\ report.pc = "tables"
          /\ report'.at = report.at /\ report'.by = report.by /\ UNCHANGED <<facts, beat>>
      BY <1>0, <2>6 DEF CollectTables, Goto, Report, tables, facts, worker, At
    <3>2. \A a \in G : a \in Alert
      BY GroupCodes
    <3>3. ASSUME NEW c \in TableCodes, c \in Watched, ~Named(c, G), c \notin absent
          PROVE  ~Named(c, T)
      <4>1. ReconciliationSafe(report.alerts)
        BY <3>1 DEF ReconciliationSafe
      <4>2. CASE c = "PROCESSING_QUEUE_LAG"
        <5>1. report.pending
          BY <3>1, <3>3, <4>1, <4>2 DEF ObservedInv, At, By
        <5>2. ~(QueueLag(report.at) > OfflineAge) /\ ~(QueueLag(report.at) > LiveMaxAge)
          <6>1. QueueLag(report.at) > OfflineAge => [code |-> c, severity |-> "CRITICAL"] \in G
            BY <4>2, <5>1 DEF TableHealth, Graded, AlertIf, Alerting
          <6>2. QueueLag(report.at) > LiveMaxAge /\ ~(QueueLag(report.at) > OfflineAge) =>
                  [code |-> c, severity |-> "WARNING"] \in G
            BY <4>2, <5>1 DEF TableHealth, Graded, AlertIf, Alerting
          <6> QED
            BY <3>3, <6>1, <6>2 DEF Named
        <5> QED
          BY <4>2, <5>2 DEF Named, TableHealth, Graded, AlertIf, Alerting
      <4>3. CASE c = "RESULT_SCHEMA_PENDING"
        <5>1. ~(report.age <= LiveMaxAge)
          BY <3>1, <3>3, <4>1, <4>3 DEF ObservedInv, At, By
        <5>2. report.age > LiveMaxAge
          BY <1>0, <5>1, OperationsAssumption DEF Report
        <5>3. session.schema # "PENDING"
          <6>1. session.schema = "PENDING" => [code |-> c, severity |-> "WARNING"] \in G
            BY <4>3, <5>2 DEF TableHealth, AlertIf, Alerting
          <6> QED
            BY <3>3, <6>1 DEF Named
        <5> QED
          BY <4>3, <5>3 DEF Named, TableHealth, Graded, AlertIf, Alerting
      <4>4. CASE c \notin {"PROCESSING_QUEUE_LAG", "RESULT_SCHEMA_PENDING"}
        BY <3>3, <4>4 DEF Named, TableHealth, Graded, AlertIf, Alerting
      <4> QED
        BY <4>2, <4>3, <4>4
    <3>4. \A c \in TableCodes \cap Watched : Named(c, G) \/ c \notin Causes(report.at) \/ c \in absent
      BY <3>3, NoCause
    <3>5. /\ report.pc = "tables" => Decided("report") \cap Watched \subseteq Decided("tables") \cup (TableCodes \cap Watched)
      BY DecidedCodes, GroupsDisjoint
    <3> HIDE DEF G, T
    <3> QED
      BY <1>2, <3>1, <3>2, <3>4, <3>5, ReadStep DEF At, By
  <2>7. CASE CollectFault
    <3>1. PICK code \in Incomplete : Goto("report", Alerting(code, "CRITICAL"))
      BY <2>7 DEF CollectFault, Incomplete
    <3>2. Kept(Alerting(code, "CRITICAL")) \subseteq report'.alerts
      BY <1>0, <3>1 DEF Goto, Report
    <3>3. Named(code, Kept(Alerting(code, "CRITICAL")))
      <4>1. \A a \in Alerting(code, "CRITICAL") : a \in Alert
        BY DEF Alerting, Alert, Severity
      <4>2. Named(code, Alerting(code, "CRITICAL"))
        BY DEF Alerting, Named
      <4> QED
        BY <4>1, <4>2, KeptAlerts
    <3> QED
      BY <3>2, <3>3 DEF Named, ReconciliationSafe
  <2>8. CASE report' = NoReport
    BY <2>8 DEF NoReport
  <2> QED
    BY <1>2, <2>1, <2>2, <2>3, <2>4, <2>5, <2>6, <2>7, <2>8
    DEF Next, Step, WorkerStep, ReportStep, Tick, Record, CloseSession, StorageChanges, StartWorker,
        StopSignal, Heartbeat, HeartbeatStops, HeartbeatFails, WorkerExits, WorkerKilled, Reconcile,
        ReconcileFault, Answer
<1> QED
  BY <1>1, <1>2

-----------------------------------------------------------------------------
(* What /ready vouches for.                                                *)

\* How the process changes: it stays as it is, is up afterwards, or has just ended.
LEMMA ProcShape ==
    ASSUME TypeOK, Next
    PROVE  \/ UNCHANGED <<proc, beat>>
           \/ proc'.up /\ report' = report
           \/ proc'.lastUp = now /\ report' \in {report, NoReport}
<1>0. proc \in Proc
  BY DEF TypeOK, Proc
<1>1. CASE StartWorker \/ StopSignal \/ Heartbeat \/ HeartbeatStops \/ HeartbeatFails
  <2>1. proc'.up
    BY <1>0, <1>1 DEF StartWorker, StopSignal, Heartbeat, HeartbeatStops, HeartbeatFails, Proc
  <2> QED
    BY <1>1, <2>1 DEF StartWorker, StopSignal, Heartbeat, HeartbeatStops, HeartbeatFails
<1>2. CASE WorkerExits \/ WorkerKilled
  <2>1. proc'.lastUp = now
    BY <1>0, <1>2 DEF WorkerExits, WorkerKilled, Proc
  <2> QED
    BY <1>2, <2>1 DEF WorkerExits, WorkerKilled
<1> QED
  BY <1>1, <1>2
  DEF Next, Step, WorkerStep, ReportStep, Tick, Record, CloseSession, StorageChanges, CollectStorage,
      CollectDatabase, CollectSessions, CollectIngest, CollectTables, CollectFault, Reconcile,
      ReconcileFault, Answer, worker

LEMMA ReadyStep ==
    ASSUME TypeOK, ClockInv, ReadyInv, [Next]_vars
    PROVE  ReadyInv'
<1>0. /\ report \in Report /\ report.at \in Nat /\ beat.at \in Nat /\ proc.lastUp \in Nat
      /\ now \in Nat /\ OfflineAge \in Nat
  BY OperationsAssumption DEF TypeOK, Report, Beat
<1>1. CASE UNCHANGED vars
  BY <1>1 DEF ReadyInv, vars, worker, By
<1>2. CASE Next
  <2> SUFFICES ASSUME report'.by = "ready", report'.pc \in {"sessions", "ingest", "tables", "report"},
                      Ready(report'.alerts)
               PROVE  proc'.up \/ report'.at - proc'.lastUp <= OfflineAge
    BY DEF ReadyInv, By
  <2>1. CASE report' = report
    <3>1. CASE proc'.lastUp = now
      BY <1>0, <2>1, <3>1 DEF ClockInv
    <3>2. CASE UNCHANGED proc
      BY <2>1, <3>2 DEF ReadyInv, By
    <3> QED
      BY <1>2, <3>1, <3>2, ProcShape
  <2>2. CASE report' = NoReport
    BY <2>2 DEF NoReport
  <2>3. CASE CollectStorage("monitor") \/ CollectStorage("ready")
    BY <2>3 DEF CollectStorage, NoReport
  <2>4. CASE CollectDatabase
    <3> DEFINE G == MigrationHealth \cup WorkerHealth(report.at)
    <3>1. Kept(G) \subseteq report'.alerts /\ report'.at = report.at /\ UNCHANGED proc
      BY <1>0, <2>4 DEF CollectDatabase, Goto, Report, worker
    <3>2. \A a \in G : a \in Alert
      BY GroupCodes
    <3>3. ~WorkerOffline(report.at)
      <4>1. WorkerOffline(report.at) => \E a \in G : a.severity = "CRITICAL"
        <5>1. WorkerOffline(report.at) => [code |-> "WORKER_OFFLINE", severity |-> "CRITICAL"] \in G
          BY DEF WorkerHealth, AlertIf, Alerting
        <5> QED
          BY <5>1
      <4> HIDE DEF G
      <4>2. WorkerOffline(report.at) => \E a \in Kept(G) : a.severity = "CRITICAL"
        BY <3>2, <4>1, KeptAlerts
      <4> QED
        BY <3>1, <4>2 DEF Ready
    <3>4. report.at - beat.at <= OfflineAge
      BY <1>0, <3>3 DEF WorkerOffline, Age
    <3> QED
      BY <1>0, <3>1, <3>4 DEF ClockInv
  <2>5. CASE CollectSessions \/ CollectIngest \/ CollectTables \/ CollectFault
    <3>1. /\ report'.at = report.at /\ report'.by = report.by /\ report.alerts \subseteq report'.alerts
          /\ UNCHANGED proc
      <4>1. UNCHANGED proc
        BY <2>5 DEF CollectSessions, CollectIngest, CollectTables, CollectFault, worker
      <4>2. CASE CollectIngest
        BY <1>0, <4>1, <4>2 DEF CollectIngest, Report
      <4>3. CASE CollectSessions \/ CollectTables \/ CollectFault
        <5>1. \E p, alerts : Goto(p, alerts)
          BY <4>3 DEF CollectSessions, CollectTables, CollectFault
        <5> QED
          BY <1>0, <4>1, <5>1 DEF Goto, Report
      <4> QED
        BY <2>5, <4>2, <4>3
    <3>2. CASE report.pc \in {"sessions", "ingest", "tables", "report"}
      BY <3>1, <3>2 DEF ReadyInv, Ready, By
    <3>3. CASE CollectFault /\ report.pc = "database"
      <4>1. PICK code \in Incomplete : Goto("report", Alerting(code, "CRITICAL"))
        BY <3>3 DEF CollectFault, Incomplete
      <4>2. Kept(Alerting(code, "CRITICAL")) \subseteq report'.alerts
        BY <1>0, <4>1 DEF Goto, Report
      <4>3. [code |-> code, severity |-> "CRITICAL"] \in Kept(Alerting(code, "CRITICAL"))
        BY DEF Alerting, Kept
      <4> QED
        BY <4>2, <4>3 DEF Ready
    <3> QED
      BY <1>0, <2>5, <3>2, <3>3 DEF CollectSessions, CollectIngest, CollectTables, CollectFault, At, Report
  <2> QED
    BY <1>2, <2>1, <2>2, <2>3, <2>4, <2>5
    DEF Next, Step, WorkerStep, ReportStep, Tick, Record, CloseSession, StorageChanges, StartWorker,
        StopSignal, Heartbeat, HeartbeatStops, HeartbeatFails, WorkerExits, WorkerKilled, Reconcile,
        ReconcileFault, Answer
<1> QED
  BY <1>1, <1>2

-----------------------------------------------------------------------------

LEMMA InitInvariant == Init => IInv
<1> SUFFICES ASSUME Init PROVE IInv
  OBVIOUS
<1>1. TypeOK
  BY InitType
<1>2. EpisodesDisjoint /\ EpisodeInv
  BY DEF Init, EpisodesDisjoint, EpisodeInv
<1>3. ClockInv /\ ObservedInv /\ ReadyInv
  BY DEF Init, NoReport, ClockInv, ObservedInv, ReadyInv, At
<1> QED
  BY <1>1, <1>2, <1>3 DEF IInv

LEMMA StepInvariant == IInv /\ [Next]_vars => IInv'
BY TypeStep, ClockStep, EpisodeStep, ObservedStep, ReadyStep DEF IInv

\* The inductive invariant holds of every behaviour of the worker, the monitor and /ready.
THEOREM Invariance == Spec => []IInv
BY InitInvariant, StepInvariant, PTL DEF Spec

\* At any time the tables, the process and the report are well typed and no two
\* episodes of one condition overlap: reconcile_operational_incidents leaves at
\* most one open row per code, opened when the earlier ones had been resolved.
THEOREM IncidentsTheorem == Spec => []IncidentsConsistent
<1>1. IInv => IncidentsConsistent
  BY DEF IInv, IncidentsConsistent
<1> QED
  BY <1>1, Invariance, PTL

\* The monitor resolves an incident only with a complete report, and only when
\* its cause was absent at some moment since that report was begun, although
\* every read of collect_operational_health is made at a time of its own.
THEOREM ResolvedTheorem == Spec => ResolvedWhenAbsent
<1>1. ASSUME IInv, [Next]_vars, NEW c \in Watched, Open(c), OpenRows(incidents'[c]) = {}
      PROVE  c \in absent
  <2>1. incidents' # incidents
    BY <1>1 DEF Open
  <2>2. Reconcile
    BY <1>1, <2>1, StepShape DEF IInv, vars
  <2>3. /\ report.pc = "report" /\ report.by = "monitor" /\ ReconciliationSafe(report.alerts)
        /\ incidents' = Reconciled(report.alerts, report.at)
    BY <2>1, <2>2 DEF Reconcile, At, By
  <2>4. c \in Decided("report")
    BY OperationsAssumption, DecidedCodes
  <2>5. c \in absent \/ Named(c, report.alerts)
    BY <1>1, <2>3, <2>4 DEF IInv, ObservedInv, At, By
  <2>6. ASSUME Named(c, report.alerts)
        PROVE  FALSE
    <3> DEFINE s == (CHOOSE a \in report.alerts : a.code = c).severity
               rows == incidents[c]
    <3>1. incidents'[c] = SeenAgain(rows, s, report.at)
      BY <2>3, <2>6 DEF Reconciled, Named
    <3>2. PICK i \in DOMAIN rows : rows[i].open
      BY <1>1 DEF Open, OpenRows
    <3>3. rows[i] \in Episode
      <4>1. rows \in Seq(Episode)
        BY <1>1 DEF IInv, TypeOK
      <4> QED
        BY <4>1
    <3>4. OpenRows(rows) # {}
      BY <3>2 DEF OpenRows
    <3> HIDE DEF s, rows
    <3>5. i \in DOMAIN incidents'[c] /\ incidents'[c][i].open
      BY <3>1, <3>2, <3>3, <3>4 DEF SeenAgain, Episode
    <3> QED
      BY <1>1, <3>5 DEF OpenRows
  <2> QED
    BY <2>5, <2>6
<1>2. IInv /\ [Next]_vars =>
        [\A c \in Watched : Open(c) /\ OpenRows(incidents'[c]) = {} => c \in absent]_vars
  BY <1>1
<1> QED
  BY <1>2, Invariance, PTL DEF Spec, ResolvedWhenAbsent

\* A /ready that answers 200 found a heartbeat no older than OfflineAge, so the
\* worker is up or had ended at most that long before the report was begun.
THEOREM ReadyTheorem == Spec => ReadyMeansAlive
<1>1. IInv /\ [Next]_vars =>
        [At("report") /\ By("ready") /\ report'.pc = "idle" /\ Ready(report.alerts) =>
           proc.up \/ report.at - proc.lastUp <= OfflineAge]_vars
  BY DEF IInv, ReadyInv, At
<1> QED
  BY <1>1, Invariance, PTL DEF Spec, ReadyMeansAlive
=============================================================================
