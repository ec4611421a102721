---------------------------- MODULE TimingIngest ----------------------------
(***************************************************************************)
(* The live ingest of one analysis session: the supervisor and its         *)
(* run_session task (ingest.py), the raw-first tables it writes            *)
(* (ingest_store.py), and the reducer memory of the normalizer with its    *)
(* runtime checkpoints (normalizer_writer.py).                             *)
(*                                                                         *)
(* One step is one SQLite transaction, one lifecycle read, or one await of *)
(* run_session.  The process may be killed between any two steps; it can   *)
(* only be cancelled where the coroutine really awaits (the read of the    *)
(* socket and the backoff), because every store call and the production    *)
(* frame processor are synchronous.                                        *)
(***************************************************************************)
EXTENDS Integers, Sequences, FiniteSets

CONSTANTS
    MaxFrames,      \* frames the provider sends before it falls silent
    MaxCrashes,     \* hard kills and graceful restarts of the worker process
    MaxDrops,       \* provider disconnects and failed connection attempts
    MaxFaults,      \* transactions that raise (lock timeout, reducer error)
    Kinds           \* shapes of provider frames that occur

ASSUME BoundsAssumption == /\ MaxFrames \in Nat
                           /\ MaxCrashes \in Nat
                           /\ MaxDrops \in Nat
                           /\ MaxFaults \in Nat
ASSUME KindsAssumption == Kinds \subseteq {"messages", "empty", "malformed"}

VARIABLES
    lifecycle,  \* analysis_sessions.lifecycle: "active", or "closed" once stopped or aborted
    runs,       \* ingest_runs in start order: stop reason ("open" = NULL) and frames stored before it
    conns,      \* ingest_connections: its run, whether still open, frames stored before it
    gaps,       \* ingest_gaps: frames stored before it began and before it ended
    frames,     \* feed_frames by id: connection, shape, decode_state, processed_at set or not
    facts,      \* frames whose normalized facts are committed
    metrics,    \* frames whose derived metrics are committed
    ckpts,      \* state_checkpoints: anchor frame and the frames its reducer state has seen
    proc,       \* the worker process: "up", "stopping" (cancelled) or "down"
    task,       \* the run_session coroutine: control point and local variables
    reducer,    \* TimingNormalizer memory: primed or not, frames applied to it
    used        \* how much of each bound is used up

store == <<runs, conns, gaps, frames, facts, metrics, ckpts>>
vars == <<lifecycle, store, proc, task, reducer, used>>

StopReason == {"open", "session_inactive", "supervisor_cancelled", "error",
               "worker_restart_recovered"}
ControlPoint == {"none", "spawned", "replay", "connect", "check", "reading",
                 "open", "close_gap", "persist", "decode", "process", "metrics",
                 "mark", "closing", "disconnected", "record_gap", "backoff",
                 "cancelled", "finish"}

FrameKind == {"messages", "empty", "malformed"}
Run == [stop : StopReason, at : Nat]
Connection == [run : Nat, open : BOOLEAN, at : Nat]
Gap == [from : Nat, open : BOOLEAN, to : Nat]
Frame == [conn : Nat, kind : FrameKind,
          state : {"pending", "decoded", "failed"}, processed : BOOLEAN]
Checkpoint == [frame : Nat, seen : SUBSET Nat]
Task == [pc : ControlPoint, run : Nat, conn : Nat, gap : Nat, frame : Nat,
         kind : FrameKind, replay : SUBSET Nat, reason : StopReason]
Reducer == [primed : BOOLEAN, applied : SUBSET Nat]
Counters == [crashes : Nat, drops : Nat, faults : Nat]

NoTask == [pc |-> "none", run |-> 0, conn |-> 0, gap |-> 0, frame |-> 0,
           kind |-> "messages", replay |-> {}, reason |-> "open"]
FreshReducer == [primed |-> FALSE, applied |-> {}]
FrameIds == DOMAIN frames

\* The type invariant of the tables and of the worker's memory.
TypeOK ==
    /\ lifecycle \in {"active", "closed"}
    /\ runs \in Seq(Run)
    /\ conns \in Seq(Connection)
    /\ gaps \in Seq(Gap)
    /\ frames \in Seq(Frame)
    /\ facts \subseteq Nat
    /\ metrics \subseteq Nat
    /\ ckpts \subseteq Checkpoint
    /\ proc \in {"up", "stopping", "down"}
    /\ task \in Task
    /\ reducer \in Reducer
    /\ used \in Counters

Init ==
    /\ lifecycle = "active"
    /\ runs = <<>> /\ conns = <<>> /\ gaps = <<>> /\ frames = <<>>
    /\ facts = {} /\ metrics = {} /\ ckpts = {}
    /\ proc = "up"
    /\ task = NoTask
    /\ reducer = FreshReducer
    /\ used = [crashes |-> 0, drops |-> 0, faults |-> 0]

-----------------------------------------------------------------------------
(* Derived views of the tables.                                            *)

\* ORDER BY id DESC LIMIT 1, as the set of at most one row it selects.
NewestOf(S) == {x \in S : \A y \in S : y <= x}

\* pending_decoded_frames: the replay work a crash left behind.
PendingDecoded == {f \in FrameIds : frames[f].state = "decoded" /\ ~frames[f].processed}

\* What _prime replays from feed_frames: processed frames that carry messages.
ProcessedMessages ==
    {f \in FrameIds : frames[f].processed /\ frames[f].state = "decoded"
                      /\ frames[f].kind = "messages"}

\* runtime_checkpoint_rows, newest anchor first: _prime takes the first one.
NewestCheckpoint == {c \in ckpts : \A d \in ckpts : d.frame <= c.frame}

\* What the reducer memory holds after _prime in this durable state: the state
\* of the newest checkpoint, if any, and the processed frames after its anchor.
Restored ==
    (UNION {c.seen : c \in NewestCheckpoint})
    \cup {f \in ProcessedMessages : \A c \in NewestCheckpoint : f > c.frame}

OpenRuns == {r \in DOMAIN runs : runs[r].stop = "open"}
OpenGaps == {g \in DOMAIN gaps : gaps[g].open}
OpenConns == {c \in DOMAIN conns : conns[c].open}

Goto(p) == [task EXCEPT !.pc = p]

-----------------------------------------------------------------------------
(* The operator and the process.                                           *)

\* stop_session or abort_session commits in the API process.
OperatorStop ==
    /\ lifecycle = "active"
    /\ lifecycle' = "closed"
    /\ UNCHANGED <<store, proc, task, reducer, used>>

\* SIGKILL, watchdog or power loss: memory is gone, the database is not.
Crash ==
    /\ proc # "down"
    /\ used.crashes < MaxCrashes
    /\ used' = [used EXCEPT !.crashes = @ + 1]
    /\ proc' = "down"
    /\ task' = NoTask
    /\ reducer' = FreshReducer
    /\ UNCHANGED <<lifecycle, store>>

\* systemd starts the unit again (Restart=always).
StartProcess ==
    /\ proc = "down"
    /\ proc' = "up"
    /\ UNCHANGED <<lifecycle, store, task, reducer, used>>

\* Mutant: finished tasks are never discarded, so a session is served once.
SpawnOnce ==
    /\ proc = "up" /\ lifecycle = "active" /\ task.pc = "none" /\ runs = <<>>
    /\ task' = Goto("spawned")
    /\ UNCHANGED <<lifecycle, store, proc, reducer, used>>

\* One poll of run_forever finds the active session without a task.
Spawn ==
    /\ proc = "up" /\ lifecycle = "active" /\ task.pc = "none"
    /\ task' = Goto("spawned")
    /\ UNCHANGED <<lifecycle, store, proc, reducer, used>>

\* With no active session the supervisor keeps polling and writes nothing.
SupervisorIdle ==
    /\ proc = "up" /\ lifecycle # "active" /\ task.pc = "none"
    /\ UNCHANGED vars

\* stop_event is set: run_forever leaves its loop and cancels the task, which
\* is suspended at an await.  A task that never ran is simply dropped.
GracefulStop ==
    /\ proc = "up"
    /\ used.crashes < MaxCrashes
    /\ used' = [used EXCEPT !.crashes = @ + 1]
    /\ \/ /\ task.pc \in {"none", "spawned"}
          /\ proc' = "down"
          /\ task' = NoTask
          /\ reducer' = FreshReducer
       \/ /\ task.pc = "reading"
          /\ proc' = "stopping"
          /\ task' = [task EXCEPT !.pc = "closing", !.reason = "supervisor_cancelled"]
          /\ UNCHANGED reducer
       \/ /\ task.pc = "backoff"
          /\ proc' = "stopping"
          /\ task' = [task EXCEPT !.pc = "cancelled", !.reason = "supervisor_cancelled"]
          /\ UNCHANGED reducer
    /\ UNCHANGED <<lifecycle, store>>

\* The coroutine ends; a cancelled process exits with it.
EndTask ==
    /\ task' = NoTask
    /\ IF proc = "stopping"
       THEN proc' = "down" /\ reducer' = FreshReducer
       ELSE UNCHANGED <<proc, reducer>>

-----------------------------------------------------------------------------
(* start_run and the replay of what an earlier process left behind.        *)

\* Where the restart gap of an orphan run begins: the last frame of its open
\* connection, else that connection's start, else the start of the run.
OrphanBreak ==
    LET orphan == NewestOf(OpenRuns)
        upstream == NewestOf({c \in OpenConns : conns[c].run \in orphan})
        received == {f \in FrameIds : frames[f].conn \in upstream}
    IN CASE received # {} -> NewestOf(received)
         [] received = {} /\ upstream # {} -> {conns[c].at : c \in upstream}
         [] upstream = {} -> {runs[r].at : r \in orphan}

\* Mutant: start_run forgets to close the orphan.
RecoveredRunsNone == runs

\* The UPDATEs that close every orphan run and its connections.
RecoveredRuns ==
    [r \in DOMAIN runs |->
        IF runs[r].stop = "open"
        THEN [runs[r] EXCEPT !.stop = "worker_restart_recovered"] ELSE runs[r]]
RecoveredConns ==
    [c \in DOMAIN conns |->
        IF conns[c].run \in OpenRuns
        THEN [conns[c] EXCEPT !.open = FALSE] ELSE conns[c]]

\* start_run: one transaction closes the orphans, adopts the newest open gap or
\* opens one where the orphan broke off, and inserts the new run.
StartRun ==
    /\ task.pc = "spawned" /\ lifecycle = "active"
    /\ runs' = Append(RecoveredRuns, [stop |-> "open", at |-> Len(frames)])
    /\ conns' = RecoveredConns
    /\ \E gap \in {0, Len(gaps) + 1} \cup OpenGaps :
        /\ task' = [task EXCEPT !.pc = "replay", !.run = Len(runs) + 1,
                                !.gap = gap, !.replay = PendingDecoded]
        /\ \/ OpenGaps # {} /\ gap \in NewestOf(OpenGaps) /\ gaps' = gaps
           \/ OpenGaps = {} /\ OpenRuns = {} /\ gap = 0 /\ gaps' = gaps
           \/ /\ OpenGaps = {} /\ OpenRuns # {} /\ gap = Len(gaps) + 1
              /\ \E b \in OrphanBreak :
                    gaps' = Append(gaps, [from |-> b, open |-> TRUE, to |-> 0])
    /\ UNCHANGED <<lifecycle, frames, facts, metrics, ckpts, proc, reducer, used>>

\* The session was closed between the poll and start_run.
StartRunRefused ==
    /\ task.pc = "spawned" /\ lifecycle # "active"
    /\ EndTask
    /\ UNCHANGED <<lifecycle, store, used>>

\* Mutant: replay only sets the processed marker.
ReplayNextMarks ==
    /\ task.pc = "replay"
    /\ \E f \in task.replay :
        /\ \A g \in task.replay : f <= g
        /\ task' = [task EXCEPT !.pc = "mark", !.frame = f, !.kind = frames[f].kind,
                                !.replay = @ \ {f}]
    /\ UNCHANGED <<lifecycle, store, proc, reducer, used>>

\* The loop over the replay work, in id order; decode_frame returns the stored
\* messages, and a frame without messages is marked at once.
ReplayNext ==
    /\ task.pc = "replay"
    /\ \E f \in task.replay :
        /\ \A g \in task.replay : f <= g
        /\ task' = [task EXCEPT !.pc = IF frames[f].kind = "messages"
                                       THEN "process" ELSE "mark",
                                !.frame = f, !.kind = frames[f].kind,
                                !.replay = @ \ {f}]
    /\ UNCHANGED <<lifecycle, store, proc, reducer, used>>

\* Mutant: the worker reconnects without finishing the replay.
ReplayDoneSkips ==
    /\ task.pc = "replay"
    /\ task' = [task EXCEPT !.pc = "connect", !.replay = {}]
    /\ UNCHANGED <<lifecycle, store, proc, reducer, used>>

\* The replay loop ends.
ReplayDone ==
    /\ task.pc = "replay" /\ task.replay = {}
    /\ task' = Goto("connect")
    /\ UNCHANGED <<lifecycle, store, proc, reducer, used>>

-----------------------------------------------------------------------------
(* The connection loop.                                                    *)

\* while store.is_session_active(): build a client, no upstream row yet.
Connect ==
    /\ task.pc = "connect"
    /\ task' = IF lifecycle = "active"
               THEN [task EXCEPT !.pc = "check", !.conn = 0, !.reason = "open"]
               ELSE [task EXCEPT !.pc = "finish", !.reason = "session_inactive"]
    /\ UNCHANGED <<lifecycle, store, proc, reducer, used>>

\* The inner loop's is_session_active before each read.
CheckActive ==
    /\ task.pc = "check"
    /\ task' = IF lifecycle = "active" THEN Goto("reading") ELSE Goto("closing")
    /\ UNCHANGED <<lifecycle, store, proc, reducer, used>>

\* Mutant: nobody watches the lifecycle while the socket is read.
StopNoticedNever ==
    /\ task.pc = "reading" /\ lifecycle # "active"
    /\ UNCHANGED vars

\* _wait_until_inactive completes first: the read is cancelled.
StopNoticed ==
    /\ task.pc = "reading" /\ lifecycle # "active"
    /\ task' = Goto("closing")
    /\ UNCHANGED <<lifecycle, store, proc, reducer, used>>

\* The provider delivers a frame before the stop is noticed.
ReceiveFrame(k) ==
    /\ task.pc = "reading"
    /\ Len(frames) < MaxFrames
    /\ task' = [task EXCEPT !.pc = IF task.conn = 0 THEN "open" ELSE "persist",
                            !.kind = k]
    /\ UNCHANGED <<lifecycle, store, proc, reducer, used>>

\* The socket closes, the stream ends, or connecting fails.
SourceDrop ==
    /\ task.pc = "reading"
    /\ used.drops < MaxDrops
    /\ used' = [used EXCEPT !.drops = @ + 1]
    /\ task' = Goto("closing")
    /\ UNCHANGED <<lifecycle, store, proc, reducer>>

\* open_connection on the first frame of the socket.
OpenConnection ==
    /\ task.pc = "open"
    /\ conns' = Append(conns, [run |-> task.run, open |-> TRUE, at |-> Len(frames)])
    /\ task' = [task EXCEPT !.conn = Len(conns) + 1,
                            !.pc = IF task.gap # 0 THEN "close_gap" ELSE "persist"]
    /\ UNCHANGED <<lifecycle, runs, gaps, frames, facts, metrics, ckpts, proc, reducer, used>>

\* close_gap ends the one gap the task remembers.
CloseGap ==
    /\ task.pc = "close_gap"
    /\ gaps' = [gaps EXCEPT ![task.gap] =
                  IF @.open THEN [@ EXCEPT !.open = FALSE, !.to = Len(frames)] ELSE @]
    /\ task' = [task EXCEPT !.pc = "persist", !.gap = 0]
    /\ UNCHANGED <<lifecycle, runs, conns, frames, facts, metrics, ckpts, proc, reducer, used>>

\* Mutant: the frame is decoded before its raw text is durable.
PersistDecodedFrame ==
    /\ task.pc = "persist"
    /\ frames' = Append(frames, [conn |-> task.conn, kind |-> task.kind,
                                 state |-> "decoded", processed |-> FALSE])
    /\ task' = [task EXCEPT !.pc = "decode", !.frame = Len(frames) + 1]
    /\ UNCHANGED <<lifecycle, runs, conns, gaps, facts, metrics, ckpts, proc, reducer, used>>

\* persist_raw_frame commits the exact text before anything parses it.
PersistRawFrame ==
    /\ task.pc = "persist"
    /\ frames' = Append(frames, [conn |-> task.conn, kind |-> task.kind,
                                 state |-> "pending", processed |-> FALSE])
    /\ task' = [task EXCEPT !.pc = "decode", !.frame = Len(frames) + 1]
    /\ UNCHANGED <<lifecycle, runs, conns, gaps, facts, metrics, ckpts, proc, reducer, used>>

\* decode_frame: messages are stored, or the failure is recorded for good.
DecodeFrame ==
    /\ task.pc = "decode"
    /\ frames' = [frames EXCEPT ![task.frame] =
                    IF @.kind = "malformed"
                    THEN [@ EXCEPT !.state = "failed", !.processed = TRUE]
                    ELSE [@ EXCEPT !.state = "decoded"]]
    /\ task' = Goto(CASE task.kind = "malformed" -> "check"
                      [] task.kind = "empty" -> "mark"
                      [] task.kind = "messages" -> "process")
    /\ UNCHANGED <<lifecycle, runs, conns, gaps, facts, metrics, ckpts, proc, reducer, used>>

-----------------------------------------------------------------------------
(* The frame processor and the processed marker.                           *)

\* The reducer memory once _prime has run.
Primed == IF reducer.primed THEN reducer.applied ELSE Restored

\* process_frame, first transaction: normalized facts, idempotent by source key.
ProcessFrame ==
    /\ task.pc = "process"
    /\ reducer' = [primed |-> TRUE, applied |-> Primed \cup {task.frame}]
    /\ facts' = facts \cup {task.frame}
    /\ task' = Goto("metrics")
    /\ UNCHANGED <<lifecycle, runs, conns, gaps, frames, metrics, ckpts, proc, used>>

\* Mutant: the checkpoint is taken before the reducer applied the frame.
CheckpointChoicesEarly ==
    LET saved == ckpts \cup {[frame |-> task.frame, seen |-> reducer.applied \ {task.frame}]}
    IN IF task.kind # "messages" THEN {ckpts}
       ELSE IF ckpts = {} THEN {saved} ELSE {ckpts, saved}

\* _checkpoint_due: always for the first one, then by elapsed receive time.
CheckpointChoices ==
    LET saved == ckpts \cup {[frame |-> task.frame, seen |-> reducer.applied]}
    IN IF task.kind # "messages" THEN {ckpts}
       ELSE IF ckpts = {} THEN {saved} ELSE {ckpts, saved}

\* process_frame, second transaction: the metric runner.
ProcessMetrics ==
    /\ task.pc = "metrics"
    /\ metrics' = metrics \cup {task.frame}
    /\ task' = Goto("mark")
    /\ UNCHANGED <<lifecycle, runs, conns, gaps, frames, facts, ckpts, proc, reducer, used>>

\* mark_processed: the marker and the checkpoint in one transaction.
MarkProcessed ==
    /\ task.pc = "mark"
    /\ frames' = [frames EXCEPT ![task.frame].processed = TRUE]
    /\ ckpts' \in CheckpointChoices
    /\ task' = [task EXCEPT !.pc = IF task.conn = 0 THEN "replay" ELSE "check"]
    /\ UNCHANGED <<lifecycle, runs, conns, gaps, facts, metrics, proc, reducer, used>>

-----------------------------------------------------------------------------
(* Leaving a connection, a run, the task.                                  *)

\* close_connection in the finally block; a cancellation keeps propagating.
CloseConnection ==
    /\ task.pc = "closing"
    /\ conns' = IF task.conn = 0 THEN conns
                ELSE [conns EXCEPT ![task.conn].open = FALSE]
    /\ task' = Goto(IF task.reason = "supervisor_cancelled"
                    THEN "cancelled" ELSE "disconnected")
    /\ UNCHANGED <<lifecycle, runs, gaps, frames, facts, metrics, ckpts, proc, reducer, used>>

\* Mutant: every lost socket is taken for the operator's stop.
AfterDisconnectEnds ==
    /\ task.pc = "disconnected"
    /\ task' = [task EXCEPT !.pc = "finish", !.reason = "session_inactive"]
    /\ UNCHANGED <<lifecycle, store, proc, reducer, used>>

\* is_session_active decides between another attempt and a clean end.
AfterDisconnect ==
    /\ task.pc = "disconnected"
    /\ task' = IF lifecycle = "active" THEN Goto("record_gap")
               ELSE [task EXCEPT !.pc = "finish", !.reason = "session_inactive"]
    /\ UNCHANGED <<lifecycle, store, proc, reducer, used>>

\* record_gap: every disconnect inserts a gap and the task remembers only it.
RecordGap ==
    /\ task.pc = "record_gap"
    /\ gaps' = Append(gaps, [from |-> Len(frames), open |-> TRUE, to |-> 0])
    /\ task' = [task EXCEPT !.pc = "backoff", !.gap = Len(gaps) + 1]
    /\ UNCHANGED <<lifecycle, runs, conns, frames, facts, metrics, ckpts, proc, reducer, used>>

BackoffElapsed ==
    /\ task.pc = "backoff"
    /\ task' = Goto("connect")
    /\ UNCHANGED <<lifecycle, store, proc, reducer, used>>

\* Mutant: a cancelled run ends without a gap.
HandleCancelQuietly ==
    /\ task.pc = "cancelled"
    /\ task' = Goto("finish")
    /\ UNCHANGED <<lifecycle, runs, conns, gaps, frames, facts, metrics, ckpts, proc, reducer, used>>

\* except CancelledError: open a restart gap unless one is already pending.
HandleCancel ==
    /\ task.pc = "cancelled"
    /\ IF task.gap = 0 /\ lifecycle = "active"
       THEN /\ gaps' = Append(gaps, [from |-> Len(frames), open |-> TRUE, to |-> 0])
            /\ task' = [task EXCEPT !.pc = "finish", !.gap = Len(gaps) + 1]
       ELSE task' = Goto("finish") /\ UNCHANGED gaps
    /\ UNCHANGED <<lifecycle, runs, conns, frames, facts, metrics, ckpts, proc, reducer, used>>

\* finish_run: COALESCE keeps the first stop reason.
FinishRun ==
    /\ task.pc = "finish"
    /\ runs' = [runs EXCEPT ![task.run].stop = IF @ = "open" THEN task.reason ELSE @]
    /\ EndTask
    /\ UNCHANGED <<lifecycle, conns, gaps, frames, facts, metrics, ckpts, used>>

-----------------------------------------------------------------------------
(* Transactions that raise.  The write is rolled back, memory is not.      *)

SpendFault ==
    /\ used.faults < MaxFaults
    /\ used' = [used EXCEPT !.faults = @ + 1]

\* start_run raises: no run was created.
StartRunFault ==
    /\ task.pc = "spawned"
    /\ SpendFault
    /\ EndTask
    /\ UNCHANGED <<lifecycle, store>>

\* The reducer may have applied the messages before its transaction rolled back.
ReducerAfterFault ==
    IF task.pc = "process"
    THEN {reducer,
          [primed |-> TRUE, applied |-> Primed],
          [primed |-> TRUE, applied |-> Primed \cup {task.frame}]}
    ELSE {reducer}

\* A raise while reading from an upstream: the generic handler reconnects.
FrameFault ==
    /\ task.pc \in {"check", "open", "close_gap", "persist", "decode",
                    "process", "metrics", "mark"}
    /\ task.pc \in {"process", "metrics", "mark"} => task.conn # 0
    /\ SpendFault
    /\ reducer' \in ReducerAfterFault
    /\ task' = Goto("closing")
    /\ UNCHANGED <<lifecycle, store, proc>>

\* A raise in the replay, in close_connection, in record_gap or in a lifecycle
\* read outside the inner handler leaves the connection loop: the run finishes
\* with an error and no gap is written.
RunFault ==
    /\ \/ task.pc \in {"process", "metrics", "mark"} /\ task.conn = 0
       \/ task.pc \in {"replay", "connect", "closing", "disconnected", "record_gap"}
    /\ SpendFault
    /\ reducer' \in ReducerAfterFault
    /\ task' = [task EXCEPT !.pc = "finish", !.reason = "error"]
    /\ UNCHANGED <<lifecycle, store, proc>>

\* A raise inside the final handlers: the run row stays open.
HandlerFault ==
    /\ task.pc \in {"cancelled", "finish"}
    /\ SpendFault
    /\ EndTask
    /\ UNCHANGED <<lifecycle, store>>

-----------------------------------------------------------------------------

\* Steps the event loop takes on its own once the task is runnable.
TaskStep ==
    \/ StartRun \/ StartRunRefused \/ ReplayNext \/ ReplayDone
    \/ Connect \/ CheckActive \/ StopNoticed
    \/ OpenConnection \/ CloseGap \/ PersistRawFrame \/ DecodeFrame
    \/ ProcessFrame \/ ProcessMetrics \/ MarkProcessed
    \/ CloseConnection \/ AfterDisconnect \/ RecordGap \/ BackoffElapsed
    \/ HandleCancel \/ FinishRun

Fault == StartRunFault \/ FrameFault \/ RunFault \/ HandlerFault

Next ==
    \/ TaskStep
    \/ \E k \in Kinds : ReceiveFrame(k)
    \/ SourceDrop
    \/ Spawn \/ SupervisorIdle
    \/ OperatorStop \/ Crash \/ StartProcess \/ GracefulStop
    \/ Fault

Spec == Init /\ [][Next]_vars

\* The event loop runs ready coroutines, the supervisor polls, and systemd
\* restarts the unit.  Nothing is assumed of the provider or the operator.
Fairness == WF_vars(TaskStep) /\ WF_vars(Spawn) /\ WF_vars(StartProcess)
FairSpec == Spec /\ Fairness

-----------------------------------------------------------------------------
(* Safety.                                                                 *)

\* A frame that carries messages is marked processed only after both its facts
\* and its metrics were committed, whatever crashed or raised in between.
ProcessedIsDerived == ProcessedMessages \subseteq facts \cap metrics

\* A runtime checkpoint never anchors to a frame a crash left unprocessed.
CheckpointsAnchored ==
    \A c \in ckpts : c.frame \in ProcessedMessages

\* At most one run row is open, and while the task works it is the task's own.
OneOpenRun ==
    /\ \A r, q \in OpenRuns : r = q
    /\ task.run # 0 => OpenRuns = {task.run}

\* Frames are only ever stored through an open connection of the open run, so
\* no frame can be attributed to a socket the database considers closed.
LiveConnectionIsOpen ==
    task.pc \in {"persist", "decode"} =>
        task.conn \in OpenConns /\ conns[task.conn].run = task.run

\* What the restarts of a worker may leave in the tables: typed rows, one open
\* run, frames only under its open connection, checkpoints only on processed
\* frames.
TablesConsistent ==
    TypeOK /\ OneOpenRun /\ LiveConnectionIsOpen /\ CheckpointsAnchored

\* A run reports a clean end only for a session the operator really closed, and
\* a hard loss is only ever reported by the run that came after it.
StopReasonsTrue ==
    /\ lifecycle = "active" =>
         \A r \in DOMAIN runs : runs[r].stop # "session_inactive"
    /\ \A r \in DOMAIN runs :
         runs[r].stop = "worker_restart_recovered" => r < Len(runs)

\* The feed is never presented as continuous across a lost socket: where two
\* consecutive frames come from different connections a gap row spans the break.
BreaksAreRecorded ==
    \A f \in FrameIds :
        f > 1 /\ frames[f].conn # frames[f - 1].conn =>
            \E g \in DOMAIN gaps :
                /\ gaps[g].from <= f - 1
                /\ gaps[g].open \/ gaps[g].to >= f - 1

\* Restoring the newest checkpoint and replaying its tail gives the reducer
\* exactly the frames a cold replay of the session would give it, and between
\* frames the live memory is that too.
MemoryIsReplay ==
    /\ Restored = ProcessedMessages
    /\ reducer.primed /\ task.pc \notin {"metrics", "mark"} =>
          reducer.applied = ProcessedMessages

\* Normalized facts are written in receive order across restarts: a frame's
\* facts are never committed after those of a newer frame.
FactsInReceiveOrder ==
    [][\A f \in facts' \ facts : \A g \in facts : g < f]_vars

-----------------------------------------------------------------------------
(* Liveness, under FairSpec.                                               *)

\* A decoded frame is processed, across any number of restarts, unless the
\* operator closes the session first; a frame whose processing raised waits for
\* the next run, which nothing promises.
DecodedIsProcessed ==
    \A f \in 1..MaxFrames :
        (f \in PendingDecoded) ~> (f \notin PendingDecoded \/ lifecycle = "closed" \/ used.faults > 0)

\* The worker eventually lets go of a session the operator closed.
StopReleasesTask == (lifecycle = "closed") ~> (task.pc = "none")

\* An active session is eventually served again after every restart.
ActiveIsServed == []<>(lifecycle = "active" => task.pc \in {"reading", "backoff"})

=============================================================================
