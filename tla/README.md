# Formal models of balchug.racing

balchug.racing records the video of a race track and the live timing feed of
its races. This directory holds TLA+ models of its core, TLC configurations
that check them on small instances, and TLAPS proofs of what matters most.
`PROJECT.json` is the machine-readable index: components, runs, the source
lines behind every definition, hazards, findings and theorems.

- [1. The system](#1-the-system)
- [2. Modules and how they correspond to the code](#2-modules-and-how-they-correspond-to-the-code)
- [3. Runs](#3-runs)
- [4. Proofs](#4-proofs)
- [5. Where the code and its documentation disagree](#5-where-the-code-and-its-documentation-disagree)
- [6. What is not modelled](#6-what-is-not-modelled)
- [7. Plan](#7-plan)

## 1. The system

Two halves share a host and nothing else: the **timing system**
(`server/timing`, about 24,000 lines of Python around one SQLite database in
WAL mode) and the **video archive** (`server/jobs`, `server/api`, about 2,000
lines around ffmpeg, a directory tree and S3). The browser panels
(`web/assets`) read both.

    provider websocket
         | frames
         v
    ingest supervisor -> run_session task -> RawIngestStore -> feed_frames, feed_messages
       (worker process)       |                                ingest_runs, _connections, _gaps
                              v
                        TimingNormalizer -> facts (heats, laps, pits, flags, ...)
                              |             state_checkpoints
                              v
                        metric runner -> metrics, stream_events (outbox)
                                              |
    API process: lifecycle (create/start/stop/abort), read API, SSE broker -> browsers
    timers: retention, operations monitor, backup;   CLI: rebuild, backfill, import

| component | state it keeps | operations | what makes it correct | module |
|---|---|---|---|---|
| Analysis session lifecycle (`lifecycle.py`) | `analysis_sessions`, `session_idempotency_keys`, `session_audit_events` | create, start, stop, abort; each one `BEGIN IMMEDIATE` transaction | one active session per source; a keyed request takes effect once; closed sessions never reopen; the audit trail tells the truth | `SessionLifecycle` |
| Ingest supervisor and session task (`ingest.py`, `worker.py`) | the task table; the task's run, connection, pending gap and frame | poll, spawn, replay, connect, read, reconnect with backoff, cancel, finish | every decoded frame is processed although the process dies anywhere; a stop is honoured; breaks of the feed are recorded | `TimingIngest` |
| Raw-first store (`ingest_store.py`) | `ingest_runs`, `ingest_connections`, `ingest_gaps`, `feed_frames`, `feed_messages` | start_run, open/close_connection, record/close_gap, persist_raw_frame, decode_frame, mark_processed, finish_run | raw evidence first; boundaries are passed in order; at most one open run; truthful stop reasons | `TimingIngest`, `FrameLedger` |
| Normalizer memory, checkpoints, restore (`normalizer_writer.py`) | the sparse result grid and other reducers in memory; `state_checkpoints` | prime, process_frame, checkpoint, restore | the memory always equals a replay of the processed frames; a checkpoint never runs ahead of the marker | `TimingIngest` |
| Track flags (`normalizer_writer.py`, `normalization.py`) | `track_flag_periods`, `track_flag_current`, clean marks of laps | live flag, Statistics history, clock calibration | late history moves boundaries without leaving a clean lap under a caution | `FlagTimeline` |
| Laps (`canonical_laps.py`, `normalizer_writer.py`) | passings, canonical boundaries and laps, LAST cells and their ledger, `laps` | passing, LAST cell, end of frame, rebuild | laps tile; a cell and a lap point at each other; a rebuild is idempotent | `LapChronology` |
| Pit stops and stints (`normalizer_writer.py`) | `participant_state_current`, `pit_stops`, `tire_stints`, `laps` | row message, end of frame | stints tile; stop numbers increase; a duration belongs to one stop | `PitStints` |
| Race control (`screen_messages.py`, `race_control_store.py`, `race_control_backfill.py`) | the append-only ledger, the current board | patch, snapshot, delete, clear, backfill | the board is the provider's; a removal has a reason; a backfill repeats the live result | `RaceControl` |
| Metric runner and engine (`metric_runner.py`, `metric_store.py`, `metric_engine.py`) | current values, chart, keyframes, the boundary state of the last evaluation | run after each frame | a retry is a no-op; every change is told once; counts restored around a bounded tail are whole | `MetricRunner` |
| SSE outbox and broker (`stream_events.py`, `sse.py`, `api.py`) | `stream_events`, cursor floors; queues and a global cursor in memory | append, poll, fan out, subscribe, replay from a cursor, reset | a client that merges snapshot and deltas misses nothing it is not told to resnapshot | `TimingStream` |
| Retention and rebuild (`retention.py`, `rebuild.py`) | cursor floors, the oldest RAW frame, derived tables | plan, apply, rebuild a stopped session | never prunes what a restore needs | `TimingStream` (outbox), `RaceControl` (RAW) |
| Operations monitor and heartbeat (`operations.py`, `worker_heartbeat.py`) | incidents, worker heartbeats | collect, reconcile, answer `/ready` | one open incident per condition; no healthy verdict on half a report; an expired heartbeat is noticed | `OperationsMonitor` |
| Read API, playback | none of its own | queries | answers from one snapshot | the parts other modules need |
| Video archive (`server/jobs`, `server/api`) | recordings, MP4s and HLS in S3, catalogue, job queue, repair journals | merge, transcode, index, delete, repair | no recording is lost or published twice, but in the ways of section 5 | `VideoArchive` |
| Web panels | the panel's view and its cursor | apply snapshot, delta, reset | never mixes two generations | client side of `TimingStream` |

**What is hard here.** The worker process can be killed between any two of the
six transactions a frame needs, and is restarted by systemd; the provider's
socket drops and reconnects; a transaction may raise while the reducer memory
has already changed; the operator stops the session from another process at any
moment; cancellation arrives while the task awaits; clients retry requests
whose answers were lost. In the normalizer one fact is told by two sources, in
two clocks, in any order, and one of the two may be lost; what is decided per
message and what is decided at the end of the frame interleave. The jobs of the
video archive share files, S3 and a catalogue without a lock and may stop between
any two steps. None of these orders is practical to enumerate in unit
tests. The `hazards` list of `PROJECT.json` names each one at the line where it
bites, with the property that would catch it.

## 2. Modules and how they correspond to the code

| module | what it is |
|---|---|
| `TimingIngest` | supervisor, `run_session`, the raw-first tables and the reducer memory of one session |
| `FrameLedger` | abstract specification: what the ingest promises about every frame |
| `TimingIngestLedger` | refinement mapping from `TimingIngest` to `FrameLedger` |
| `TimingIngestProofs` | inductive invariant, safety theorems, refinement theorem; restarts: memory, order of facts, gaps |
| `SessionLifecycle` | engineer operations on analysis sessions |
| `SessionLifecycleProofs` | their theorems |
| `TimingStream` | the SSE outbox, its broker, the `/stream` handler and its clients, under retention and rebuild |
| `TimingStreamProofs` | its theorems, for any number of streams |
| `OperationsMonitor`, `OperationsMonitorProofs` | heartbeat, health report, incidents, `/ready`; their theorems |
| `FlagTimeline` | flag periods of a heat from live flags and Statistics, and the clean marks they revoke |
| `LapChronology` | tracker passings, canonical laps, LAST cells, rebuild |
| `PitStints`, `PitStintsProofs` | pit stops, tyre stints and grid-numbered laps; their theorems |
| `MetricRunner`, `MetricRunnerProofs` | loading, events and materialisation of one car's metrics; theorems on events, counts and retries |
| `RaceControl`, `RaceControlProofs` | Race Control board and ledger, backfill, RAW retention; the theorems about the board, retention and the backfill |
| `VideoArchive`, `VideoArchiveProofs` | merger, HLS worker, indexer, deletions and the two repair tools; theorems that nothing is lost but in three named ways |
| `MC*` | the instances TLC checks |

The modules compose through what they share with the ingest: `FlagTimeline`,
`LapChronology`, `PitStints` and `RaceControl` model what one `ProcessFrame` step of
`TimingIngest` writes, a frame at a time and in order. That frames reach
them in order, each at least once and again after a rollback, is what `TimingIngest` is about
(`FactsInReceiveOrder`, `MemoryIsReplay`); these modules therefore
have lost messages and reconnects, and no crash inside a frame. `MetricRunner`
models what `ProcessMetrics` writes; its inputs are the facts of the other modules,
reduced to what it reads, and it has the ingest's crashes, raises and replays.

### TimingIngest

*Granularity.* One step is one SQLite transaction, one lifecycle read, or one
await of `run_session`. Everything between two awaits is synchronous in the
code (the production frame processor included), so the task can be *cancelled*
only while it reads the socket or sleeps in the backoff, but it can be *killed*
between any two steps. Both exist: `GracefulStop` and `Crash`.

*State.* `runs`, `conns`, `gaps`, `frames` are the tables in id order; `facts`
and `metrics` are the sets of frames whose derived rows are committed (both
writes are idempotent by source key, so a set is what a retry leaves behind);
`ckpts` are the runtime checkpoints. `task` is the coroutine: a control point
and its local variables (`run_id`, `connection_id`, `pending_gap_id`, the frame
in hand, the replay work). `reducer` is the in-memory normalizer, as the set of
frames applied to it: two reducers that have seen the same frames in order hold
the same grid, and what a restart can get wrong is precisely *which* frames
they have seen. Provider frames have one of three shapes that the code tells
apart: with messages, without, malformed.

*Time.* A timestamp in the tables is used to say where in the frame stream a
run, connection or gap lies. The model stores that position: the number of
frames stored before it.

*Actions.* The control points follow `run_session` top to bottom:

| code | actions |
|---|---|
| `run_forever` poll, spawn, stop | `Spawn`, `SupervisorIdle`, `GracefulStop` |
| `start_run` (orphans, restart gap, new run) | `StartRun`, `StartRunRefused` |
| replay of decoded frames | `ReplayNext`, `ReplayDone` |
| outer and inner loop, `_wait_until_inactive` race | `Connect`, `CheckActive`, `StopNoticed`, `ReceiveFrame`, `SourceDrop` |
| first frame of a socket | `OpenConnection`, `CloseGap` |
| one frame | `PersistRawFrame`, `DecodeFrame`, `ProcessFrame`, `ProcessMetrics`, `MarkProcessed` |
| `finally`, reconnect, backoff | `CloseConnection`, `AfterDisconnect`, `RecordGap`, `BackoffElapsed` |
| `except CancelledError`, `finish_run` | `HandleCancel`, `FinishRun` |
| any of these raising | `StartRunFault`, `FrameFault`, `RunFault`, `HandlerFault` |
| operator, kernel, systemd | `OperatorStop`, `Crash`, `StartProcess` |

A raising transaction rolls its rows back, but not the reducer: `ReducerAfterFault`
lets the memory be unprimed, primed, or primed with the messages applied.
`_checkpoint_due` compares receive times; since times are abstracted, every
frame after the first checkpoint may or may not save one.

### FrameLedger

The promise, without runs, connections, crashes or memory: every stored frame
is attributed to a socket, starts `raw`, and moves forward one durable boundary
at a time (`raw -> decoded -> facts -> derived -> done`, or `failed`, or
`blank -> done` for an envelope without messages). `TimingIngestLedger` maps the
tables to it, and both TLC and TLAPS check that every step of the ingest,
including every crash, restart and rolled-back transaction, is a step of the
ledger or leaves it alone.

### SessionLifecycle

Each request is one `BEGIN IMMEDIATE` transaction and is one action, with the
code's order of checks: specification validity (create only), stored key, the
session's existence, the allowed lifecycle, the active-session preflight, and
then row, audit event and key together. Clients are `\E` over all requests and
keys at every step, so retries, races and key reuse need no actor of their own.
`answer` is what the request returned. Session ids are creation order;
timestamps, uuids and key syntax are left out because nothing is decided by them.

### TimingStream

The API is one asyncio process, so a handler or the broker runs alone between
two awaits; every `asyncio.to_thread` read is a step of its own, and so are the
two halves of `subscribe()` around its read. `conn` holds the locals of each
`/stream` handler (cursor, barrier, active heat, replay page), `queues` and
`subs` the broker's subscribers, `client` what an EventSource keeps: its last
event id, the outbox rows it was sent or that a snapshot covered, and the heats
whose deltas it merged.

| code | actions |
|---|---|
| `append_stream_events`, a new heat, stop | `AppendStreamEvent`, `AppendForeignEvent`, `NewHeat`, `StopSession` |
| `apply_retention`, `_reset_derived_state` | `ApplyRetention`, `ResetDerivedState` |
| `_run`, `_fanout` | `BrokerRead`, `BrokerFan`, `BrokerBatchDone`, `BrokerQuality` |
| `subscribe` | `Open`, `CursorRead`, `CursorSet` |
| `timing_stream` up to the response | `Snapshot`, `CursorWindow`, `CursorPrior`, `Refused`, `SetupFault` |
| `event_stream` | `First`, `ReplayRead`, `ReplayEvent`, `ReplayDone`, `Resnapshot`, `TakeItem`, `Disconnect` |
| restart of the API process | `ApiRestart` |

What is yielded reaches the client in the same step: a client that loses what
was in flight is one that disconnected just before, since the handler's locals
die with the connection. A heat row keeps its own number besides its id, so the
model can tell a deleted heat from a rebuilt one even if they had the same id.
Keepalives and the freshness computation are left out; a quality item is a queue
item without a cursor that may appear at any poll.

### OperationsMonitor

A report is collected with several reads, each its own step, and dated when it
was begun, so the session, the process and the clock move between two reads:
`CollectStorage`, `CollectDatabase`, `CollectSessions`, `CollectIngest`,
`CollectTables`, or `CollectFault` for a read that raises. It is collected for
the monitor, whose `Reconcile` opens, updates and resolves the rows of
`timing_operational_incidents` in one transaction (`ReconcileFault`: rolled
back), or for `/ready`, whose `Answer` only reads. The worker's side is
`StartWorker`, `Heartbeat`, `StopSignal`, `HeartbeatStops`, `HeartbeatFails`,
`WorkerExits` and `WorkerKilled`; `Record`, `CloseSession` and `StorageChanges`
are what the rest of the system may do to the tables a report reads. Every alert
code of the report is there with its thresholds. Incidents are followed for the
codes in `Watched` only: `_reconcile` treats each code and scope by itself.
`absent` is a history variable, the codes whose cause was missing at some moment
since the report was begun.

### FlagTimeline

`db` holds the rows of one heat: `track_flag_periods`, `track_flag_current` and
the laps of one participant. The provider is the true history of flags
(`ShowFlag`, `Tick`) from which messages are taken: `LiveFlag` (an `h_h`, which
may be skipped and may repeat), `Statistics` (the history as of some moment, in provider
time), `StatisticsReset`, `ServerClock` (a new median offset), `Reconnect` (a new calibrator),
`CompleteLap`. A step applies the whole message: `LiveFlag` is `_write_immediate_flag`
when the flag differs from the last one; `Statistics` and a clock sample both run `WriteStatistics`, which
writes each caution, aligns its neighbours, splits or synthesises what follows,
reconciles the first green, the finish and the adjacencies, and revokes clean
marks. Row selection (`ORDER BY ... LIMIT 1`) is kept with its ties.

### LapChronology

One car, in a layout without a LAPS column. The provider sends passings and LAST
cells for true crossings (`Start`, `Finish`, `Repeat`), those of formation laps
before green included; `Receive(n)` takes the next `n` messages as one frame and one transaction: each message is applied
(`ApplyMessage`), then the frame is finished (`ReconcileTrackerLapSources`,
`FinalizeLastCells`). A frame whose attachment conflicts is rolled back and sets
`failed`: the ingest replays it for ever. `Reconnect` loses what was not
received; `Rebuild` is `rebuild_canonical_heat`.

### PitStints

One car, in a layout with LAPS, STATE, PIT and L-PIT columns. The car enters,
leaves, laps and shows its state (`CarEnters`, `CarLeaves`, `CarLaps`,
`CarShows`); the change is shown in one message, or in two (`ShowLate`). A frame
applies each row at once and queues its pit facts, which
`ReconcileFramePitEvents` applies when the frame is complete. `Drop` and
`Connect` lose messages, record the gap, and begin again with an `r_i` of the
whole row.

### MetricRunner

One car in a layout without LAPS, where laps are confirmed LAST cells and time is
the frame's number. `CommitFacts` stores a frame with up to two laps and perhaps one
change: the car appears, enters or leaves the pit, the flag changes, or Statistics
tell of an earlier caution (`Learned`). `Metrics` is one evaluation: `Bounded`
decides between the whole history and a tail with the stored counts, `Values`
counts, `EventKeys` compares with the last boundary state, and `ProcessFrame` writes
current values, chart, tick, cursor, outbox and keyframe. `MetricsFault`, `Crash`,
`Restart` and `Replay` are the ingest's, `Disconnect` and `RecordGap` its gaps.
`seen` is history: which laps the stored counts rest on. Formulas, class scopes
and other cars are left out, and so is a facts transaction that raises.

### RaceControl

The provider's board changes by `Upsert`, `Delete`, `Clear`, and by messages that
cannot be read (`Nonsense`, items with a bad field or a bad id); `Connect` sends
an `m_i` snapshot, `NewHeat` an `h_i`. `Receive(n)` parses and projects a frame into the
ledger (a function, because its key of heat, source position and change is UNIQUE) and
the current table. After
`Stop`, `PlanRetention` and `ApplyRetention` prune RAW frames with the code's two
checkpoint checks and its rollback, and the ledger rows go with them (`ON DELETE
CASCADE`); `Backfill` makes the board again from the frames that are left.

### VideoArchive

A video is the sequence of recorded pieces in it and its key is its first piece.
The merger (`MergerScan` .. `MergerCleanup`), the HLS worker (`WorkerTake` ..
`WorkerRemove`), the indexer's two steps, `DeleteItem` and `EnqueueHls` of the
API and the repair tools (`ToolStarts` .. `ToolUnstages`) make one visible change
per step. `MergerFails`, `WorkerFails`, `ToolFails` stop a program between two
steps; a service starts again from what is on disk, a tool from its journal.
`MergerCleanup` is one `os.remove`, which may fail: the merger passes over it and goes on with
the other pieces and groups, and `merger.kept` is what the loop has tried in vain.

Six variables are not in the code, and no guard reads them. `read` is what a video held when
a repair staged its copy, and `overtaken` what a repair removed with a video beyond that.
`left` are the pieces on the disk still when a merger failed after its upload, `stuck` those
that a removal failed on; both are published again by a later scan. `overwritten` is what the
merger replaced under the key of a stuck piece, and `deleted` what an administrator removed.

## 3. Runs

| run | instance | what it shows |
|---|---|---|
| `ingest_crash` | 3 frames of all shapes, 2 kills or graceful restarts, 2 drops, no faults | the safety of the ingest, and the refinement |
| `ingest_faults` | 2 frames, 1 restart, 1 drop, 2 raising transactions, fair | `DecodedIsProcessed`, `StopReleasesTask`, `ActiveIsServed` |
| `session_lifecycle` | 2 sources, 2 keys, 2 sessions, 5 applied requests | exactly-once, one active session, truthful answers |
| `stream_one` | 1 client, 2 outbox rows, 2 heats, queue of 1, page of 2, replay limit 1, retention, rebuild, 1 failed setup, any number of reconnects and API restarts, fair | nothing is missed silently, heats are not mixed, `CatchUp` |
| `operations` | 2 worker processes, clock of 2 ticks, 1 change of the tables or raising read, both collectors | incidents do not overlap and are resolved for a reason; `/ready` is truthful |
| `flag_timeline` | 2 caution flags, 2 clock medians, 5 messages, 2 laps | flags, history and clean laps agree |
| `lap_chronology` | 8 messages in frames of up to 3, 4 ticks, formation laps or none, 1 rebuild | laps tile and link; a finish is counted; the rebuild is idempotent |
| `pit_stints` | 6 messages in frames of up to 3, 2 ticks, 1 lost connection | stops, stints, durations and clean laps |
| `metric_runner` | 4 frames, 3 laps with a tail of 2, 3 changes, 2 crashes, raises or lost connections, seconds of 2 and intervals of 3 ticks | events, keyframes, counts, retries |
| `race_control` | 2 messages ids, 2 contents, 4 messages in frames of up to 2, 2 heats, 1 drop, 1 checkpoint, valid or corrupt | the board, its ledger, retention, backfill |
| `video_archive` | 3 pieces that touch or lie apart, 1 fault, 4 pieces, requests and runs of the two repair tools together | a recording is lost or published twice only in the ways that `NothingLost` and `NoRepeat` name |
| `lap_refused` | the instance of `lap_chronology`, 5 ticks | section 5 |

A module's type invariant is checked together with the facts that say its tables
agree, as one conjunction of named parts.

*Ingest.*
- `TablesConsistent`: types; `OneOpenRun` and `LiveConnectionIsOpen` (repeated
  crashes do not accumulate open runs, and a frame is never attributed to a
  closed socket); `CheckpointsAnchored` (only to a processed frame with messages).
- `ProcessedIsDerived`: the processed marker is never ahead of facts and metrics.
- `StopReasonsTrue`: a lost socket is never reported as the operator's stop.
- `BreaksAreRecorded`: where consecutive frames come from different sockets, a
  gap spans the break.
- `MemoryIsReplay`: newest checkpoint plus tail equals a cold replay, and equals
  the live memory.
- `FactsInReceiveOrder`: facts are never written behind a newer frame's.
- `ImplementsLedger`: the refinement.

`BreaksAreRecorded`, `MemoryIsReplay` and `FactsInReceiveOrder` hold only while no
transaction raises (`MaxFaults = 0`, section 5). The others hold with faults too,
as section 4 proves. `DecodedIsProcessed`: a decoded frame
is processed across restarts unless the operator closes the session;
`StopReleasesTask`: a closed session is released; `ActiveIsServed`: an active
one is served again after every restart.

*Lifecycle.* `OneActivePerSource`, `KeyedOnce`, `AnswersWereTrue`,
`ClosedIsFinal`, and `AuditConsistent` (types, keys and audit events match in
both directions, and the events of a session tell its lifecycle).

*Stream.*
- `NoSilentLoss`: every row of the outbox up to a client's last event id was sent
  to it or covered by a snapshot, although it reconnects, its queue overflows, the
  heat changes or the API restarts.
- `QueuesConsistent`: types, and what the broker has passed is in every live
  queue, or a reset marker is: the reason `NoSilentLoss` holds.
- `OneHeatPerView`: a client never merges deltas of two heats, a rebuilt heat
  included.
- `DeltasAdvance`: replay and queue together deliver increasing ids.
- `CatchUp`: every event reaches a client that stays connected.

*Operations.* `IncidentsConsistent` (types, `EpisodesDisjoint`),
`ResolvedWhenAbsent` (a resolution needs a moment without the cause),
`ReadyMeansAlive` (`/ready` does not vouch for a worker gone longer than `OfflineAge`).

*Flags.* `TimelineConsistent` (types, `CurrentHasRow`), `NoCleanLapUnderCaution`,
`HistoryApplied` (after a calibrated history each caution has exactly one row,
at the provider's instants).

*Laps.* `ChronologyConsistent` (types, `LapsTile`, `LinksAgree`,
`RebuildIdempotent`), `FinishCompletesLap` (no finish is lost from `laps`, with the one
exception of section 5).

*Pits.* `PitLedgerConsistent` (types, `StintsTile`, `StopsOrdered`,
`DurationOnce`), `CleanAvoidsPit`, `HistoryFrozen`.

*Metrics.* `MetricsConsistent` (types; `EventsTellChanges`: each outbox row names
exactly what differs from the row before; `AnchorsKept`: the keyframe of an event's
second is marked), `CountsWhole` (bounded load = whole load, with the two exceptions of
section 5), `RetryIsNoOp` (a frame evaluated again or late moves no cursor and
rewrites no row; at the cursor it moves no tick and, if the heat is as it was, no chart
point, with the second exception of section 5).

*Race control.* `BoardConsistent` (types, `RemovalExplained`), `BoardShown`,
`FloorAnchored` (after retention a valid checkpoint and everything behind it is
left), `BackfillRepeats`.

*Video.* `ArchiveConsistent` (types, `JournalBacked`, `NoRepeat`: no piece is played twice,
except one in `left` or `stuck`), `NothingLost` (a piece goes by deletion, `overtaken` or
`overwritten` only).

**Bounds.** They cap the inputs, never the program. *Ingest:* three frames are
the fewest with a checkpoint, a tail and a frame in flight at once; two crashes
allow a crash during recovery from the first; two drops allow a failed attempt
while a gap is pending. Two frames and two faults let a fault meet the replay of
another one. *Stream:* two rows with a queue of one and a replay limit of one are
the fewest with an overflow, a replay that exceeds its limit and a remainder;
another session's rows and quality items take slots too. *Lifecycle:* two sessions on
the same or different sources and five applied requests cover create, create,
start and every competing pair; two keys let a key be retried and be reused.
*Operations:* `LiveMaxAge` 0 and `OfflineAge` 1 make every age class reachable
in two ticks; two worker processes allow a heartbeat to be inherited. *Flags:*
medians that differ by a tick and a window of one tick put boundaries on either side of
the window; five messages are a live flag, a history, a calibration, a changed
history and one lost or repeated. *Laps:* a start and two laps with
both their messages, a repeat and a reconnect, or two formation passings, a start and a lap
around a rebuild; a frame of three holds a passing and two LAST cells. *Pits:* entry, exit, a lap and a second stop, some of them in
two messages, in frames that hold both. *Metrics:* three laps and a tail of two let
a stored count reach behind the tail, and two new laps exceed it; two failures allow a frame to be
evaluated, lost before its marker and evaluated again. *Race control:* two ids tell the order of
a snapshot; two heats and one drop give a board that begins anew in both ways.
*Video:* three pieces are a scan of two groups, a group of two after a video of one, and a
repair of three videos; the merger's gap of 0 ticks and the repair's of 1 let pieces lie within
both, between the two, and, in the old archive, beyond both. A piece lasts a tick and the clock
runs while something waits for it. One fault is any step that fails or any death; four
inputs are three pieces and one request, or fewer pieces and an interrupted repair with its resumption
or the other tool behind it. Losses by `overtaken` and by `overwritten` are both reached.

Symmetry is used for sources and keys in `session_lifecycle` and for message ids in
`race_control`, where nothing is temporal but action properties.

**Deadlock** is checked for the ingest, the lifecycle, the stream and the video archive: a finished
system still polls (`SupervisorIdle`), an idle API can always refuse a request or
open a stream, and a merger scans again. The other runs say `CHECK_DEADLOCK FALSE`: their actors are reducers
driven by a provider whose clock and messages are bounded and run out.

**Fairness** (`ingest_faults`): weak fairness of `TaskStep` (asyncio runs ready
coroutines, and every enabled step is either local or one bounded transaction),
of `Spawn` (`run_forever` polls on an interval) and of `StartProcess`
(`Restart=always` in the unit). Nothing is assumed about the provider sending
frames, the socket dropping, the operator or crashes. Faults are finitely many: a
transaction that raises for ever, for instance a frame the reducer always
rejects (`lap_refused` is one), makes every replay fail, and nothing in the code
promises otherwise. `stream_one` assumes weak fairness of the broker's and of
each handler's steps (the same event loop), and nothing about writers, browsers
or restarts.

**Mutants.** Operators commented `Mutant:` stand before the definition they
deform, as a plausible bug in that code would; each property of a passing run is
violated when its mutant replaces the definition.

## 4. Proofs

The theorems hold for every value of the constants, under the named assumptions
of the modules only: bounds are naturals (`BoundsAssumption`, `MaxAssumption`),
frame shapes are among the three (`KindsAssumption`), `NoKey` is not a key
(`NoKeyAssumption`), followed codes are codes (`Watched \subseteq Codes`). What a
theorem assumes beyond them is in its statement. In each module the inductive
invariant is a conjunction of named parts, there is one lemma per action or per
family of actions that disturb the same parts, a step lemma combines them, and
the theorems project from the invariant.

**TimingIngest.** None of the invariants is inductive alone: that the marker is
never early depends on what the control point says about the frame in hand, that
depends on the frame not changing under the task, and `OneOpenRun` depends on
which control points own a run. The inductive invariant is

    IInv == TypeOK /\ FrameInv /\ WorkInv /\ RunInv /\ ConnInv

- `FrameInv`: pending frames are unprocessed; facts belong to decoded frames with
  messages; metrics are a subset of facts; the marker and checkpoints follow.
- `WorkInv`: the frame in hand exists, is unprocessed, has the task's shape and
  is not in the remaining replay work; each control point implies the boundaries
  already passed; the replay work is still pending.
- `RunInv`: which control points own a run, that it is the only open one, and
  that an inactive end was decided after the operator's stop.
- `ConnInv`: which control points hold an open connection of that run, and that
  a remembered gap exists.

The theorems are `TypeCorrect`, `ProcessedOnlyDerived`, `CheckpointsAnchoredAlways`,
`SingleOpenRun`, `FramesUnderOpenConnection`, `TruthfulStopReasons`, and
`TablesStayConsistent`, which joins the parts of `TablesConsistent`. They hold with
any number of raising transactions, which `ingest_crash` leaves out.

**Refinement.** `TablesImplementLedger` uses the same invariant: the three
boundary actions advance exactly one frame by one stage, `PersistRawFrame` is the
ledger's `Receive`, and every other step leaves the view unchanged. Re-running
`ProcessFrame` for a frame whose facts are already committed is a stutter.

**Restarts** (second half of `TimingIngestProofs`). Three more parts, on top of `IInv`:

- `OrderInv`: what is processed is older than what is not, and the task is at the
  oldest frame that is not. This is what makes replay, live frames and checkpoints
  agree on one order; a raising transaction breaks it (section 5), so it is
  conditional on `used.faults = 0`.
- `MemoryInv`: a checkpoint holds exactly the processed frames up to its anchor;
  the live memory holds the processed frames, and the one in hand between
  `ProcessFrame` and its marker.
- `PlaceInv`, `HoldInv`, `BreakInv`: nothing lies after frames not stored yet; the
  remembered gap is open; wherever the connection may change next a gap is already
  there, or the next `start_run` finds an open gap or an orphan run.

`RestartIsReplay` and `FactsInOrder` follow from the first two, `BreaksRecordedOrError`
from the last: a break without a gap needs a run that ended with the reason
`error`, the one handler that writes none. `MemoryRebuilt` and `BreaksRecorded` are
the corollaries for `MaxFaults = 0`, the instance of `ingest_crash`.

**SessionLifecycle.** `OneActive`, `ExactlyOnce`, `StoredAnswersTrue` and
`LifecycleForward` follow from an invariant that ties stored keys and audit
events together in both directions and says that the stored result of a key
was a state its session has since reached or passed. `AuditTold` adds that no event
names a session that is not there: a creation then begins a trail (`TellsFirst`),
a transition extends one (`TellsMore`), and other sessions keep theirs (`TellsKept`).

**TimingStream.** Three layers, all for any number of streams.

- `IInv` (`OutboxInv`, `BrokerInv`, `StreamInv`): a queue is registered exactly while
  its handler is past `subscribe`; handler, client and queue hold only ids of rows
  that existed. `DeltasTheorem` follows.
- `HeatInv`: the heats of a client's view are the one its handler compares with, and
  no earlier than the heat of its last event id. The code compares heat ids, and
  `SameHeat` says that this tells heats apart, a deleted one and a rebuilt one
  included, because ids are never used again. `OneHeatTheorem` assumes `FirstHeat = 1`, a session that has its
  heat when streams open; without it the statement is false (`api.py:652`).
- `OInv`: what the broker has passed is in a queue, behind a reset marker, or part of
  the snapshot or the replay of that handler (`MissInv`); the broker's and the
  replay's page leave nothing out in the middle (`PassInv`, `SeenInv`); queues are
  ordered, so taking an item never jumps over one still queued (`Ordered`); and what a
  first subscriber is about to set the cursor to skips nothing (`WaitInv`).

The last part is where the proof failed for a reason: of two first subscribers the
slower one moves the cursor past what the faster one waits for (`sse.py:442`).
`RaceFree` says that this is not going on. `NoLossTheorem` and `QueuesTheorem` are
`Spec /\ []RaceFree => []...`, so the race is the only way to lose an event, and
`OneStreamNoLoss` shows that one stream is always race free. That a page of a SQL
`LIMIT` is a prefix of what is left (`PageIsPrefix`, `ShortPage`) is proved from
cardinalities.

**OperationsMonitor.** The invariant says that nothing is dated in the future
(`ClockInv`), that rows were resolved before a report that may open the next was
begun (`EpisodeInv`), that a code decided so far is in the monitor's report or its cause
was absent at some moment since it was begun (`ObservedInv`), and what a `/ready`
without a critical alert has seen of the worker (`ReadyInv`). `ObservedInv` is needed at
every point of the report because the reads happen at different times, and the
tables are judged with the session read one step earlier. Theorems: `IncidentsTheorem`,
`ResolvedTheorem`, `ReadyTheorem`.

**RaceControl.** `FloorTheorem`: frames after the floor are kept and the floor's
anchor is a valid checkpoint behind it. The invariant adds that the floor only moves once
every heat is covered, when no checkpoint is written any more. That the newest valid
checkpoint exists (`Max` of a nonempty bounded set) is proved by well-foundedness.

`BoardConsistentAlways` and `BoardShownAlways` rest on a second invariant, `BoardInv`:

- `TablesSound`: every inactive row refers to a message, in a frame that has its place, that
  `Explains` the removal. One lemma per operation of the store (`InsertSound`, `UpsertSound`,
  `MarkSound`, `PatchSound`, `SnapshotSound`, `ProjectSound`) preserves it; a received frame
  (`ReceiveRun`) and a backfill (`BackfillSound`) are loops of them. Pruning deletes
  observations and keeps the messages' places, so it stays explained.
- `Tracks`: `BoardShown` speaks of the moment when nothing is on its way, and that moment is not
  inductive. The invariant gives the collections `B` of the provider between the messages on
  their way: the rows of the last heat show the first one, each message takes one to the next
  (`Effect`), the last is the provider's board. Sending adds a collection at the end
  (`CarriesMore`), a frame of n messages drops the first n (`CarriesLess`).
- `MessageShown` says that the store does to the rows what the message did to the collection. The
  hard case is an `m_i` (`SnapshotShown`): that it may repeat an id, and is applied from its
  end, is why the rows end with what its first item of an id says. It needs that no record has this
  source yet (`Recent`): an `INSERT OR IGNORE` that ignores would leave the row as it was.

`BackfillTheorem` (`BackfillRepeats`) says that the backfill repeats the live worker. Its
invariant `RepeatInv` keeps what neither of them stores: the tables `W` after each frame, if every
frame were there and every heat had begun (`Whole`).

- The ledger is the last of `W` less the records of pruned frames, and the board is its last
  while none is pruned (`Repeats`). What a message records is the same on any ledger and stands
  under its own frame (`TurnLedger`, `FrameLedger`), so a backfill that passes the pruned frames
  over makes just that (`PassesLedger`).
- The backfill asks for a heat by time, the worker takes the last one. They agree because a heat
  begins with the frame that is received then (`Timed`, `HeatAtBegun`) and a message of the board
  never comes before one that begins a heat (`ReceiveSettled`): that is `~Mixed`, and the only
  use of it.
- A later heat changes nothing of an earlier frame (`WideMakes`): a received frame widens every
  table of `W` by the rows of the heats it begins, and adds its own (`ReceiveWhole`).

**MetricRunner.** `EventsTheorem` (`MetricsConsistent`) rests on what the cursor
guarantees: outbox rows and keyframes belong to frames the cursor has passed
(`CursorInv`, `KeyframeInv`), the ticks of its second and the current row of a car it
knows are not older than it (`SecondInv`, `CurrentInv`), and the runner's memory is
empty or the cursor's boundary state. `CountsTheorem` (`CountsWhole`) and `RetryTheorem`
(`RetryIsNoOp`) need a second invariant, `CInv`:

- `CountInv`: at the cursor the stored counts are those of the laps it has `Passed`. Laps
  increase with their frames (`LapsInv`), so what a bounded load leaves out was passed, and the
  first loaded lap, which has no predecessor to measure from, was passed too or is the first of
  all (`LoadedTail`): this is where `NewLaps < TailLaps` is needed. `PrefixCount` is the
  arithmetic of a stored count less its share of the tail.
- `TodoInv`: the cursor's frame is unmarked only while the replay is still to come to it, and
  until then no fact changes and a gap can only open; so its evaluation meets the
  boundary state it stored, or another gap.
- `ChartInv`: evaluated again as it was, the cursor's frame finds its points in the charts.
  A bounded load without a new lap changes no count (`ValuesSettled`), a point just written is
  found again (`SampledAgain`), and an older frame replayed first with the same value
  does not uncover one (`SampledEarlier`).

The attempts corrected the property twice: a late frame may write the current row when the boundary
state of the cursor has not seen the car and the heat has, and a cursor whose counts hold laps of
later frames may get a new chart point (section 5), which the bounds of the run do not reach.

**PitStints.** All three properties of the run are theorems: `PitLedgerAlways`,
`CleanAvoidsPitAlways` and `HistoryNeverRewritten`, for frames of any length, any number of
stops and disconnects. The invariant has two halves.

- `TablesInv` is about the tables alone and holds whatever the provider sends: stops are
  ordered and completed ones have an exit (`PitsInv`), finishes increase and lap numbers stay below the
  row's (`LapsInv`), a clean lap has a start and no stop across it (`CleanInv`), the open
  stint is the last (`StintsInv`). One lemma per operation (`EnsureTireStintSound` to
  `ReconcileSound`, `WriteRowStateSound`) says what it preserves.
- What the tables cannot know is why one L-PIT never becomes two durations: `Distinct`
  says that the durations shown, late, on their way or counted are all of stops that have
  ended, and different; `Unrecorded`, that one already counted travels only in an `r_i`,
  and is then the L-PIT of the last row seen, which is why the code's comparison with
  the materialised row is enough.

A frame is two loops, over its messages and over the events they queue. `WriteRowsRun` and
`ReconcileRun` give the states each loop goes through, `AtMessage`, `AtQueue` and `AtEvent` are
the loop invariants, and `FrameSound` carries them from one end to the other by least
counterexample (`UpTo`), which needs no induction scheme.

**VideoArchive.** `NothingLostAlways`, `JournalBackedAlways` and `TypeCorrect` hold for any
number of pieces, faults and requests and with both repair tools at once. What a recorded piece
needs is that it is on the disk or `Safe` (in a video, in the staged copy of a journal, deleted
on request, overtaken or overwritten), and no step may end both. The invariant says why none does:

- `MergerPlan`, `Uploaded`: the groups of a scan are those of the disk in order and all but the
  last are cold, so no piece joins a group at work; from the upload on its real pieces are safe,
  and cleanup removes no other. What cleanup passes over is in `stuck`.
- `DiskRules`: no video or staged copy is named after a piece later than a real one on the disk, and
  the video of such a piece holds only pieces that are on the disk too; this is said of the pieces
  outside `stuck`, since one that could not be removed stays while later videos are published. So when the merger
  publishes a group again, what it overwrites is not yet deleted, and no repair is at work on
  that key. This is the hard part: it says that merger and repairs, which share no lock, never
  write the same key at the same time, unless that key is of a stuck piece; then what the
  video held beyond the group is `overwritten`.
- `ToolPlan`, `Journals`, `Copies`: what each step of a repair implies for its journal; a journal has its
  staged video, its target is none of its sources; a staged video holds what was read for
  it, and the published one what was staged, less what was deleted or overwritten since.
- `Clocked`, `Shapes`: on the disk only the last piece is being written; a video has pieces, none
  before its own.

The two groupings and the gluing are recursive functions. `RunExists` shows that such a function
exists and has the values its equation gives (by least counterexample), `GroupsOf` that the groups
are the numbers in order, whatever the gap.

The proof attempt refuted the earlier `NothingLost`, which had no exception: a repair that is
resumed removes more than it had read if another one ran in between. `overtaken` is exactly
that, and section 5 describes how it and `overwritten` happen. The run reaches both.

**Model-checked only.** Liveness (`DecodedIsProcessed`, `StopReleasesTask`,
`ActiveIsServed`, `CatchUp`): fairness is outside the prover's reach. The
properties of `FlagTimeline` and `LapChronology`: the code folds over
a sequence of rows or messages and searches what it has written, and what the fold computes needs induction over
data. `NoRepeat` of `ArchiveConsistent`: that a piece is in two videos only while a journal
is to remove the second depends on how the gaps of the merger and of the repair group what
others have changed since, an argument about durations that no step of the model sees at once.

## 5. Where the code and its documentation disagree

One is a run that TLC refutes; `PROJECT.json` quotes the sentence it contradicts.

- `lap_refused`: two LAST cells of one frame with the same duration are both
  matched to the same pending lap before either is attached; the second
  attachment raises, the frame is rolled back, and every later run meets it again.

More were met while modelling. The models have the code's behaviour, and the
properties above are stated so that they do not deny it.

*Ingest.* Every failed attempt inserts a gap and the task remembers one, so an
older gap stays open while frames arrive (`ingest.py:265`; `README.md:249`). A
frame stored raw when the process died before `decode_frame` is not replayed
(`ingest_store.py:525`; `README.md:243`). After a processor error newer
frames and a checkpoint overtake the failed frame, and a later restore omits it
(`ingest.py:247`, `:152`). A raise outside the inner handler finishes the run
without a gap (`ingest.py:283`, `ingest_store.py:272`). A restart gap starts at the start of the
run if the connection was already closed when the process died
(`ingest_store.py:157`). A rolled-back transaction that created a heat leaves its
id in memory, and later frames fail until the restart (`normalizer_writer.py:404`).
A crash after the operator's stop leaves the run open (`ingest_store.py:106`).

*Stream.* Of two first subscribers the slower one moves the broker's cursor past
events the faster one still waits for (`sse.py:442`). A stream opened before
the first heat never notices a heat change (`api.py:652`; `README.md:177`). Rows
that retention deletes after the cursor was checked are skipped without a reset
(`api.py:619`). A database error during setup leaves the queue registered (`api.py:636`).

*Operations.* `DATABASE_UNAVAILABLE` and `SESSION_HEALTH_UNAVAILABLE` make a report incomplete and
are never incidents themselves, although `README.md:291` speaks of each alert; the
monitor runs inside the worker it observes, so only `/ready` can see a dead one.

*Flags.* A recorder that joins a heat during a caution older than
`FLAG_RECONCILIATION_WINDOW_US` keeps two open rows (docstring near
`normalizer_writer.py:4637`). A finish learned from Statistics, in the past, does
not revoke clean marks. A changed calibration can leave a row that ends before it starts.

*Laps.* A rebuild keeps the reason `CANONICAL_TRACKER_DURATION_MATCH` on ledger rows
it no longer links, and may match fewer cells than the live path; lost passings shift
the numbering. Laps of the formation laps are counted from the start of coverage; a
rebuild after green starts the canonical laps again at green (`canonical_laps.py:232`), leaves
`laps` as it is, and the next finishes take numbers that are taken there, so the insert drops
them (`normalizer_writer.py:3748`). `FinishCompletesLap` excepts exactly this, and the run meets it.

*Pits.* A lost exit followed by an unknown state literal and a new entry gives two
open stops. A lap counted in the same frame as a later exit counts twice in `completed_laps`. The
duration of a lost second stop may be attached to the first row. A car in the
lane when capture starts gets a clean out lap.

*Metrics.* The bounded load is admitted "only when old clean-lap decisions stay
valid" (`metric_store.py:1098`), but compares only the current flag, gap, state and
pits: a caution learned late inside an earlier green period, or a restart gap that
reaches back to the start of the run, revises laps behind the cursor, and the
stored count of clean laps keeps them until the next full load. An evaluation reads all
committed laps, also those of later frames: when the metrics of two frames are
missing, the replay of the first counts the second's laps, stores them under
the first's cursor, and the replay of the second adds them again, so that
`observed_lap_count` is too high ("restore whole-heat counters", `metric_engine.py:577`).
Evaluated again after a death, a frame with such counts adds them once more and may get a
chart point ("retrying the same event is a no-op in both materializations",
`metric_store.py:1963`). So may a retried frame whose second has no point yet, with newer values.

*Race control.* A message that is deleted and sent again sparsely keeps its old
fields. RAW retention removes rows of the append-only ledger, and a later
backfill then loses board rows. A frame with an `m_*` before an `h_i` is given to
the new heat by the backfill. A new heat has an empty board until the next `m_i`.

*Video.* Three things lose or repeat a recording. (a) `cleanup` swallows the `OSError` of a
failed `os.remove` (`session_merger.py:139-144`), although all FLVs of a session are said to be
deleted (`:14`): the leftover file is a group of its own, or part of one, in every later scan.
If it is the first piece of its session, it is published under the key of the glued video and replaces it, so
that piece 2 of a video 1+2 is gone after one failed removal of piece 1, no other failure needed;
if not, it is published under a key of its own and plays twice. (b) A repair removes a
source without looking at what it has become since it was read. The merger's scan takes `end_ts` once
and asks `ready` when the group's turn comes, so it may publish piece 2 alone although piece 3 has begun
within the gap; if it is killed before it removes piece 2, the next scan publishes 2+3 under the same key,
and a repair that had read video 2 to glue it to video 1 deletes it with piece 3 in it. The merger
has deleted, or goes on to delete, the FLV. (c) A repair resumes its journal without looking
either, and publishes a stale copy: `fix_gaps` loses the piece that `repair_archive` merged in
between (`fix_gaps.py:340`, against `:17`), and `repair_archive` alone does it too
(`repair_archive.py:364`, against `:18`): pieces 1 to 3 are journaled and the publication fails;
an administrator deletes the video of 2; the merger publishes 4; in the next run the group of 1 fails
again, and 3 and 4, now a group of their own, become video 3; the run after that resumes the
journal of 1 and drops video 3 with piece 4 in it. `overwritten` is (a), `overtaken` is (b) and
(c). The run reaches (a) and (b); the histories of (c) take more inputs
than it has. The queue is served in the order of a hash, and the job of a removed
video fails and stays at its head. A worker in the middle of an encode removes a
job enqueued again meanwhile, and uploads the old content over the cleared HLS.
A stale listing of the indexer re-adds a deleted row. A merger that fails after its upload may
publish leftover pieces under another key. The merger's gap (30 min) and the
repair's (60 min) group differently.

## 6. What is not modelled

- **Result grid, participants, gap coordinates**: sparse cells over changing
  layouts, identity matching and interval arithmetic, mostly data conversion. The
  cells other modules depend on are their inputs.
- **Metric formulas** (gaps, trends, pit plan, alerts): decimal calculations over
  the facts; of the engine, `MetricRunner` has the events and the counts.
- **Read API and playback**: read-only SQL, except for what `OperationsMonitor` and
  `RaceControl` need.
- Provider wire decoding, file recording and import: pure I/O; their effect (a
  frame, a malformed frame, a disconnect) is an input of `TimingIngest`.
- The fallback from a corrupt checkpoint to an older one, and a rebuild's
  replay, which is the ordinary reducer.
- Several sessions in one supervisor: tasks share nothing but the database, and
  every table row is keyed by session; one session is modelled.
- A second worker process: the unit runs one, and the code has no lock against it.
- A wall clock that steps back; sectors; transponders shared by two participants.
- Values: decimals, text, timestamps finer than ticks, payloads.
- Migrations, backup, CLI: sequential and offline.
- ffmpeg, S3, nginx, the HTML and CSS; thumbnails and annotations of videos.

## 7. Plan

What is left, in order of what an error would cost:

1. **Proofs**: `NoRepeat` of the archive; `CurrentHasRow` of the flags.
2. **Result grid** as an operator checked against a reference definition;
   participants.
3. **Playback** and the discrete parts of the metric engine (pit plan, closure
   windows, session clock).
