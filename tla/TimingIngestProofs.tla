------------------------- MODULE TimingIngestProofs -------------------------
(***************************************************************************)
(* Theorems about the ingest for every number of frames, crashes, drops    *)
(* and failed transactions.  The second half is about restarts: what the   *)
(* reducer memory holds, the order in which facts are committed, and the   *)
(* gap rows where the feed breaks.                                         *)
(***************************************************************************)
EXTENDS TimingIngestLedger, SequenceTheorems, WellFoundedInduction, TLAPS

AtFrame == {"decode", "process", "metrics", "mark"}
Working == ControlPoint \ {"none", "spawned"}
\* Control points at which a remembered connection is still open.
Upstream == {"check", "reading", "open", "close_gap", "persist", "decode",
             "process", "metrics", "mark", "closing"}

\* What decode_state, processed_at and the derived tables say of one frame.
FrameInv ==
    /\ \A f \in FrameIds :
        /\ frames[f].conn # 0
        /\ frames[f].state = "pending" => ~frames[f].processed
        /\ frames[f].state = "decoded" => frames[f].kind # "malformed"
    /\ facts \subseteq {f \in FrameIds : frames[f].state = "decoded"
                                         /\ frames[f].kind = "messages"}
    /\ metrics \subseteq facts
    /\ ProcessedIsDerived
    /\ CheckpointsAnchored

\* What the control point of the task says of the frame it works on.
WorkInv ==
    /\ task.pc \in AtFrame => /\ task.frame \in FrameIds
                              /\ frames[task.frame].kind = task.kind
                              /\ ~frames[task.frame].processed
                              /\ task.frame \notin task.replay
    /\ task.pc = "decode" => frames[task.frame].state = "pending"
    /\ task.pc \in {"process", "metrics", "mark"} => frames[task.frame].state = "decoded"
    /\ task.pc \in {"process", "metrics"} => task.kind = "messages"
    /\ task.pc = "metrics" => task.frame \in facts
    /\ task.pc = "mark" /\ task.kind = "messages" => task.frame \in facts \cap metrics
    /\ task.replay \subseteq PendingDecoded
    /\ task.pc \notin {"replay", "process", "metrics", "mark", "finish"} => task.replay = {}
    /\ task.conn # 0 => task.replay = {}

\* Which run row is open, and why runs ended.
RunInv ==
    /\ proc = "down" => task.pc = "none"
    /\ task.pc \in {"none", "spawned"} => task.run = 0
    /\ task.pc \in Working => task.run \in OpenRuns
    /\ OneOpenRun
    /\ StopReasonsTrue
    /\ task.reason # "worker_restart_recovered"
    /\ task.pc = "finish" /\ task.reason = "session_inactive" => lifecycle = "closed"
    /\ task.reason = "session_inactive" => task.pc = "finish"

\* Which connection and which gap the task holds.
ConnInv ==
    /\ task.pc \in {"none", "spawned", "replay", "open"} => task.conn = 0
    /\ task.pc \in {"close_gap", "persist", "decode"} => task.conn # 0
    /\ task.conn # 0 /\ task.pc \in Upstream =>
          task.conn \in OpenConns /\ conns[task.conn].run = task.run
    /\ task.gap \in {0} \cup DOMAIN gaps
    /\ task.pc = "close_gap" => task.gap # 0

IInv == TypeOK /\ FrameInv /\ WorkInv /\ RunInv /\ ConnInv

-----------------------------------------------------------------------------

\* The tables are sequences: their domains and the types of their rows.
LEMMA Tables ==
    ASSUME TypeOK
    PROVE  /\ Len(runs) \in Nat /\ DOMAIN runs = 1..Len(runs)
           /\ \A r \in DOMAIN runs : runs[r] \in Run
           /\ Len(conns) \in Nat /\ DOMAIN conns = 1..Len(conns)
           /\ \A c \in DOMAIN conns : conns[c] \in Connection
           /\ Len(gaps) \in Nat /\ DOMAIN gaps = 1..Len(gaps)
           /\ \A g \in DOMAIN gaps : gaps[g] \in Gap
           /\ Len(frames) \in Nat /\ DOMAIN frames = 1..Len(frames)
           /\ \A f \in DOMAIN frames : frames[f] \in Frame
<1>1. runs \in Seq(Run) /\ conns \in Seq(Connection) /\ gaps \in Seq(Gap) /\ frames \in Seq(Frame)
  BY DEF TypeOK
<1>2. Len(runs) \in Nat /\ DOMAIN runs = 1..Len(runs) /\ \A r \in DOMAIN runs : runs[r] \in Run
  BY <1>1, LenProperties, ElementOfSeq
<1>3. Len(conns) \in Nat /\ DOMAIN conns = 1..Len(conns)
      /\ \A c \in DOMAIN conns : conns[c] \in Connection
  BY <1>1, LenProperties, ElementOfSeq
<1>4. Len(gaps) \in Nat /\ DOMAIN gaps = 1..Len(gaps) /\ \A g \in DOMAIN gaps : gaps[g] \in Gap
  BY <1>1, LenProperties, ElementOfSeq
<1>5. Len(frames) \in Nat /\ DOMAIN frames = 1..Len(frames)
      /\ \A f \in DOMAIN frames : frames[f] \in Frame
  BY <1>1, LenProperties, ElementOfSeq
<1> QED
  BY <1>2, <1>3, <1>4, <1>5

\* The invariant holds before the first poll.
LEMMA InitInvariant == Init => IInv
<1> SUFFICES ASSUME Init PROVE IInv
  OBVIOUS
<1> USE DEF Init, NoTask, FreshReducer
<1>1. TypeOK
  BY EmptySeq DEF TypeOK, Task, Reducer, Counters, ControlPoint, FrameKind, StopReason
<1>2. FrameInv
  BY DEF FrameInv, FrameIds, ProcessedIsDerived, ProcessedMessages, CheckpointsAnchored
<1>3. WorkInv
  BY DEF WorkInv, AtFrame, PendingDecoded, FrameIds
<1>4. RunInv
  BY DEF RunInv, Working, ControlPoint, OneOpenRun, OpenRuns, StopReasonsTrue
<1>5. ConnInv
  BY DEF ConnInv, Upstream, OpenConns
<1> QED
  BY <1>1, <1>2, <1>3, <1>4, <1>5 DEF IInv


\* The budget of crashes, drops and faults stays a record of naturals.
LEMMA Counting ==
    ASSUME TypeOK
    PROVE  /\ [used EXCEPT !.crashes = @ + 1] \in Counters
           /\ [used EXCEPT !.drops = @ + 1] \in Counters
           /\ [used EXCEPT !.faults = @ + 1] \in Counters
<1>1. used.crashes + 1 \in Nat /\ used.drops + 1 \in Nat /\ used.faults + 1 \in Nat
  BY DEF TypeOK, Counters
<1> QED
  BY <1>1 DEF TypeOK, Counters

\* What _prime rebuilds is a set of frame ids.
LEMMA PrimedTyped ==
    ASSUME TypeOK
    PROVE  ProcessedMessages \subseteq Nat /\ Restored \subseteq Nat /\ Primed \subseteq Nat
<1>1. ProcessedMessages \subseteq Nat
  BY Tables DEF ProcessedMessages, FrameIds
<1>2. \A c \in NewestCheckpoint : c.seen \subseteq Nat
  BY DEF TypeOK, Checkpoint, NewestCheckpoint
<1>3. UNION {c.seen : c \in NewestCheckpoint} \subseteq Nat
  <2> SUFFICES ASSUME NEW f \in UNION {c.seen : c \in NewestCheckpoint} PROVE f \in Nat
    OBVIOUS
  <2>1. PICK s \in {c.seen : c \in NewestCheckpoint} : f \in s
    OBVIOUS
  <2>2. PICK c \in NewestCheckpoint : s = c.seen
    BY <2>1
  <2> QED
    BY <1>2, <2>1, <2>2
<1>4. Restored \subseteq Nat
  BY <1>1, <1>3, Zenon DEF Restored
<1> QED
  BY <1>1, <1>4 DEF Primed, TypeOK, Reducer

\* A rolled-back transaction may leave the frame in the reducer memory.
LEMMA ReducerFaultTyped ==
    ASSUME TypeOK, NEW r \in ReducerAfterFault
    PROVE  r \in Reducer
<1>1. task.frame \in Nat
  BY DEF TypeOK, Task
<1>2. Primed \subseteq Nat /\ Primed \cup {task.frame} \subseteq Nat
  BY <1>1, PrimedTyped
<1>3. [primed |-> TRUE, applied |-> Primed] \in Reducer
      /\ [primed |-> TRUE, applied |-> Primed \cup {task.frame}] \in Reducer
  BY <1>2 DEF Reducer
<1> QED
  BY <1>3, Zenon DEF ReducerAfterFault, TypeOK

\* A step that writes no table keeps the table types and what the tables say of
\* frames, so only the worker's memory has to be looked at.
LEMMA TablesUntouched ==
    ASSUME IInv, UNCHANGED store, lifecycle' \in {"active", "closed"},
           proc' \in {"up", "stopping", "down"}, task' \in Task,
           reducer' \in Reducer, used' \in Counters
    PROVE  TypeOK' /\ FrameInv' /\ PendingDecoded' = PendingDecoded
<1>1. TypeOK'
  BY DEF IInv, TypeOK, store
<1> QED
  BY <1>1 DEF IInv, FrameInv, store, FrameIds, ProcessedIsDerived, ProcessedMessages,
              CheckpointsAnchored, PendingDecoded

\* The end of the coroutine leaves a well-typed idle worker.
LEMMA EndTaskTyped ==
    ASSUME TypeOK, EndTask
    PROVE  /\ task' \in Task /\ reducer' \in Reducer
           /\ proc' \in {"up", "stopping", "down"}
           /\ task' = NoTask
<1>1. NoTask \in Task
  BY DEF NoTask, Task, ControlPoint, FrameKind, StopReason
<1>2. FreshReducer \in Reducer
  BY DEF FreshReducer, Reducer
<1> QED
  BY <1>1, <1>2, Zenon DEF EndTask, TypeOK

\* The operator's stop writes only the lifecycle.
LEMMA OperatorStopInvariant == IInv /\ OperatorStop => IInv'
<1> SUFFICES ASSUME IInv, OperatorStop PROVE IInv'
  OBVIOUS
<1> USE DEF OperatorStop
<1>0. TypeOK
  BY DEF IInv
<1>1. task' \in Task
  BY <1>0 DEF TypeOK, Task, ControlPoint, FrameKind, StopReason
<1>2. TypeOK' /\ FrameInv' /\ PendingDecoded' = PendingDecoded
  BY <1>0, <1>1, TablesUntouched DEF IInv, TypeOK
<1>3. WorkInv'
  BY <1>2 DEF IInv, TypeOK, Task, WorkInv, AtFrame, FrameIds, store
<1>4. RunInv'
  BY DEF IInv, TypeOK, Task, RunInv, Working, ControlPoint, OneOpenRun, OpenRuns,
         StopReasonsTrue, store
<1>5. ConnInv'
  BY DEF IInv, TypeOK, Task, RunInv, ConnInv, Upstream, OpenConns, store
<1> QED
  BY <1>2, <1>3, <1>4, <1>5 DEF IInv

\* A hard kill forgets the memory and keeps the tables.
LEMMA CrashInvariant == IInv /\ Crash => IInv'
<1> SUFFICES ASSUME IInv, Crash PROVE IInv'
  OBVIOUS
<1> USE DEF Crash, NoTask, FreshReducer
<1>0. TypeOK
  BY DEF IInv
<1>1. task' \in Task /\ reducer' \in Reducer /\ used' \in Counters
  BY <1>0, Counting DEF Task, Reducer, ControlPoint, FrameKind, StopReason
<1>2. TypeOK' /\ FrameInv' /\ PendingDecoded' = PendingDecoded
  BY <1>0, <1>1, TablesUntouched DEF IInv, TypeOK
<1>3. WorkInv'
  BY <1>2 DEF IInv, TypeOK, Task, WorkInv, AtFrame, FrameIds, store
<1>4. RunInv'
  BY DEF IInv, TypeOK, Task, RunInv, Working, ControlPoint, OneOpenRun, OpenRuns,
         StopReasonsTrue, store
<1>5. ConnInv'
  BY DEF IInv, TypeOK, Task, RunInv, ConnInv, Upstream, OpenConns, store
<1> QED
  BY <1>2, <1>3, <1>4, <1>5 DEF IInv

\* A restarted process begins without a task.
LEMMA StartProcessInvariant == IInv /\ StartProcess => IInv'
<1> SUFFICES ASSUME IInv, StartProcess PROVE IInv'
  OBVIOUS
<1> USE DEF StartProcess
<1>0. TypeOK
  BY DEF IInv
<1>1. task' \in Task
  BY <1>0 DEF TypeOK, Task, ControlPoint, FrameKind, StopReason
<1>2. TypeOK' /\ FrameInv' /\ PendingDecoded' = PendingDecoded
  BY <1>0, <1>1, TablesUntouched DEF IInv, TypeOK
<1>3. WorkInv'
  BY <1>2 DEF IInv, TypeOK, Task, WorkInv, AtFrame, FrameIds, store
<1>4. RunInv'
  BY DEF IInv, TypeOK, Task, RunInv, Working, ControlPoint, OneOpenRun, OpenRuns,
         StopReasonsTrue, store
<1>5. ConnInv'
  BY DEF IInv, TypeOK, Task, RunInv, ConnInv, Upstream, OpenConns, store
<1> QED
  BY <1>2, <1>3, <1>4, <1>5 DEF IInv

\* The supervisor creates the task.
LEMMA SpawnInvariant == IInv /\ Spawn => IInv'
<1> SUFFICES ASSUME IInv, Spawn PROVE IInv'
  OBVIOUS
<1> USE DEF Spawn, Goto
<1>0. TypeOK
  BY DEF IInv
<1>1. task' \in Task
  BY <1>0 DEF TypeOK, Task, ControlPoint, FrameKind, StopReason
<1>2. TypeOK' /\ FrameInv' /\ PendingDecoded' = PendingDecoded
  BY <1>0, <1>1, TablesUntouched DEF IInv, TypeOK
<1>3. WorkInv'
  BY <1>2 DEF IInv, TypeOK, Task, WorkInv, AtFrame, FrameIds, store
<1>4. RunInv'
  BY DEF IInv, TypeOK, Task, RunInv, Working, ControlPoint, OneOpenRun, OpenRuns,
         StopReasonsTrue, store
<1>5. ConnInv'
  BY DEF IInv, TypeOK, Task, RunInv, ConnInv, Upstream, OpenConns, store
<1> QED
  BY <1>2, <1>3, <1>4, <1>5 DEF IInv

\* A refused start_run ends the task.
LEMMA StartRunRefusedInvariant == IInv /\ StartRunRefused => IInv'
<1> SUFFICES ASSUME IInv, StartRunRefused PROVE IInv'
  OBVIOUS
<1> USE DEF StartRunRefused, EndTask, NoTask
<1>0. TypeOK
  BY DEF IInv
<1>1. task' \in Task /\ reducer' \in Reducer /\ proc' \in {"up", "stopping", "down"}
      /\ task' = NoTask
  BY <1>0, EndTaskTyped
<1>2. TypeOK' /\ FrameInv' /\ PendingDecoded' = PendingDecoded
  BY <1>0, <1>1, TablesUntouched DEF IInv, TypeOK
<1>3. WorkInv'
  BY <1>2 DEF IInv, TypeOK, Task, WorkInv, AtFrame, FrameIds, store
<1>4. RunInv'
  BY DEF IInv, TypeOK, Task, RunInv, Working, ControlPoint, OneOpenRun, OpenRuns,
         StopReasonsTrue, store
<1>5. ConnInv'
  BY DEF IInv, TypeOK, Task, RunInv, ConnInv, Upstream, OpenConns, store
<1> QED
  BY <1>2, <1>3, <1>4, <1>5 DEF IInv

\* The replay work is exhausted.
LEMMA ReplayDoneInvariant == IInv /\ ReplayDone => IInv'
<1> SUFFICES ASSUME IInv, ReplayDone PROVE IInv'
  OBVIOUS
<1> USE DEF ReplayDone, Goto
<1>0. TypeOK
  BY DEF IInv
<1>1. task' \in Task
  BY <1>0 DEF TypeOK, Task, ControlPoint, FrameKind, StopReason
<1>2. TypeOK' /\ FrameInv' /\ PendingDecoded' = PendingDecoded
  BY <1>0, <1>1, TablesUntouched DEF IInv, TypeOK
<1>3. WorkInv'
  BY <1>2 DEF IInv, TypeOK, Task, WorkInv, AtFrame, FrameIds, store
<1>4. RunInv'
  BY DEF IInv, TypeOK, Task, RunInv, Working, ControlPoint, OneOpenRun, OpenRuns,
         StopReasonsTrue, store
<1>5. ConnInv'
  BY DEF IInv, TypeOK, Task, RunInv, ConnInv, Upstream, OpenConns, store
<1> QED
  BY <1>2, <1>3, <1>4, <1>5 DEF IInv

\* The head of the connection loop.
LEMMA ConnectInvariant == IInv /\ Connect => IInv'
<1> SUFFICES ASSUME IInv, Connect PROVE IInv'
  OBVIOUS
<1> USE DEF Connect
<1>0. TypeOK
  BY DEF IInv
<1>1. task' \in Task
  BY <1>0 DEF TypeOK, Task, ControlPoint, FrameKind, StopReason
<1>2. TypeOK' /\ FrameInv' /\ PendingDecoded' = PendingDecoded
  BY <1>0, <1>1, TablesUntouched DEF IInv, TypeOK
<1>3. WorkInv'
  BY <1>2 DEF IInv, TypeOK, Task, WorkInv, AtFrame, FrameIds, store
<1>4. RunInv'
  BY DEF IInv, TypeOK, Task, RunInv, Working, ControlPoint, OneOpenRun, OpenRuns,
         StopReasonsTrue, store
<1>5. ConnInv'
  BY DEF IInv, TypeOK, Task, RunInv, ConnInv, Upstream, OpenConns, store
<1> QED
  BY <1>2, <1>3, <1>4, <1>5 DEF IInv

\* The lifecycle read before a socket read.
LEMMA CheckActiveInvariant == IInv /\ CheckActive => IInv'
<1> SUFFICES ASSUME IInv, CheckActive PROVE IInv'
  OBVIOUS
<1> USE DEF CheckActive, Goto
<1>0. TypeOK
  BY DEF IInv
<1>1. task' \in Task
  BY <1>0 DEF TypeOK, Task, ControlPoint, FrameKind, StopReason
<1>2. TypeOK' /\ FrameInv' /\ PendingDecoded' = PendingDecoded
  BY <1>0, <1>1, TablesUntouched DEF IInv, TypeOK
<1>3. WorkInv'
  BY <1>2 DEF IInv, TypeOK, Task, WorkInv, AtFrame, FrameIds, store
<1>4. RunInv'
  BY DEF IInv, TypeOK, Task, RunInv, Working, ControlPoint, OneOpenRun, OpenRuns,
         StopReasonsTrue, store
<1>5. ConnInv'
  BY DEF IInv, TypeOK, Task, RunInv, ConnInv, Upstream, OpenConns, store
<1> QED
  BY <1>2, <1>3, <1>4, <1>5 DEF IInv

\* A read cancelled by the operator's stop.
LEMMA StopNoticedInvariant == IInv /\ StopNoticed => IInv'
<1> SUFFICES ASSUME IInv, StopNoticed PROVE IInv'
  OBVIOUS
<1> USE DEF StopNoticed, Goto
<1>0. TypeOK
  BY DEF IInv
<1>1. task' \in Task
  BY <1>0 DEF TypeOK, Task, ControlPoint, FrameKind, StopReason
<1>2. TypeOK' /\ FrameInv' /\ PendingDecoded' = PendingDecoded
  BY <1>0, <1>1, TablesUntouched DEF IInv, TypeOK
<1>3. WorkInv'
  BY <1>2 DEF IInv, TypeOK, Task, WorkInv, AtFrame, FrameIds, store
<1>4. RunInv'
  BY DEF IInv, TypeOK, Task, RunInv, Working, ControlPoint, OneOpenRun, OpenRuns,
         StopReasonsTrue, store
<1>5. ConnInv'
  BY DEF IInv, TypeOK, Task, RunInv, ConnInv, Upstream, OpenConns, store
<1> QED
  BY <1>2, <1>3, <1>4, <1>5 DEF IInv

\* The provider closes the socket.
LEMMA SourceDropInvariant == IInv /\ SourceDrop => IInv'
<1> SUFFICES ASSUME IInv, SourceDrop PROVE IInv'
  OBVIOUS
<1> USE DEF SourceDrop, Goto
<1>0. TypeOK
  BY DEF IInv
<1>1. task' \in Task /\ used' \in Counters
  BY <1>0, Counting DEF TypeOK, Task, ControlPoint, FrameKind, StopReason
<1>2. TypeOK' /\ FrameInv' /\ PendingDecoded' = PendingDecoded
  BY <1>0, <1>1, TablesUntouched DEF IInv, TypeOK
<1>3. WorkInv'
  BY <1>2 DEF IInv, TypeOK, Task, WorkInv, AtFrame, FrameIds, store
<1>4. RunInv'
  BY DEF IInv, TypeOK, Task, RunInv, Working, ControlPoint, OneOpenRun, OpenRuns,
         StopReasonsTrue, store
<1>5. ConnInv'
  BY DEF IInv, TypeOK, Task, RunInv, ConnInv, Upstream, OpenConns, store
<1> QED
  BY <1>2, <1>3, <1>4, <1>5 DEF IInv

\* The lifecycle read after a lost socket.
LEMMA AfterDisconnectInvariant == IInv /\ AfterDisconnect => IInv'
<1> SUFFICES ASSUME IInv, AfterDisconnect PROVE IInv'
  OBVIOUS
<1> USE DEF AfterDisconnect, Goto
<1>0. TypeOK
  BY DEF IInv
<1>1. task' \in Task
  BY <1>0 DEF TypeOK, Task, ControlPoint, FrameKind, StopReason
<1>2. TypeOK' /\ FrameInv' /\ PendingDecoded' = PendingDecoded
  BY <1>0, <1>1, TablesUntouched DEF IInv, TypeOK
<1>3. WorkInv'
  BY <1>2 DEF IInv, TypeOK, Task, WorkInv, AtFrame, FrameIds, store
<1>4. RunInv'
  BY DEF IInv, TypeOK, Task, RunInv, Working, ControlPoint, OneOpenRun, OpenRuns,
         StopReasonsTrue, store
<1>5. ConnInv'
  BY DEF IInv, TypeOK, Task, RunInv, ConnInv, Upstream, OpenConns, store
<1> QED
  BY <1>2, <1>3, <1>4, <1>5 DEF IInv

\* The backoff ends.
LEMMA BackoffElapsedInvariant == IInv /\ BackoffElapsed => IInv'
<1> SUFFICES ASSUME IInv, BackoffElapsed PROVE IInv'
  OBVIOUS
<1> USE DEF BackoffElapsed, Goto
<1>0. TypeOK
  BY DEF IInv
<1>1. task' \in Task
  BY <1>0 DEF TypeOK, Task, ControlPoint, FrameKind, StopReason
<1>2. TypeOK' /\ FrameInv' /\ PendingDecoded' = PendingDecoded
  BY <1>0, <1>1, TablesUntouched DEF IInv, TypeOK
<1>3. WorkInv'
  BY <1>2 DEF IInv, TypeOK, Task, WorkInv, AtFrame, FrameIds, store
<1>4. RunInv'
  BY DEF IInv, TypeOK, Task, RunInv, Working, ControlPoint, OneOpenRun, OpenRuns,
         StopReasonsTrue, store
<1>5. ConnInv'
  BY DEF IInv, TypeOK, Task, RunInv, ConnInv, Upstream, OpenConns, store
<1> QED
  BY <1>2, <1>3, <1>4, <1>5 DEF IInv

\* A start_run that raises ends the task.
LEMMA StartRunFaultInvariant == IInv /\ StartRunFault => IInv'
<1> SUFFICES ASSUME IInv, StartRunFault PROVE IInv'
  OBVIOUS
<1> USE DEF StartRunFault, SpendFault, EndTask, NoTask
<1>0. TypeOK
  BY DEF IInv
<1>1. task' \in Task /\ reducer' \in Reducer /\ proc' \in {"up", "stopping", "down"}
      /\ task' = NoTask /\ used' \in Counters
  BY <1>0, EndTaskTyped, Counting DEF SpendFault
<1>2. TypeOK' /\ FrameInv' /\ PendingDecoded' = PendingDecoded
  BY <1>0, <1>1, TablesUntouched DEF IInv, TypeOK
<1>3. WorkInv'
  BY <1>2 DEF IInv, TypeOK, Task, WorkInv, AtFrame, FrameIds, store
<1>4. RunInv'
  BY DEF IInv, TypeOK, Task, RunInv, Working, ControlPoint, OneOpenRun, OpenRuns,
         StopReasonsTrue, store
<1>5. ConnInv'
  BY DEF IInv, TypeOK, Task, RunInv, ConnInv, Upstream, OpenConns, store
<1> QED
  BY <1>2, <1>3, <1>4, <1>5 DEF IInv

\* A final handler that raises leaves the run row open.
LEMMA HandlerFaultInvariant == IInv /\ HandlerFault => IInv'
<1> SUFFICES ASSUME IInv, HandlerFault PROVE IInv'
  OBVIOUS
<1> USE DEF HandlerFault, SpendFault, EndTask, NoTask
<1>0. TypeOK
  BY DEF IInv
<1>1. task' \in Task /\ reducer' \in Reducer /\ proc' \in {"up", "stopping", "down"}
      /\ task' = NoTask /\ used' \in Counters
  BY <1>0, EndTaskTyped, Counting DEF SpendFault
<1>2. TypeOK' /\ FrameInv' /\ PendingDecoded' = PendingDecoded
  BY <1>0, <1>1, TablesUntouched DEF IInv, TypeOK
<1>3. WorkInv'
  BY <1>2 DEF IInv, TypeOK, Task, WorkInv, AtFrame, FrameIds, store
<1>4. RunInv'
  BY DEF IInv, TypeOK, Task, RunInv, Working, ControlPoint, OneOpenRun, OpenRuns,
         StopReasonsTrue, store
<1>5. ConnInv'
  BY DEF IInv, TypeOK, Task, RunInv, ConnInv, Upstream, OpenConns, store
<1> QED
  BY <1>2, <1>3, <1>4, <1>5 DEF IInv

\* A transaction that raises while a socket is read.
LEMMA FrameFaultInvariant == IInv /\ FrameFault => IInv'
<1> SUFFICES ASSUME IInv, FrameFault PROVE IInv'
  OBVIOUS
<1> USE DEF FrameFault, SpendFault, Goto
<1>0. TypeOK
  BY DEF IInv
<1>r. reducer' \in Reducer
  BY <1>0, ReducerFaultTyped
<1>1. task' \in Task /\ used' \in Counters /\ reducer' \in Reducer
  BY <1>0, <1>r, Counting DEF TypeOK, Task, ControlPoint, FrameKind, StopReason
<1>2. TypeOK' /\ FrameInv' /\ PendingDecoded' = PendingDecoded
  BY <1>0, <1>1, TablesUntouched DEF IInv, TypeOK
<1>3. WorkInv'
  BY <1>2 DEF IInv, TypeOK, Task, WorkInv, AtFrame, FrameIds, store
<1>4. RunInv'
  BY DEF IInv, TypeOK, Task, RunInv, Working, ControlPoint, OneOpenRun, OpenRuns,
         StopReasonsTrue, store
<1>5. ConnInv'
  BY DEF IInv, TypeOK, Task, RunInv, ConnInv, Upstream, OpenConns, store
<1> QED
  BY <1>2, <1>3, <1>4, <1>5 DEF IInv

\* A transaction that raises outside the inner handler.
LEMMA RunFaultInvariant == IInv /\ RunFault => IInv'
<1> SUFFICES ASSUME IInv, RunFault PROVE IInv'
  OBVIOUS
<1> USE DEF RunFault, SpendFault
<1>0. TypeOK
  BY DEF IInv
<1>r. reducer' \in Reducer
  BY <1>0, ReducerFaultTyped
<1>1. task' \in Task /\ used' \in Counters /\ reducer' \in Reducer
  BY <1>0, <1>r, Counting DEF TypeOK, Task, ControlPoint, FrameKind, StopReason
<1>2. TypeOK' /\ FrameInv' /\ PendingDecoded' = PendingDecoded
  BY <1>0, <1>1, TablesUntouched DEF IInv, TypeOK
<1>3. WorkInv'
  BY <1>2 DEF IInv, TypeOK, Task, WorkInv, AtFrame, FrameIds, store
<1>4. RunInv'
  BY DEF IInv, TypeOK, Task, RunInv, Working, ControlPoint, OneOpenRun, OpenRuns,
         StopReasonsTrue, store
<1>5. ConnInv'
  BY DEF IInv, TypeOK, Task, RunInv, ConnInv, Upstream, OpenConns, store
<1> QED
  BY <1>2, <1>3, <1>4, <1>5 DEF IInv

\* A cancellation reaches the task only where it awaits.
LEMMA GracefulStopInvariant == IInv /\ GracefulStop => IInv'
<1> SUFFICES ASSUME IInv, GracefulStop PROVE IInv'
  OBVIOUS
<1>0. TypeOK /\ UNCHANGED <<lifecycle, store>> /\ used' \in Counters
  BY Counting DEF IInv, GracefulStop
<1>a. CASE task.pc \in {"none", "spawned"}
  <2>0. proc' = "down" /\ task' = NoTask /\ reducer' = FreshReducer
    BY <1>a DEF GracefulStop
  <2>1. task' \in Task /\ reducer' \in Reducer
    BY <2>0 DEF NoTask, FreshReducer, Task, Reducer, ControlPoint, FrameKind, StopReason
  <2>2. TypeOK' /\ FrameInv' /\ PendingDecoded' = PendingDecoded
    BY <1>0, <2>0, <2>1, TablesUntouched DEF TypeOK
  <2>3. WorkInv'
    BY <2>0, <2>2 DEF WorkInv, NoTask, AtFrame
  <2>4. RunInv'
    BY <1>0, <2>0 DEF IInv, RunInv, NoTask, Working, OneOpenRun, OpenRuns, StopReasonsTrue, store
  <2>5. ConnInv'
    BY <2>0 DEF ConnInv, NoTask, Upstream
  <2> QED
    BY <2>2, <2>3, <2>4, <2>5 DEF IInv
<1>b. CASE task.pc \in {"reading", "backoff"}
  <2>0. /\ proc' = "stopping" /\ reducer' = reducer
        /\ task' = [task EXCEPT !.pc = IF task.pc = "reading" THEN "closing" ELSE "cancelled",
                                !.reason = "supervisor_cancelled"]
    BY <1>b DEF GracefulStop
  <2>1. task' \in Task
    BY <1>0, <2>0 DEF TypeOK, Task, ControlPoint, StopReason
  <2>2. TypeOK' /\ FrameInv' /\ PendingDecoded' = PendingDecoded
    BY <1>0, <2>0, <2>1, TablesUntouched DEF TypeOK
  <2>3. WorkInv'
    BY <1>b, <1>0, <2>0, <2>2 DEF IInv, TypeOK, Task, WorkInv, AtFrame
  <2>4. RunInv'
    BY <1>b, <1>0, <2>0 DEF IInv, TypeOK, Task, RunInv, Working, ControlPoint, OneOpenRun,
         OpenRuns, StopReasonsTrue, store
  <2>5. ConnInv'
    BY <1>b, <1>0, <2>0 DEF IInv, TypeOK, Task, ConnInv, Upstream, OpenConns, store
  <2> QED
    BY <2>2, <2>3, <2>4, <2>5 DEF IInv
<1> QED
  BY <1>a, <1>b DEF GracefulStop

\* The replay takes the oldest frame of its work list.
LEMMA ReplayNextInvariant == IInv /\ ReplayNext => IInv'
<1> SUFFICES ASSUME IInv, ReplayNext PROVE IInv'
  OBVIOUS
<1>0. TypeOK /\ UNCHANGED <<lifecycle, store, proc, reducer, used>> /\ task.pc = "replay"
  BY DEF IInv, ReplayNext
<1>1. PICK f \in task.replay :
        task' = [task EXCEPT !.pc = IF frames[f].kind = "messages" THEN "process" ELSE "mark",
                             !.frame = f, !.kind = frames[f].kind,
                             !.replay = @ \ {f}]
  BY DEF ReplayNext
<1>2. /\ f \in FrameIds /\ f \in Nat /\ frames[f] \in Frame
      /\ frames[f].state = "decoded" /\ ~frames[f].processed
  BY <1>0, Tables DEF IInv, WorkInv, PendingDecoded, FrameIds
<1>3. task' \in Task
  BY <1>0, <1>1, <1>2 DEF TypeOK, Task, ControlPoint, Frame, FrameKind
<1>4. TypeOK' /\ FrameInv' /\ PendingDecoded' = PendingDecoded
  BY <1>0, <1>3, TablesUntouched DEF TypeOK
<1>5. WorkInv'
  <2>1. task'.replay = task.replay \ {f} /\ task'.frame = f /\ task'.conn = task.conn
        /\ task'.kind = frames[f].kind /\ task'.pc \in {"process", "mark"}
        /\ (task'.pc = "process" <=> frames[f].kind = "messages")
    BY <1>0, <1>1 DEF TypeOK, Task
  <2> QED
    BY <1>0, <1>2, <1>4, <2>1 DEF IInv, WorkInv, AtFrame, FrameIds, store
<1>6. RunInv'
  BY <1>0, <1>1 DEF IInv, TypeOK, Task, RunInv, Working, ControlPoint, OneOpenRun, OpenRuns,
       StopReasonsTrue, store
<1>7. ConnInv'
  BY <1>0, <1>1 DEF IInv, TypeOK, Task, ConnInv, Upstream, OpenConns, store
<1> QED
  BY <1>4, <1>5, <1>6, <1>7 DEF IInv
-----------------------------------------------------------------------------
(* Steps that write a table.                                               *)

\* A step that writes no frame, fact, metric or checkpoint keeps FrameInv.
LEMMA FramesUntouched ==
    ASSUME FrameInv, UNCHANGED <<frames, facts, metrics, ckpts>>
    PROVE  FrameInv' /\ PendingDecoded' = PendingDecoded
BY DEF FrameInv, FrameIds, ProcessedIsDerived, ProcessedMessages, CheckpointsAnchored,
       PendingDecoded

\* A frame read from the socket is only in memory.
LEMMA ReceiveFrameInvariant ==
    ASSUME IInv, NEW k \in Kinds, ReceiveFrame(k)
    PROVE  IInv'
<1> USE DEF ReceiveFrame
<1>0. TypeOK /\ k \in FrameKind
  BY KindsAssumption DEF IInv, FrameKind
<1>1. task' \in Task
  BY <1>0 DEF TypeOK, Task, ControlPoint
<1>2. TypeOK' /\ FrameInv' /\ PendingDecoded' = PendingDecoded
  BY <1>0, <1>1, TablesUntouched DEF TypeOK
<1>3. WorkInv'
  BY <1>2 DEF IInv, TypeOK, Task, WorkInv, AtFrame, FrameIds, store
<1>4. RunInv'
  BY DEF IInv, TypeOK, Task, RunInv, Working, ControlPoint, OneOpenRun, OpenRuns,
         StopReasonsTrue, store
<1>5. ConnInv'
  BY DEF IInv, TypeOK, Task, RunInv, ConnInv, Upstream, OpenConns, store
<1> QED
  BY <1>2, <1>3, <1>4, <1>5 DEF IInv

\* The first frame of a socket inserts its connection row.
LEMMA OpenConnectionInvariant == IInv /\ OpenConnection => IInv'
<1> SUFFICES ASSUME IInv, OpenConnection PROVE IInv'
  OBVIOUS
<1>0. TypeOK /\ task.pc = "open"
      /\ UNCHANGED <<lifecycle, runs, gaps, frames, facts, metrics, ckpts, proc, reducer, used>>
  BY DEF IInv, OpenConnection
<1> DEFINE row == [run |-> task.run, open |-> TRUE, at |-> Len(frames)]
<1>1. row \in Connection /\ conns' = Append(conns, row)
  BY <1>0, Tables DEF OpenConnection, Connection, TypeOK, Task
<1>2. /\ conns' \in Seq(Connection)
      /\ DOMAIN conns' = 1..Len(conns) + 1
      /\ conns'[Len(conns) + 1] = row
  <2> HIDE DEF row
  <2> QED
    BY <1>0, <1>1, AppendProperties, LenProperties DEF TypeOK
<1>3. /\ task'.pc \in {"close_gap", "persist"} /\ task'.conn = Len(conns) + 1
      /\ task'.pc = "close_gap" <=> task.gap # 0
      /\ task'.run = task.run /\ task'.gap = task.gap /\ task'.replay = task.replay
      /\ task'.reason = task.reason /\ task' \in Task
  <2> DEFINE n == Len(conns) + 1
  <2>1. n \in Nat /\ task \in Task
    BY <1>0, Tables DEF TypeOK
  <2>2. task' = [task EXCEPT !.conn = n, !.pc = IF task.gap # 0 THEN "close_gap" ELSE "persist"]
    BY DEF OpenConnection
  <2> HIDE DEF n
  <2>3. task'.conn = n
    BY <2>1, <2>2 DEF Task
  <2>4. task' \in Task
    BY <2>1, <2>2 DEF Task, ControlPoint
  <2> QED
    BY <2>1, <2>2, <2>3, <2>4 DEF Task, n
<1>4. TypeOK'
  BY <1>0, <1>2, <1>3 DEF TypeOK
<1>5. FrameInv' /\ PendingDecoded' = PendingDecoded
  BY <1>0, FramesUntouched DEF IInv
<1>6. WorkInv'
  BY <1>0, <1>3, <1>5 DEF IInv, WorkInv, AtFrame
<1>7. RunInv'
  BY <1>0, <1>3 DEF IInv, RunInv, Working, ControlPoint, OneOpenRun, OpenRuns, StopReasonsTrue
<1>8. ConnInv'
  BY <1>0, <1>1, <1>2, <1>3, Tables DEF IInv, ConnInv, Upstream, OpenConns
<1> QED
  BY <1>4, <1>5, <1>6, <1>7, <1>8 DEF IInv

\* close_gap rewrites one gap row in place.
LEMMA CloseGapInvariant == IInv /\ CloseGap => IInv'
<1> SUFFICES ASSUME IInv, CloseGap PROVE IInv'
  OBVIOUS
<1>0. TypeOK /\ task.pc = "close_gap" /\ task.gap \in DOMAIN gaps
      /\ UNCHANGED <<lifecycle, runs, conns, frames, facts, metrics, ckpts, proc, reducer, used>>
  BY DEF IInv, CloseGap, ConnInv
<1> DEFINE row == IF gaps[task.gap].open
                  THEN [gaps[task.gap] EXCEPT !.open = FALSE, !.to = Len(frames)]
                  ELSE gaps[task.gap]
<1>1. row \in Gap /\ gaps' = [gaps EXCEPT ![task.gap] = row]
  BY <1>0, Tables DEF CloseGap, Gap
<1>2. gaps' \in Seq(Gap) /\ DOMAIN gaps' = DOMAIN gaps
  <2> HIDE DEF row
  <2> QED
    BY <1>0, <1>1, ExceptSeq DEF TypeOK
<1>3. /\ task'.pc = "persist" /\ task'.gap = 0 /\ task'.conn = task.conn
      /\ task'.run = task.run /\ task'.replay = task.replay
      /\ task'.reason = task.reason /\ task' \in Task
  BY <1>0 DEF CloseGap, TypeOK, Task, ControlPoint
<1>4. TypeOK'
  BY <1>0, <1>2, <1>3 DEF TypeOK
<1>5. FrameInv' /\ PendingDecoded' = PendingDecoded
  BY <1>0, FramesUntouched DEF IInv
<1>6. WorkInv'
  BY <1>0, <1>3, <1>5 DEF IInv, WorkInv, AtFrame
<1>7. RunInv'
  BY <1>0, <1>3 DEF IInv, RunInv, Working, ControlPoint, OneOpenRun, OpenRuns, StopReasonsTrue
<1>8. ConnInv'
  BY <1>0, <1>3 DEF IInv, ConnInv, Upstream, OpenConns
<1> QED
  BY <1>4, <1>5, <1>6, <1>7, <1>8 DEF IInv

\* A new gap row keeps the type and only grows the table.
LEMMA GapAppended ==
    ASSUME TypeOK, NEW b \in Nat,
           gaps' = Append(gaps, [from |-> b, open |-> TRUE, to |-> 0])
    PROVE  gaps' \in Seq(Gap) /\ DOMAIN gaps' = 1..Len(gaps) + 1
<1> DEFINE row == [from |-> b, open |-> TRUE, to |-> 0]
<1>1. row \in Gap
  BY DEF Gap
<1> HIDE DEF row
<1> QED
  BY <1>1, AppendProperties, LenProperties DEF TypeOK, row

\* A lost socket inserts a gap and the task remembers it.
LEMMA RecordGapInvariant == IInv /\ RecordGap => IInv'
<1> SUFFICES ASSUME IInv, RecordGap PROVE IInv'
  OBVIOUS
<1>0. TypeOK /\ task.pc = "record_gap"
      /\ UNCHANGED <<lifecycle, runs, conns, frames, facts, metrics, ckpts, proc, reducer, used>>
  BY DEF IInv, RecordGap
<1>2. gaps' \in Seq(Gap) /\ DOMAIN gaps' = 1..Len(gaps) + 1
  BY <1>0, Tables, GapAppended DEF RecordGap
<1>3. /\ task'.pc = "backoff" /\ task'.gap = Len(gaps) + 1 /\ task'.conn = task.conn
      /\ task'.run = task.run /\ task'.replay = task.replay
      /\ task'.reason = task.reason /\ task' \in Task
  <2> DEFINE n == Len(gaps) + 1
  <2>1. n \in Nat /\ task \in Task
    BY <1>0, Tables DEF TypeOK
  <2>2. task' = [task EXCEPT !.pc = "backoff", !.gap = n]
    BY DEF RecordGap
  <2> HIDE DEF n
  <2>3. task'.gap = n
    BY <2>1, <2>2 DEF Task
  <2>4. task' \in Task
    BY <2>1, <2>2 DEF Task, ControlPoint
  <2> QED
    BY <2>1, <2>2, <2>3, <2>4 DEF Task, n
<1>4. TypeOK'
  BY <1>0, <1>2, <1>3 DEF TypeOK
<1>5. FrameInv' /\ PendingDecoded' = PendingDecoded
  BY <1>0, FramesUntouched DEF IInv
<1>6. WorkInv'
  BY <1>0, <1>3, <1>5 DEF IInv, WorkInv, AtFrame
<1>7. RunInv'
  BY <1>0, <1>3 DEF IInv, RunInv, Working, ControlPoint, OneOpenRun, OpenRuns, StopReasonsTrue
<1>8. ConnInv'
  BY <1>0, <1>2, <1>3, Tables DEF IInv, ConnInv, Upstream, OpenConns
<1> QED
  BY <1>4, <1>5, <1>6, <1>7, <1>8 DEF IInv

\* The cancellation handler inserts a gap or keeps the pending one.
LEMMA HandleCancelInvariant == IInv /\ HandleCancel => IInv'
<1> SUFFICES ASSUME IInv, HandleCancel PROVE IInv'
  OBVIOUS
<1>0. TypeOK /\ task.pc = "cancelled"
      /\ UNCHANGED <<lifecycle, runs, conns, frames, facts, metrics, ckpts, proc, reducer, used>>
  BY DEF IInv, HandleCancel
<1>2. gaps' \in Seq(Gap) /\ DOMAIN gaps \subseteq DOMAIN gaps'
      /\ (task.gap = 0 /\ lifecycle = "active" => DOMAIN gaps' = 1..Len(gaps) + 1)
  <2>1. CASE task.gap = 0 /\ lifecycle = "active"
    BY <1>0, <2>1, Tables, GapAppended DEF HandleCancel
  <2>2. CASE ~(task.gap = 0 /\ lifecycle = "active")
    BY <1>0, <2>2 DEF HandleCancel, TypeOK
  <2> QED
    BY <2>1, <2>2
<1>3. /\ task'.pc = "finish" /\ task'.gap \in {0} \cup DOMAIN gaps' /\ task'.conn = task.conn
      /\ task'.run = task.run /\ task'.replay = task.replay
      /\ task'.reason = task.reason /\ task' \in Task
  <2>1. CASE task.gap = 0 /\ lifecycle = "active"
    <3> DEFINE n == Len(gaps) + 1
    <3>1. n \in Nat /\ n \in DOMAIN gaps' /\ task \in Task
      BY <1>0, <1>2, <2>1, Tables DEF TypeOK
    <3>2. task' = [task EXCEPT !.pc = "finish", !.gap = n]
      BY <2>1 DEF HandleCancel
    <3> HIDE DEF n
    <3>3. task'.gap = n
      BY <3>1, <3>2 DEF Task
    <3>4. task' \in Task
      BY <3>1, <3>2 DEF Task, ControlPoint
    <3> QED
      BY <3>1, <3>2, <3>3, <3>4 DEF Task
  <2>2. CASE ~(task.gap = 0 /\ lifecycle = "active")
    BY <1>0, <2>2 DEF IInv, HandleCancel, Goto, ConnInv, TypeOK, Task, ControlPoint
  <2> QED
    BY <2>1, <2>2
<1>4. TypeOK'
  BY <1>0, <1>2, <1>3 DEF TypeOK
<1>5. FrameInv' /\ PendingDecoded' = PendingDecoded
  BY <1>0, FramesUntouched DEF IInv
<1>6. WorkInv'
  BY <1>0, <1>3, <1>5 DEF IInv, WorkInv, AtFrame
<1>7. RunInv'
  BY <1>0, <1>3 DEF IInv, RunInv, Working, ControlPoint, OneOpenRun, OpenRuns, StopReasonsTrue
<1>8. ConnInv'
  BY <1>0, <1>3 DEF ConnInv, Upstream
<1> QED
  BY <1>4, <1>5, <1>6, <1>7, <1>8 DEF IInv

\* The finally block closes the remembered connection.
LEMMA CloseConnectionInvariant == IInv /\ CloseConnection => IInv'
<1> SUFFICES ASSUME IInv, CloseConnection PROVE IInv'
  OBVIOUS
<1>0. TypeOK /\ task.pc = "closing"
      /\ UNCHANGED <<lifecycle, runs, gaps, frames, facts, metrics, ckpts, proc, reducer, used>>
  BY DEF IInv, CloseConnection
<1>1. conns' \in Seq(Connection)
  <2>1. CASE task.conn = 0
    BY <1>0, <2>1 DEF CloseConnection, TypeOK
  <2>2. CASE task.conn # 0
    <3>1. task.conn \in DOMAIN conns /\ conns[task.conn] \in Connection
      BY <1>0, <2>2, Tables DEF IInv, ConnInv, Upstream, OpenConns
    <3> DEFINE row == [conns[task.conn] EXCEPT !.open = FALSE]
    <3>2. row \in Connection /\ conns' = [conns EXCEPT ![task.conn] = row]
      BY <2>2, <3>1 DEF CloseConnection, Connection
    <3> HIDE DEF row
    <3> QED
      BY <1>0, <3>1, <3>2, ExceptSeq DEF TypeOK
  <2> QED
    BY <2>1, <2>2
<1>3. /\ task'.pc \in {"cancelled", "disconnected"} /\ task'.gap = task.gap
      /\ task'.run = task.run /\ task'.replay = task.replay
      /\ task'.reason = task.reason /\ task' \in Task
  BY <1>0 DEF CloseConnection, Goto, TypeOK, Task, ControlPoint
<1>4. TypeOK'
  BY <1>0, <1>1, <1>3 DEF TypeOK
<1>5. FrameInv' /\ PendingDecoded' = PendingDecoded
  BY <1>0, FramesUntouched DEF IInv
<1>6. WorkInv'
  BY <1>0, <1>3, <1>5 DEF IInv, WorkInv, AtFrame
<1>7. RunInv'
  BY <1>0, <1>3 DEF IInv, RunInv, Working, ControlPoint, OneOpenRun, OpenRuns, StopReasonsTrue
<1>8. ConnInv'
  BY <1>0, <1>3 DEF IInv, ConnInv, Upstream
<1> QED
  BY <1>4, <1>5, <1>6, <1>7, <1>8 DEF IInv

\* persist_raw_frame appends a pending frame under the live connection.
LEMMA PersistRawFrameInvariant == IInv /\ PersistRawFrame => IInv'
<1> SUFFICES ASSUME IInv, PersistRawFrame PROVE IInv'
  OBVIOUS
<1>0. TypeOK /\ task.pc = "persist" /\ task.conn # 0
      /\ UNCHANGED <<lifecycle, runs, conns, gaps, facts, metrics, ckpts, proc, reducer, used>>
  BY DEF IInv, PersistRawFrame, ConnInv
<1> DEFINE row == [conn |-> task.conn, kind |-> task.kind, state |-> "pending", processed |-> FALSE]
           n == Len(frames) + 1
<1>1. row \in Frame /\ frames' = Append(frames, row)
  BY <1>0 DEF PersistRawFrame, Frame, TypeOK, Task
<1>2. /\ frames' \in Seq(Frame)
      /\ n \in Nat /\ n \notin DOMAIN frames
      /\ DOMAIN frames' = DOMAIN frames \cup {n}
      /\ \A f \in DOMAIN frames : frames'[f] = frames[f]
      /\ frames'[n] = row
  <2> HIDE DEF row
  <2> QED
    BY <1>0, <1>1, Tables, AppendProperties, LenProperties DEF TypeOK
<1>3. /\ task'.pc = "decode" /\ task'.frame = n /\ task'.kind = task.kind
      /\ task'.conn = task.conn /\ task'.gap = task.gap
      /\ task'.run = task.run /\ task'.replay = task.replay
      /\ task'.reason = task.reason /\ task' \in Task
  <2>1. task' = [task EXCEPT !.pc = "decode", !.frame = n] /\ task \in Task
    BY <1>0 DEF PersistRawFrame, TypeOK
  <2> HIDE DEF n
  <2> QED
    BY <1>2, <2>1 DEF Task, ControlPoint
<1> HIDE DEF n
<1>4. TypeOK'
  BY <1>0, <1>2, <1>3 DEF TypeOK
<1>5. FrameInv' /\ PendingDecoded' = PendingDecoded /\ ProcessedMessages' = ProcessedMessages
  <2>1. PendingDecoded' = PendingDecoded /\ ProcessedMessages' = ProcessedMessages
    BY <1>2 DEF PendingDecoded, ProcessedMessages, FrameIds
  <2> QED
    BY <1>0, <1>2, <2>1 DEF IInv, FrameInv, FrameIds, ProcessedIsDerived, CheckpointsAnchored
<1>6. WorkInv'
  <2>1. n \notin task.replay
    BY <1>2 DEF IInv, WorkInv, PendingDecoded, FrameIds
  <2> QED
    BY <1>0, <1>2, <1>3, <1>5, <2>1 DEF IInv, WorkInv, AtFrame, FrameIds
<1>7. RunInv'
  BY <1>0, <1>3 DEF IInv, RunInv, Working, ControlPoint, OneOpenRun, OpenRuns, StopReasonsTrue
<1>8. ConnInv'
  BY <1>0, <1>3 DEF IInv, ConnInv, Upstream, OpenConns
<1> QED
  BY <1>4, <1>5, <1>6, <1>7, <1>8 DEF IInv

\* decode_frame moves the frame to decoded, or to failed for good.
LEMMA DecodeFrameInvariant == IInv /\ DecodeFrame => IInv'
<1> SUFFICES ASSUME IInv, DecodeFrame PROVE IInv'
  OBVIOUS
<1> DEFINE n == task.frame
           row == IF frames[n].kind = "malformed"
                  THEN [frames[n] EXCEPT !.state = "failed", !.processed = TRUE]
                  ELSE [frames[n] EXCEPT !.state = "decoded"]
<1>0. TypeOK /\ task.pc = "decode" /\ n \in DOMAIN frames /\ frames[n] \in Frame
      /\ frames[n].kind = task.kind /\ frames[n].state = "pending" /\ ~frames[n].processed
      /\ UNCHANGED <<lifecycle, runs, conns, gaps, facts, metrics, ckpts, proc, reducer, used>>
  BY Tables DEF IInv, DecodeFrame, WorkInv, AtFrame, FrameIds
<1>1. /\ row \in Frame /\ frames' = [frames EXCEPT ![n] = row]
      /\ row.kind = frames[n].kind /\ row.conn = frames[n].conn
      /\ row.kind = "malformed" => row.state = "failed" /\ row.processed
      /\ row.kind # "malformed" => row.state = "decoded" /\ ~row.processed
  BY <1>0 DEF DecodeFrame, Frame
<1>2. /\ frames' \in Seq(Frame) /\ DOMAIN frames' = DOMAIN frames
      /\ \A f \in DOMAIN frames : f # n => frames'[f] = frames[f]
      /\ frames'[n] = row
  <2> HIDE DEF row
  <2> QED
    BY <1>0, <1>1, ExceptSeq DEF TypeOK
<1> HIDE DEF row
<1>3. /\ (task.kind = "malformed" => task'.pc = "check")
      /\ (task.kind = "empty" => task'.pc = "mark")
      /\ (task.kind = "messages" => task'.pc = "process")
      /\ task'.frame = n /\ task'.kind = task.kind
      /\ task'.conn = task.conn /\ task'.gap = task.gap
      /\ task'.run = task.run /\ task'.replay = task.replay
      /\ task'.reason = task.reason /\ task' \in Task
  <2>1. task.kind \in {"malformed", "empty", "messages"} /\ task \in Task
    BY <1>0 DEF TypeOK, Task, FrameKind
  <2>2. PICK p \in {"check", "mark", "process"} :
          /\ task' = [task EXCEPT !.pc = p]
          /\ (task.kind = "malformed" => p = "check")
          /\ (task.kind = "empty" => p = "mark")
          /\ (task.kind = "messages" => p = "process")
    BY <2>1 DEF DecodeFrame, Goto
  <2> QED
    BY <2>1, <2>2 DEF Task, ControlPoint
<1>4. TypeOK'
  BY <1>0, <1>2, <1>3 DEF TypeOK
<1>5. FrameInv'
  <2>1. ProcessedMessages' = ProcessedMessages
    BY <1>0, <1>1, <1>2 DEF ProcessedMessages, FrameIds
  <2>2. facts \subseteq {f \in FrameIds : frames[f].state = "decoded"
                                         /\ frames[f].kind = "messages"} \ {n}
    BY <1>0 DEF IInv, FrameInv
  <2> QED
    BY <1>0, <1>1, <1>2, <2>1, <2>2 DEF IInv, FrameInv, FrameIds, ProcessedIsDerived,
         CheckpointsAnchored
<1>6. WorkInv'
  <2>1. task.replay = {} /\ task.conn # 0
    BY <1>0 DEF IInv, WorkInv, ConnInv
  <2>2. task.kind \in {"malformed", "empty", "messages"}
    BY <1>0 DEF TypeOK, Task, FrameKind
  <2> QED
    BY <1>0, <1>1, <1>2, <1>3, <2>1, <2>2 DEF WorkInv, AtFrame, FrameIds
<1>7. RunInv'
  <2>1. task'.pc \in {"check", "mark", "process"}
    BY <1>0, <1>3 DEF TypeOK, Task, FrameKind
  <2> QED
    BY <1>0, <1>3, <2>1 DEF IInv, RunInv, Working, ControlPoint, OneOpenRun, OpenRuns, StopReasonsTrue
<1>8. ConnInv'
  <2>1. task'.pc \in {"check", "mark", "process"}
    BY <1>0, <1>3 DEF TypeOK, Task, FrameKind
  <2> QED
    BY <1>0, <1>3, <2>1 DEF IInv, ConnInv, Upstream, OpenConns
<1> QED
  BY <1>4, <1>5, <1>6, <1>7, <1>8 DEF IInv

\* The first transaction of process_frame commits the facts of the frame.
LEMMA ProcessFrameInvariant == IInv /\ ProcessFrame => IInv'
<1> SUFFICES ASSUME IInv, ProcessFrame PROVE IInv'
  OBVIOUS
<1>0. TypeOK /\ task.pc = "process" /\ task.frame \in FrameIds /\ task.frame \in Nat
      /\ frames[task.frame].state = "decoded" /\ frames[task.frame].kind = "messages"
      /\ facts' = facts \cup {task.frame}
      /\ UNCHANGED <<lifecycle, runs, conns, gaps, frames, metrics, ckpts, proc, used>>
  BY Tables DEF IInv, ProcessFrame, WorkInv, AtFrame, FrameIds
<1>1. reducer' \in Reducer
  <2>1. Primed \cup {task.frame} \subseteq Nat
    BY <1>0, PrimedTyped
  <2> QED
    BY <2>1 DEF ProcessFrame, Reducer
<1>3. /\ task'.pc = "metrics" /\ task'.frame = task.frame /\ task'.kind = task.kind
      /\ task'.conn = task.conn /\ task'.gap = task.gap
      /\ task'.run = task.run /\ task'.replay = task.replay
      /\ task'.reason = task.reason /\ task' \in Task
  BY <1>0 DEF ProcessFrame, Goto, TypeOK, Task, ControlPoint
<1>4. TypeOK'
  BY <1>0, <1>1, <1>3 DEF TypeOK
<1>5. FrameInv' /\ PendingDecoded' = PendingDecoded
  <2>1. ProcessedMessages' = ProcessedMessages /\ PendingDecoded' = PendingDecoded
    BY <1>0 DEF ProcessedMessages, PendingDecoded, FrameIds
  <2> QED
    BY <1>0, <2>1 DEF IInv, FrameInv, FrameIds, ProcessedIsDerived, CheckpointsAnchored
<1>6. WorkInv'
  BY <1>0, <1>3, <1>5 DEF IInv, WorkInv, AtFrame, FrameIds
<1>7. RunInv'
  BY <1>0, <1>3 DEF IInv, RunInv, Working, ControlPoint, OneOpenRun, OpenRuns, StopReasonsTrue
<1>8. ConnInv'
  BY <1>0, <1>3 DEF IInv, ConnInv, Upstream, OpenConns
<1> QED
  BY <1>4, <1>5, <1>6, <1>7, <1>8 DEF IInv

\* The second transaction commits the metrics of a frame whose facts exist.
LEMMA ProcessMetricsInvariant == IInv /\ ProcessMetrics => IInv'
<1> SUFFICES ASSUME IInv, ProcessMetrics PROVE IInv'
  OBVIOUS
<1>0. TypeOK /\ task.pc = "metrics" /\ task.frame \in FrameIds /\ task.frame \in Nat
      /\ task.frame \in facts /\ metrics' = metrics \cup {task.frame}
      /\ UNCHANGED <<lifecycle, runs, conns, gaps, frames, facts, ckpts, proc, reducer, used>>
  BY Tables DEF IInv, ProcessMetrics, WorkInv, AtFrame, FrameIds
<1>3. /\ task'.pc = "mark" /\ task'.frame = task.frame /\ task'.kind = task.kind
      /\ task'.conn = task.conn /\ task'.gap = task.gap
      /\ task'.run = task.run /\ task'.replay = task.replay
      /\ task'.reason = task.reason /\ task' \in Task
  BY <1>0 DEF ProcessMetrics, Goto, TypeOK, Task, ControlPoint
<1>4. TypeOK'
  BY <1>0, <1>3 DEF TypeOK
<1>5. FrameInv' /\ PendingDecoded' = PendingDecoded
  <2>1. ProcessedMessages' = ProcessedMessages /\ PendingDecoded' = PendingDecoded
    BY <1>0 DEF ProcessedMessages, PendingDecoded, FrameIds
  <2> QED
    BY <1>0, <2>1 DEF IInv, FrameInv, FrameIds, ProcessedIsDerived, CheckpointsAnchored
<1>6. WorkInv'
  BY <1>0, <1>3, <1>5 DEF IInv, WorkInv, AtFrame, FrameIds
<1>7. RunInv'
  BY <1>0, <1>3 DEF IInv, RunInv, Working, ControlPoint, OneOpenRun, OpenRuns, StopReasonsTrue
<1>8. ConnInv'
  BY <1>0, <1>3 DEF IInv, ConnInv, Upstream, OpenConns
<1> QED
  BY <1>4, <1>5, <1>6, <1>7, <1>8 DEF IInv

\* mark_processed sets the marker and saves the checkpoint together, so a
\* checkpoint can only name the frame the same transaction marks.
LEMMA MarkProcessedInvariant == IInv /\ MarkProcessed => IInv'
<1> SUFFICES ASSUME IInv, MarkProcessed PROVE IInv'
  OBVIOUS
<1> DEFINE n == task.frame
           row == [frames[n] EXCEPT !.processed = TRUE]
           saved == [frame |-> n, seen |-> reducer.applied]
<1>0. TypeOK /\ task.pc = "mark" /\ n \in DOMAIN frames /\ n \in Nat /\ frames[n] \in Frame
      /\ frames[n].kind = task.kind /\ frames[n].state = "decoded" /\ ~frames[n].processed
      /\ n \notin task.replay
      /\ UNCHANGED <<lifecycle, runs, conns, gaps, facts, metrics, proc, reducer, used>>
  BY Tables DEF IInv, MarkProcessed, WorkInv, AtFrame, FrameIds
<1>1. /\ row \in Frame /\ frames' = [frames EXCEPT ![n] = row]
      /\ row.kind = frames[n].kind /\ row.conn = frames[n].conn
      /\ row.state = frames[n].state /\ row.processed
  BY <1>0 DEF MarkProcessed, Frame
<1>2. /\ frames' \in Seq(Frame) /\ DOMAIN frames' = DOMAIN frames
      /\ \A f \in DOMAIN frames : f # n => frames'[f] = frames[f]
      /\ frames'[n] = row
  <2> HIDE DEF row
  <2> QED
    BY <1>0, <1>1, ExceptSeq DEF TypeOK
<1> HIDE DEF row
<1>3. /\ task'.pc = (IF task.conn = 0 THEN "replay" ELSE "check")
      /\ task'.frame = n /\ task'.kind = task.kind
      /\ task'.conn = task.conn /\ task'.gap = task.gap
      /\ task'.run = task.run /\ task'.replay = task.replay
      /\ task'.reason = task.reason /\ task' \in Task
  BY <1>0 DEF MarkProcessed, TypeOK, Task, ControlPoint
<1>4. saved \in Checkpoint /\ ckpts' \subseteq ckpts \cup {saved}
      /\ (task.kind # "messages" => ckpts' = ckpts)
  BY <1>0 DEF MarkProcessed, CheckpointChoices, TypeOK, Reducer, Checkpoint
<1>5. TypeOK'
  BY <1>0, <1>2, <1>3, <1>4 DEF TypeOK
<1>6. ProcessedMessages' = ProcessedMessages \cup (IF task.kind = "messages" THEN {n} ELSE {})
      /\ PendingDecoded' = PendingDecoded \ {n}
  BY <1>0, <1>1, <1>2 DEF ProcessedMessages, PendingDecoded, FrameIds
<1>7. FrameInv'
  <2>1. task.kind = "messages" => n \in facts \cap metrics
    BY <1>0 DEF IInv, WorkInv
  <2>2. ProcessedIsDerived'
    BY <1>0, <1>6, <2>1 DEF IInv, FrameInv, ProcessedIsDerived
  <2>3. CheckpointsAnchored'
    BY <1>4, <1>6 DEF IInv, FrameInv, CheckpointsAnchored
  <2> QED
    BY <1>0, <1>1, <1>2, <2>2, <2>3 DEF IInv, FrameInv, FrameIds
<1>8. WorkInv'
  BY <1>0, <1>3, <1>6 DEF IInv, WorkInv, AtFrame
<1>9. RunInv'
  BY <1>0, <1>3 DEF IInv, RunInv, Working, ControlPoint, OneOpenRun, OpenRuns, StopReasonsTrue
<1>10. ConnInv'
  BY <1>0, <1>3 DEF IInv, ConnInv, Upstream, OpenConns
<1> QED
  BY <1>5, <1>7, <1>8, <1>9, <1>10 DEF IInv

\* finish_run gives the task's run its stop reason and ends the task.
LEMMA FinishRunInvariant == IInv /\ FinishRun => IInv'
<1> SUFFICES ASSUME IInv, FinishRun PROVE IInv'
  OBVIOUS
<1> DEFINE n == task.run
           row == [runs[n] EXCEPT !.stop = IF @ = "open" THEN task.reason ELSE @]
<1>0. TypeOK /\ task.pc = "finish" /\ n \in DOMAIN runs /\ runs[n] \in Run
      /\ runs[n].stop = "open" /\ OpenRuns = {n}
      /\ task.reason # "worker_restart_recovered"
      /\ (task.reason = "session_inactive" => lifecycle = "closed")
      /\ UNCHANGED <<lifecycle, conns, gaps, frames, facts, metrics, ckpts, used>>
  BY Tables DEF IInv, FinishRun, RunInv, Working, ControlPoint, OneOpenRun, OpenRuns
<1>1. row \in Run /\ runs' = [runs EXCEPT ![n] = row] /\ row.stop = task.reason
  BY <1>0 DEF FinishRun, Run, TypeOK, Task
<1>2. /\ runs' \in Seq(Run) /\ DOMAIN runs' = DOMAIN runs /\ Len(runs') = Len(runs)
      /\ \A r \in DOMAIN runs : r # n => runs'[r] = runs[r]
      /\ runs'[n] = row
  <2> HIDE DEF row
  <2> QED
    BY <1>0, <1>1, ExceptSeq DEF TypeOK
<1>3. /\ task' \in Task /\ reducer' \in Reducer /\ proc' \in {"up", "stopping", "down"}
      /\ task' = NoTask
  BY <1>0, EndTaskTyped DEF FinishRun
<1> HIDE DEF row
<1>4. TypeOK'
  BY <1>0, <1>2, <1>3 DEF TypeOK
<1>5. FrameInv' /\ PendingDecoded' = PendingDecoded
  BY <1>0, FramesUntouched DEF IInv
<1>6. WorkInv'
  BY <1>3 DEF WorkInv, NoTask, AtFrame
<1>7. RunInv'
  <2>1. OpenRuns' \subseteq {n}
    BY <1>0, <1>2 DEF OpenRuns
  <2>2. OneOpenRun'
    BY <1>3, <2>1 DEF OneOpenRun, NoTask
  <2>3. StopReasonsTrue'
    BY <1>0, <1>1, <1>2 DEF IInv, RunInv, StopReasonsTrue
  <2> QED
    BY <1>3, <2>2, <2>3 DEF RunInv, NoTask, Working
<1>8. ConnInv'
  BY <1>3 DEF ConnInv, NoTask, Upstream
<1> QED
  BY <1>4, <1>5, <1>6, <1>7, <1>8 DEF IInv

\* Every place where an orphan run may have broken off is a frame count.
LEMMA OrphanBreakTyped ==
    ASSUME TypeOK
    PROVE  OrphanBreak \subseteq Nat
<1> DEFINE orphan == NewestOf(OpenRuns)
           upstream == NewestOf({c \in OpenConns : conns[c].run \in orphan})
           received == {f \in FrameIds : frames[f].conn \in upstream}
<1>1. NewestOf(received) \subseteq Nat
  BY Tables DEF NewestOf, FrameIds
<1>2. \A c \in upstream : conns[c].at \in Nat
  BY Tables DEF NewestOf, OpenConns, Connection
<1>3. \A r \in orphan : runs[r].at \in Nat
  BY Tables DEF NewestOf, OpenRuns, Run
<1>4. \/ OrphanBreak = NewestOf(received)
      \/ OrphanBreak = {conns[c].at : c \in upstream}
      \/ OrphanBreak = {runs[r].at : r \in orphan}
  <2>1. CASE received # {}
    BY <2>1 DEF OrphanBreak
  <2>2. CASE received = {} /\ upstream # {}
    BY <2>2 DEF OrphanBreak
  <2>3. CASE received = {} /\ upstream = {}
    BY <2>3 DEF OrphanBreak
  <2> QED
    BY <2>1, <2>2, <2>3
<1> HIDE DEF orphan, upstream, received
<1> QED
  BY <1>1, <1>2, <1>3, <1>4

\* start_run closes every orphan and opens exactly one run.
LEMMA StartRunInvariant == IInv /\ StartRun => IInv'
<1> SUFFICES ASSUME IInv, StartRun PROVE IInv'
  OBVIOUS
<1> DEFINE n == Len(runs) + 1
           row == [stop |-> "open", at |-> Len(frames)]
<1>0. TypeOK /\ task.pc = "spawned" /\ lifecycle = "active" /\ task.conn = 0
      /\ task.run = 0 /\ task \in Task /\ proc # "down"
      /\ UNCHANGED <<lifecycle, frames, facts, metrics, ckpts, proc, reducer, used>>
  BY DEF IInv, StartRun, ConnInv, RunInv, TypeOK
<1>1. /\ RecoveredRuns \in Seq(Run) /\ Len(RecoveredRuns) = Len(runs)
      /\ DOMAIN RecoveredRuns = DOMAIN runs
      /\ \A r \in DOMAIN runs :
            /\ RecoveredRuns[r].stop # "open"
            /\ RecoveredRuns[r].stop \in {runs[r].stop, "worker_restart_recovered"}
  <2>1. \A r \in DOMAIN runs :
          /\ RecoveredRuns[r] \in Run
          /\ RecoveredRuns[r].stop # "open"
          /\ RecoveredRuns[r].stop \in {runs[r].stop, "worker_restart_recovered"}
    BY <1>0, Tables DEF RecoveredRuns, Run, StopReason
  <2>2. RecoveredRuns = [r \in 1..Len(runs) |-> RecoveredRuns[r]]
    BY <1>0, Tables DEF RecoveredRuns
  <2>3. RecoveredRuns \in Seq(Run)
    BY <1>0, <2>1, <2>2, Tables, IsASeq
  <2>4. DOMAIN RecoveredRuns = DOMAIN runs
    BY DEF RecoveredRuns
  <2> QED
    BY <1>0, <2>1, <2>3, <2>4, Tables, LenProperties
<1>2. /\ runs' \in Seq(Run) /\ Len(runs') = n /\ DOMAIN runs' = DOMAIN runs \cup {n}
      /\ n \in Nat \ {0} /\ n \notin DOMAIN runs /\ \A r \in DOMAIN runs : r < n
      /\ \A r \in DOMAIN runs : runs'[r] = RecoveredRuns[r]
      /\ runs'[n].stop = "open"
  <2>1. row \in Run /\ runs' = Append(RecoveredRuns, row) /\ row.stop = "open"
    BY <1>0, Tables DEF StartRun, Run, StopReason
  <2> HIDE DEF row
  <2> QED
    BY <1>0, <1>1, <2>1, Tables, AppendProperties, LenProperties
<1>3. conns' \in Seq(Connection)
  <2>1. \A c \in DOMAIN conns : RecoveredConns[c] \in Connection
    BY <1>0, Tables DEF RecoveredConns, Connection
  <2>2. RecoveredConns = [c \in 1..Len(conns) |-> RecoveredConns[c]]
    BY <1>0, Tables DEF RecoveredConns
  <2> QED
    BY <1>0, <2>1, <2>2, Tables, IsASeq DEF StartRun
<1>4. PICK gap \in {0, Len(gaps) + 1} \cup OpenGaps :
        /\ task' = [task EXCEPT !.pc = "replay", !.run = n, !.gap = gap,
                                !.replay = PendingDecoded]
        /\ \/ OpenGaps # {} /\ gap \in NewestOf(OpenGaps) /\ gaps' = gaps
           \/ OpenGaps = {} /\ OpenRuns = {} /\ gap = 0 /\ gaps' = gaps
           \/ /\ OpenGaps = {} /\ OpenRuns # {} /\ gap = Len(gaps) + 1
              /\ \E b \in OrphanBreak :
                    gaps' = Append(gaps, [from |-> b, open |-> TRUE, to |-> 0])
  BY DEF StartRun
<1>5. gaps' \in Seq(Gap) /\ gap \in {0} \cup DOMAIN gaps' /\ gap \in Nat
  <2>1. CASE gaps' = gaps /\ gap \in NewestOf(OpenGaps)
    BY <1>0, <2>1, Tables DEF NewestOf, OpenGaps, TypeOK
  <2>2. CASE gaps' = gaps /\ gap = 0
    BY <1>0, <2>2 DEF TypeOK
  <2>3. CASE gap = Len(gaps) + 1
             /\ \E b \in OrphanBreak :
                   gaps' = Append(gaps, [from |-> b, open |-> TRUE, to |-> 0])
    <3>1. PICK b \in OrphanBreak :
            gaps' = Append(gaps, [from |-> b, open |-> TRUE, to |-> 0])
      BY <2>3
    <3>2. b \in Nat
      BY <1>0, OrphanBreakTyped
    <3>3. gaps' \in Seq(Gap) /\ DOMAIN gaps' = 1..Len(gaps) + 1
      BY <1>0, <3>1, <3>2, GapAppended
    <3> QED
      BY <1>0, <2>3, <3>3, Tables
  <2> QED
    BY <1>4, <2>1, <2>2, <2>3
<1>6. PendingDecoded \subseteq Nat
  BY <1>0, Tables DEF PendingDecoded, FrameIds
<1> HIDE DEF n
<1>7. /\ task'.pc = "replay" /\ task'.conn = 0 /\ task'.gap = gap
      /\ task'.run = n /\ task'.replay = PendingDecoded
      /\ task'.reason = task.reason /\ task' \in Task
  BY <1>0, <1>2, <1>4, <1>5, <1>6 DEF Task, ControlPoint
<1>8. TypeOK'
  BY <1>0, <1>2, <1>3, <1>5, <1>7 DEF TypeOK
<1>9. FrameInv' /\ PendingDecoded' = PendingDecoded
  BY <1>0, FramesUntouched DEF IInv
<1>10. WorkInv'
  BY <1>7, <1>9 DEF WorkInv, AtFrame
<1>11. RunInv'
  <2>1. OpenRuns' = {n}
    BY <1>1, <1>2 DEF OpenRuns
  <2>2. OneOpenRun'
    BY <1>7, <2>1 DEF OneOpenRun
  <2>3. StopReasonsTrue'
    BY <1>0, <1>1, <1>2 DEF IInv, RunInv, StopReasonsTrue
  <2> QED
    BY <1>0, <1>7, <2>1, <2>2, <2>3 DEF IInv, RunInv, Working
<1>12. ConnInv'
  BY <1>5, <1>7 DEF ConnInv
<1> QED
  BY <1>8, <1>9, <1>10, <1>11, <1>12 DEF IInv

-----------------------------------------------------------------------------
(* The theorems.                                                           *)

\* Every step of the ingest keeps the inductive invariant.
LEMMA StepInvariant == IInv /\ [Next]_vars => IInv'
<1> SUFFICES ASSUME IInv, [Next]_vars PROVE IInv'
  OBVIOUS
<1>1. CASE TaskStep
  BY <1>1, StartRunInvariant, StartRunRefusedInvariant, ReplayNextInvariant, ReplayDoneInvariant,
     ConnectInvariant, CheckActiveInvariant, StopNoticedInvariant, OpenConnectionInvariant,
     CloseGapInvariant, PersistRawFrameInvariant, DecodeFrameInvariant, ProcessFrameInvariant,
     ProcessMetricsInvariant, MarkProcessedInvariant, CloseConnectionInvariant,
     AfterDisconnectInvariant, RecordGapInvariant, BackoffElapsedInvariant,
     HandleCancelInvariant, FinishRunInvariant
  DEF TaskStep
<1>2. CASE \E k \in Kinds : ReceiveFrame(k)
  BY <1>2, ReceiveFrameInvariant
<1>3. CASE SourceDrop \/ Spawn \/ OperatorStop \/ Crash \/ StartProcess \/ GracefulStop
  BY <1>3, SourceDropInvariant, SpawnInvariant, OperatorStopInvariant, CrashInvariant,
     StartProcessInvariant, GracefulStopInvariant
<1>4. CASE Fault
  BY <1>4, StartRunFaultInvariant, FrameFaultInvariant, RunFaultInvariant, HandlerFaultInvariant
  DEF Fault
<1>5. CASE UNCHANGED vars
  <2>1. TypeOK'
    BY <1>5 DEF IInv, TypeOK, vars, store
  <2>2. FrameInv' /\ PendingDecoded' = PendingDecoded
    BY <1>5, FramesUntouched DEF IInv, vars, store
  <2>3. WorkInv'
    BY <1>5, <2>2 DEF IInv, WorkInv, FrameIds, vars, store
  <2>4. RunInv'
    BY <1>5 DEF IInv, RunInv, OneOpenRun, OpenRuns, StopReasonsTrue, vars, store
  <2>5. ConnInv'
    BY <1>5 DEF IInv, ConnInv, OpenConns, vars, store
  <2> QED
    BY <2>1, <2>2, <2>3, <2>4, <2>5 DEF IInv
<1> QED
  BY <1>1, <1>2, <1>3, <1>4, <1>5 DEF Next, SupervisorIdle

\* The inductive invariant holds in every reachable state.
LEMMA Invariance == Spec => []IInv
<1> QED
  BY InitInvariant, StepInvariant, PTL DEF Spec

\* The tables and the worker's memory keep their types, however many frames,
\* crashes, drops and failed transactions there are.
THEOREM TypeCorrect == Spec => []TypeOK
<1>1. IInv => TypeOK
  BY DEF IInv
<1> QED
  BY <1>1, Invariance, PTL

\* mark_processed never runs ahead of the two transactions of process_frame,
\* across crashes, replays, cancellations and raises.
THEOREM ProcessedOnlyDerived == Spec => []ProcessedIsDerived
<1>1. IInv => ProcessedIsDerived
  BY DEF IInv, FrameInv
<1> QED
  BY <1>1, Invariance, PTL

\* _prime never restores a checkpoint whose anchor frame is unprocessed.
THEOREM CheckpointsAnchoredAlways == Spec => []CheckpointsAnchored
<1>1. IInv => CheckpointsAnchored
  BY DEF IInv, FrameInv
<1> QED
  BY <1>1, Invariance, PTL

\* start_run leaves one open run, and only the task that owns it works on it.
THEOREM SingleOpenRun == Spec => []OneOpenRun
<1>1. IInv => OneOpenRun
  BY DEF IInv, RunInv
<1> QED
  BY <1>1, Invariance, PTL

\* persist_raw_frame only writes under an open connection of the open run.
THEOREM FramesUnderOpenConnection == Spec => []LiveConnectionIsOpen
<1>1. IInv => LiveConnectionIsOpen
  BY DEF IInv, ConnInv, LiveConnectionIsOpen, Upstream
<1> QED
  BY <1>1, Invariance, PTL

\* However the worker was interrupted, the tables it finds are consistent.
THEOREM TablesStayConsistent == Spec => []TablesConsistent
<1>1. IInv => TablesConsistent
  BY DEF IInv, FrameInv, RunInv, ConnInv, LiveConnectionIsOpen, Upstream, TablesConsistent
<1> QED
  BY <1>1, Invariance, PTL

\* ingest_runs.stop_reason is truthful about how each run ended.
THEOREM TruthfulStopReasons == Spec => []StopReasonsTrue
<1>1. IInv => StopReasonsTrue
  BY DEF IInv, RunInv
<1> QED
  BY <1>1, Invariance, PTL

-----------------------------------------------------------------------------
(* The ingest implements FrameLedger.                                     *)

\* A step that moves one frame to a following stage, and no other frame, is a
\* step of the ledger.
LEMMA AdvanceOne ==
    ASSUME NEW n \in DOMAIN frames,
           DOMAIN frames' = DOMAIN frames,
           \A f \in DOMAIN frames : frames'[f].conn = frames[f].conn,
           \A f \in DOMAIN frames : f # n => StageOf(f)' = StageOf(f),
           StageOf(n)' \in Ledger!Follows[StageOf(n)]
    PROVE  Ledger!Next
<1> DEFINE s == StageOf(n)'
           rec(f) == [conn |-> frames[f].conn, stage |-> StageOf(f)]
<1>1. DOMAIN LedgerView = DOMAIN frames /\ LedgerView[n].stage = StageOf(n)
  BY DEF LedgerView
<1>2. LedgerView' = [f \in DOMAIN frames |->
                       IF f = n THEN [rec(f) EXCEPT !.stage = s] ELSE rec(f)]
  BY DEF LedgerView
<1>3. [LedgerView EXCEPT ![n].stage = s] =
        [f \in DOMAIN frames |-> IF f = n THEN [rec(f) EXCEPT !.stage = s] ELSE rec(f)]
  BY DEF LedgerView
<1>4. LedgerView' = [LedgerView EXCEPT ![n].stage = s]
  BY <1>2, <1>3
<1>5. Ledger!Advance(n)
  BY <1>1, <1>4 DEF Ledger!Advance
<1> QED
  BY <1>1, <1>5 DEF Ledger!Next

\* Only five actions write what the ledger sees.
LEMMA LedgerWriters ==
    ASSUME [Next]_vars
    PROVE  \/ UNCHANGED <<frames, facts, metrics>>
           \/ PersistRawFrame \/ DecodeFrame \/ ProcessFrame \/ ProcessMetrics \/ MarkProcessed
<1>1. CASE TaskStep
  BY <1>1 DEF TaskStep, store, StartRun, StartRunRefused, ReplayNext, ReplayDone, Connect,
     CheckActive, StopNoticed, OpenConnection, CloseGap, CloseConnection, AfterDisconnect,
     RecordGap, BackoffElapsed, HandleCancel, FinishRun
<1>2. CASE \E k \in Kinds : ReceiveFrame(k)
  BY <1>2 DEF ReceiveFrame, store
<1>3. CASE SourceDrop \/ Spawn \/ OperatorStop \/ Crash \/ StartProcess \/ GracefulStop
  BY <1>3 DEF SourceDrop, Spawn, OperatorStop, Crash, StartProcess, GracefulStop, store
<1>4. CASE Fault
  BY <1>4 DEF Fault, StartRunFault, FrameFault, RunFault, HandlerFault, store
<1> QED
  BY <1>1, <1>2, <1>3, <1>4 DEF Next, SupervisorIdle, vars, store

\* Before the first frame the ledger is empty.
LEMMA LedgerInit == Init => Ledger!Init
BY DEF Init, Ledger!Init, LedgerView

\* Every step of the ingest is a step of the ledger or leaves it alone.
LEMMA LedgerStep ==
    ASSUME IInv, [Next]_vars
    PROVE  [Ledger!Next]_LedgerView
<1>t. TypeOK
  BY DEF IInv
<1>1. CASE UNCHANGED <<frames, facts, metrics>>
  BY <1>1 DEF LedgerView, StageOf
<1>2. CASE PersistRawFrame
  <2>n. PICK n : n = Len(frames) + 1
    OBVIOUS
  <2> DEFINE row == [conn |-> task.conn, kind |-> task.kind, state |-> "pending", processed |-> FALSE]
             entry == [conn |-> task.conn, stage |-> "raw"]
  <2>1. /\ row \in Frame /\ frames' = Append(frames, row) /\ facts' = facts /\ metrics' = metrics
        /\ task.conn \in Nat \ {0}
    BY <1>2, <1>t DEF IInv, PersistRawFrame, Frame, TypeOK, Task, ConnInv
  <2>2. /\ DOMAIN frames' = 1..n /\ DOMAIN frames = 1..Len(frames) /\ Len(frames) \in Nat
        /\ \A f \in DOMAIN frames : frames'[f] = frames[f]
        /\ frames'[n] = row
    <3> HIDE DEF row
    <3> QED
      BY <1>t, <2>n, <2>1, Tables, AppendProperties, LenProperties DEF TypeOK
  <2>3. \A f \in DOMAIN frames : StageOf(f)' = StageOf(f)
    BY <2>1, <2>2 DEF StageOf
  <2>4. StageOf(n)' = "raw" /\ frames'[n].conn = task.conn
    BY <2>2 DEF StageOf
  <2> DEFINE Stage == {StageOf(f) : f \in DOMAIN frames} \cup {"raw"}
             Entry == [conn : Nat, stage : Stage]
  <2>5. \A f \in DOMAIN frames : f \in 1..n /\ f # n
    BY <2>n, <2>2
  <2>6. /\ DOMAIN LedgerView = 1..Len(frames)
        /\ \A f \in DOMAIN frames :
             LedgerView[f] = [conn |-> frames[f].conn, stage |-> StageOf(f)]
        /\ LedgerView \in Seq(Entry) /\ Len(LedgerView) = Len(frames)
    <3>1. LedgerView = [f \in 1..Len(frames) |-> [conn |-> frames[f].conn, stage |-> StageOf(f)]]
      BY <2>2 DEF LedgerView
    <3>2. \A f \in 1..Len(frames) : [conn |-> frames[f].conn, stage |-> StageOf(f)] \in Entry
      BY <1>t, Tables DEF Frame
    <3>3. LedgerView \in Seq(Entry)
      BY <2>2, <3>1, <3>2, IsASeq
    <3> QED
      BY <2>2, <3>1, <3>3, LenProperties
  <2>7. /\ LedgerView' \in Seq(Entry) /\ Len(LedgerView') = n
        /\ LedgerView'[n] = entry
        /\ \A f \in DOMAIN frames : LedgerView'[f] = LedgerView[f]
    <3>1. LedgerView' = [f \in 1..n |-> [conn |-> frames'[f].conn, stage |-> StageOf(f)']]
      BY <2>2 DEF LedgerView
    <3>2. [conn |-> frames'[n].conn, stage |-> StageOf(n)'] = entry
      BY <2>4
    <3>3. \A f \in DOMAIN frames :
            [conn |-> frames'[f].conn, stage |-> StageOf(f)'] = LedgerView[f]
      BY <2>2, <2>3, <2>6
    <3>4. n \in Nat /\ n \in 1..n /\ \A f \in 1..n : f = n \/ f \in DOMAIN frames
      BY <2>n, <2>2
    <3>5. entry \in Entry
      BY <2>1
    <3>6. \A f \in DOMAIN frames : LedgerView[f] \in Entry
      BY <2>2, <2>6, ElementOfSeq
    <3>7. \A f \in 1..n : [conn |-> frames'[f].conn, stage |-> StageOf(f)'] \in Entry
      BY <3>2, <3>3, <3>4, <3>5, <3>6
    <3>8. LedgerView' \in Seq(Entry)
      BY <3>1, <3>4, <3>7, IsASeq
    <3> QED
      BY <2>5, <3>1, <3>2, <3>3, <3>4, <3>8, LenProperties
  <2>8. LedgerView' = Append(LedgerView, entry) /\ Len(LedgerView) + 1 = n
    <3> HIDE DEF Entry
    <3>1. entry \in Entry
      BY <2>1 DEF Entry
    <3> HIDE DEF entry
    <3>2. /\ Append(LedgerView, entry) \in Seq(Entry)
          /\ Len(Append(LedgerView, entry)) = n
          /\ Append(LedgerView, entry)[n] = entry
          /\ \A f \in 1..Len(LedgerView) : Append(LedgerView, entry)[f] = LedgerView[f]
      BY <2>n, <2>6, <3>1, AppendProperties
    <3>3. \A f \in 1..n : LedgerView'[f] = Append(LedgerView, entry)[f]
      BY <2>n, <2>2, <2>6, <2>7, <3>2
    <3> QED
      BY <2>n, <2>6, <2>7, <3>2, <3>3, SeqEqual
  <2>9. Len(LedgerView') = Len(LedgerView) + 1
        /\ LedgerView'[Len(LedgerView')].conn = task.conn
    BY <2>7, <2>8
  <2>10. LedgerView' = Append(LedgerView, [conn |-> LedgerView'[Len(LedgerView')].conn,
                                           stage |-> "raw"])
    BY <2>8, <2>9
  <2> HIDE DEF Stage, Entry, entry, row
  <2>11. Ledger!Receive
    BY <2>1, <2>9, <2>10 DEF Ledger!Receive
  <2> QED
    BY <2>11 DEF Ledger!Next
<1>3. CASE DecodeFrame
  <2>n. PICK n : n = task.frame
    OBVIOUS
  <2>0. n \in DOMAIN frames /\ frames[n] \in Frame /\ frames[n].state = "pending"
        /\ facts' = facts /\ metrics' = metrics /\ ~frames[n].processed
        /\ n \notin facts /\ n \notin metrics
    BY <1>3, <1>t, <2>n, Tables DEF IInv, DecodeFrame, WorkInv, AtFrame, FrameIds, FrameInv
  <2>1. /\ DOMAIN frames' = DOMAIN frames
        /\ \A f \in DOMAIN frames : f # n => frames'[f] = frames[f]
        /\ frames'[n].conn = frames[n].conn /\ frames'[n].kind = frames[n].kind
        /\ frames'[n] \in Frame
        /\ \/ frames'[n].state = "failed"
           \/ frames'[n].state = "decoded" /\ ~frames'[n].processed
    BY <1>3, <2>n, <2>0 DEF DecodeFrame, Frame
  <2>2. StageOf(n) = "raw"
    BY <2>0 DEF StageOf
  <2>3. StageOf(n)' \in {"failed", "blank", "decoded"}
    BY <2>0, <2>1 DEF StageOf
  <2>4. \A f \in DOMAIN frames : f # n => StageOf(f)' = StageOf(f)
    BY <2>0, <2>1 DEF StageOf
  <2> QED
    BY <2>0, <2>1, <2>2, <2>3, <2>4, AdvanceOne DEF Ledger!Follows
<1>4. CASE ProcessFrame
  <2>n. PICK n : n = task.frame
    OBVIOUS
  <2>0. /\ n \in DOMAIN frames /\ frames[n] \in Frame /\ frames[n].state = "decoded"
        /\ ~frames[n].processed /\ frames[n].kind = "messages"
        /\ facts' = facts \cup {n} /\ metrics' = metrics /\ frames' = frames
        /\ metrics \subseteq facts
    BY <1>4, <1>t, <2>n, Tables DEF IInv, ProcessFrame, WorkInv, AtFrame, FrameIds, FrameInv
  <2>1. \A f \in DOMAIN frames : f # n => StageOf(f)' = StageOf(f)
    BY <2>0 DEF StageOf
  <2>2. CASE n \in facts
    <3>1. StageOf(n)' = StageOf(n)
      BY <2>0, <2>2 DEF StageOf
    <3> QED
      BY <2>0, <2>1, <3>1 DEF LedgerView
  <2>3. CASE n \notin facts
    <3>1. StageOf(n) = "decoded" /\ StageOf(n)' = "facts"
      BY <2>0, <2>3 DEF StageOf
    <3> QED
      BY <2>0, <2>1, <3>1, AdvanceOne DEF Ledger!Follows
  <2> QED
    BY <2>2, <2>3
<1>5. CASE ProcessMetrics
  <2>n. PICK n : n = task.frame
    OBVIOUS
  <2>0. /\ n \in DOMAIN frames /\ frames[n] \in Frame /\ frames[n].state = "decoded"
        /\ ~frames[n].processed /\ frames[n].kind = "messages" /\ n \in facts
        /\ metrics' = metrics \cup {n} /\ facts' = facts /\ frames' = frames
    BY <1>5, <1>t, <2>n, Tables DEF IInv, ProcessMetrics, WorkInv, AtFrame, FrameIds
  <2>1. \A f \in DOMAIN frames : f # n => StageOf(f)' = StageOf(f)
    BY <2>0 DEF StageOf
  <2>2. CASE n \in metrics
    <3>1. StageOf(n)' = StageOf(n)
      BY <2>0, <2>2 DEF StageOf
    <3> QED
      BY <2>0, <2>1, <3>1 DEF LedgerView
  <2>3. CASE n \notin metrics
    <3>1. StageOf(n) = "facts" /\ StageOf(n)' = "derived"
      BY <2>0, <2>3 DEF StageOf
    <3> QED
      BY <2>0, <2>1, <3>1, AdvanceOne DEF Ledger!Follows
  <2> QED
    BY <2>2, <2>3
<1>6. CASE MarkProcessed
  <2>n. PICK n : n = task.frame
    OBVIOUS
  <2>0. /\ n \in DOMAIN frames /\ frames[n] \in Frame /\ frames[n].state = "decoded"
        /\ ~frames[n].processed /\ frames[n].kind = task.kind
        /\ (task.kind = "messages" => n \in metrics)
        /\ metrics' = metrics /\ facts' = facts
    BY <1>6, <1>t, <2>n, Tables DEF IInv, MarkProcessed, WorkInv, AtFrame, FrameIds
  <2>1. /\ DOMAIN frames' = DOMAIN frames
        /\ \A f \in DOMAIN frames : f # n => frames'[f] = frames[f]
        /\ frames'[n].conn = frames[n].conn /\ frames'[n].state = "decoded"
        /\ frames'[n].processed
    BY <1>6, <2>n, <2>0 DEF MarkProcessed, Frame
  <2>2. \A f \in DOMAIN frames : f # n => StageOf(f)' = StageOf(f)
    BY <2>0, <2>1 DEF StageOf
  <2>3. StageOf(n) \in {"blank", "derived"}
    BY <2>0 DEF StageOf
  <2>4. StageOf(n)' = "done"
    BY <2>1 DEF StageOf
  <2> QED
    BY <2>0, <2>1, <2>2, <2>3, <2>4, AdvanceOne DEF Ledger!Follows
<1> QED
  BY <1>1, <1>2, <1>3, <1>4, <1>5, <1>6, LedgerWriters

\* The tables implement the ledger: run_session stores a frame raw under its
\* socket and then takes it through decode_frame, process_frame and
\* mark_processed one boundary at a time, whatever crashes or raises.
THEOREM TablesImplementLedger == Spec => ImplementsLedger
<1>1. IInv /\ [Next]_vars => [Ledger!Next]_LedgerView
  BY LedgerStep
<1> QED
  BY <1>1, LedgerInit, Invariance, PTL DEF Spec, ImplementsLedger, Ledger!Spec

-----------------------------------------------------------------------------
(* The order of processing and the reducer memory, as long as nothing has  *)
(* raised.                                                                 *)

AtPending == {"process", "metrics", "mark"}

\* Control points of a task that works on no stored frame.
Elsewhere == Working \ ({"replay", "decode"} \cup AtPending)

\* Decoded frames are processed in the order of their ids: what is processed is
\* older than what is not, and the task is at the oldest one that is not.
OrderInv ==
    used.faults = 0 =>
        /\ \A f \in ProcessedMessages, g \in PendingDecoded : f < g
        /\ task.pc = "replay" => task.replay = PendingDecoded
        /\ task.pc \in AtPending => /\ PendingDecoded = task.replay \cup {task.frame}
                                    /\ \A g \in task.replay : task.frame < g
        /\ task.pc \in Working \ ({"replay"} \cup AtPending) => PendingDecoded = {}
        /\ task.pc = "decode" => task.frame = Len(frames)
        /\ \A f \in facts : \/ f \in ProcessedMessages
                            \/ f \in PendingDecoded /\ \A g \in PendingDecoded : f <= g

\* The task has given the reducer a frame that is not marked yet.
Ahead == task.pc = "metrics" \/ (task.pc = "mark" /\ task.kind = "messages")

\* The memory holds the frames processed so far, and a checkpoint those up to its
\* anchor.
MemoryInv ==
    used.faults = 0 =>
        /\ \A c \in ckpts : c.seen = {f \in ProcessedMessages : f <= c.frame}
        /\ Ahead => reducer = [primed |-> TRUE, applied |-> ProcessedMessages \cup {task.frame}]
        /\ ~Ahead /\ reducer.primed => reducer.applied = ProcessedMessages

\* The natural numbers are well founded.
LEMMA LeastOfNaturals ==
    ASSUME NEW T \in SUBSET Nat, T # {}
    PROVE  \E x \in T : \A y \in T : x <= y
<1> DEFINE R == OpToRel(<, Nat)
<1>1. IsWellFoundedOn(R, Nat)
  BY NatLessThanWellFounded
<1>2. \A x, y \in Nat : y < x => <<y, x>> \in R
  BY DEF OpToRel
<1> HIDE DEF R
<1>3. PICK x \in T : \A y \in T : ~(<<y, x>> \in R)
  BY <1>1, WFMin
<1>4. \A y \in T : ~(y < x)
  BY <1>2, <1>3
<1>5. \A y \in T : x <= y
  BY <1>4
<1> QED
  BY <1>5

\* There is a newest checkpoint, if there is one: its anchor is a stored frame.
LEMMA NewestExists ==
    ASSUME IInv, ckpts # {}
    PROVE  NewestCheckpoint # {}
<1> DEFINE n == Len(frames)
           T == {n - c.frame : c \in ckpts}
<1>1. n \in Nat /\ \A c \in ckpts : c.frame \in 1..n
  BY Tables DEF IInv, FrameInv, CheckpointsAnchored, ProcessedMessages, FrameIds
<1> HIDE DEF n
<1>2. \A c \in ckpts : n - c.frame \in Nat
  BY <1>1
<1>3. T \in SUBSET Nat /\ T # {}
  BY <1>2
<1>4. PICK t \in T : \A y \in T : t <= y
  BY <1>3, LeastOfNaturals
<1>5. PICK c \in ckpts : t = n - c.frame
  BY <1>4
<1>6. \A d \in ckpts : d.frame <= c.frame
  <2> TAKE d \in ckpts
  <2>1. n - c.frame <= n - d.frame
    BY <1>4, <1>5
  <2> QED
    BY <1>1, <2>1
<1> QED
  BY <1>6 DEF NewestCheckpoint

\* _prime rebuilds exactly the frames that are processed.
LEMMA RestoredIsProcessed ==
    ASSUME IInv, \A c \in ckpts : c.seen = {f \in ProcessedMessages : f <= c.frame}
    PROVE  Restored = ProcessedMessages
<1>0. ProcessedMessages \subseteq Nat /\ \A c \in ckpts : c.frame \in Nat
  BY PrimedTyped DEF IInv, TypeOK, Checkpoint
<1>1. \A c, d \in NewestCheckpoint : c.frame = d.frame
  BY <1>0 DEF NewestCheckpoint
<1>2. \A c \in NewestCheckpoint : c \in ckpts
  BY DEF NewestCheckpoint
<1>3. CASE NewestCheckpoint = {}
  BY <1>3 DEF Restored
<1>4. ASSUME NEW c \in NewestCheckpoint
      PROVE  Restored = ProcessedMessages
  <2>1. \A f : f \in UNION {d.seen : d \in NewestCheckpoint} <=> f \in ProcessedMessages /\ f <= c.frame
    <3>1. \A d \in NewestCheckpoint : d.seen = {f \in ProcessedMessages : f <= c.frame}
      BY <1>1, <1>2
    <3>2. UNION {d.seen : d \in NewestCheckpoint} = {f \in ProcessedMessages : f <= c.frame}
      BY <3>1
    <3> QED
      BY <3>2
  <2>2. \A f \in ProcessedMessages : f <= c.frame \/ f > c.frame
    BY <1>0, <1>2
  <2>3. \A f \in ProcessedMessages : (\A d \in NewestCheckpoint : f > d.frame) <=> f > c.frame
    BY <1>1
  <2> HIDE DEF NewestCheckpoint
  <2> QED
    BY <2>1, <2>2, <2>3 DEF Restored
<1> QED
  BY <1>3, <1>4

\* The views depend on the frames only.
LEMMA ViewsSame ==
    ASSUME UNCHANGED frames
    PROVE  ProcessedMessages' = ProcessedMessages /\ PendingDecoded' = PendingDecoded
BY DEF ProcessedMessages, PendingDecoded, FrameIds

\* A step that writes no frame, fact or checkpoint and stays away from stored frames.
LEMMA ElsewhereStep ==
    ASSUME OrderInv, MemoryInv, UNCHANGED <<frames, facts, ckpts, reducer>>,
           used'.faults = used.faults, task.pc \in Elsewhere, task'.pc \in Elsewhere
    PROVE  OrderInv' /\ MemoryInv'
<1>1. ProcessedMessages' = ProcessedMessages /\ PendingDecoded' = PendingDecoded
  BY ViewsSame
<1> QED
  BY <1>1 DEF OrderInv, MemoryInv, Ahead, Elsewhere, AtPending, Working

\* A step after which there is no task at work.
LEMMA IdleStep ==
    ASSUME OrderInv, MemoryInv, UNCHANGED <<frames, facts, ckpts>>, used'.faults = used.faults,
           task'.pc \in {"none", "spawned"},
           reducer' = FreshReducer \/ (reducer' = reducer /\ ~Ahead)
    PROVE  OrderInv' /\ MemoryInv'
<1>1. ProcessedMessages' = ProcessedMessages /\ PendingDecoded' = PendingDecoded
  BY ViewsSame
<1> QED
  BY <1>1 DEF OrderInv, MemoryInv, Ahead, AtPending, Working, FreshReducer

\* Steps between two frames, and around the runs.
LEMMA QuietOrderStep ==
    ASSUME IInv, OrderInv, MemoryInv,
           \/ Connect \/ CheckActive \/ StopNoticed \/ SourceDrop \/ OpenConnection \/ CloseGap
           \/ CloseConnection \/ AfterDisconnect \/ RecordGap \/ BackoffElapsed \/ HandleCancel
           \/ \E k \in Kinds : ReceiveFrame(k)
    PROVE  OrderInv' /\ MemoryInv'
<1>0. task \in Task /\ used \in Counters
  BY DEF IInv, TypeOK
<1> USE DEF Connect, CheckActive, StopNoticed, SourceDrop, OpenConnection, CloseGap, CloseConnection,
            AfterDisconnect, RecordGap, BackoffElapsed, HandleCancel, ReceiveFrame
<1>1. UNCHANGED <<frames, facts, ckpts, reducer>>
  BY DEF store
<1>2. used'.faults = used.faults
  BY <1>0 DEF Counters
<1>3. task.pc \in Elsewhere
  BY DEF Elsewhere, Working, ControlPoint, AtPending
<1>4. task'.pc \in Elsewhere
  BY ZenonT(60), <1>0 DEF Goto, Task, Elsewhere, Working, ControlPoint, AtPending
<1> QED
  BY <1>1, <1>2, <1>3, <1>4, ElsewhereStep

\* Steps that leave no task at work, or a task that has not started its run.
LEMMA IdleOrderStep ==
    ASSUME IInv, OrderInv, MemoryInv,
           \/ Crash \/ Spawn \/ StartRunRefused \/ FinishRun \/ GracefulStop \/ OperatorStop \/ StartProcess
    PROVE  OrderInv' /\ MemoryInv'
<1>0. task \in Task /\ used \in Counters
  BY DEF IInv, TypeOK
<1>1. UNCHANGED <<frames, facts, ckpts>>
  BY DEF Crash, Spawn, StartRunRefused, FinishRun, GracefulStop, OperatorStop, StartProcess, store
<1>2. used'.faults = used.faults
  BY <1>0 DEF Crash, Spawn, StartRunRefused, FinishRun, GracefulStop, OperatorStop, StartProcess, Counters
<1>3. CASE Crash \/ Spawn
  <2>1. task'.pc \in {"none", "spawned"}
    BY <1>0, <1>3 DEF Crash, Spawn, NoTask, Goto, Task
  <2>2. reducer' = FreshReducer \/ (reducer' = reducer /\ ~Ahead)
    BY <1>3 DEF Crash, Spawn, Ahead
  <2> QED
    BY <1>1, <1>2, <2>1, <2>2, IdleStep
<1>4. CASE StartRunRefused \/ FinishRun
  <2>1. task'.pc \in {"none", "spawned"} /\ reducer' \in {reducer, FreshReducer}
    BY <1>4 DEF StartRunRefused, FinishRun, EndTask, NoTask
  <2>2. ~Ahead
    BY <1>4 DEF StartRunRefused, FinishRun, Ahead
  <2> QED
    BY <1>1, <1>2, <2>1, <2>2, IdleStep
<1>5. CASE GracefulStop
  <2>1. CASE task.pc \in {"none", "spawned"}
    <3>1. task'.pc = "none" /\ reducer' = FreshReducer
      BY <1>5, <2>1 DEF GracefulStop, NoTask
    <3> QED
      BY <1>1, <1>2, <3>1, IdleStep
  <2>2. CASE task.pc \notin {"none", "spawned"}
    <3>1. /\ task.pc \in {"reading", "backoff"} /\ task'.pc \in {"closing", "cancelled"}
          /\ reducer' = reducer
      BY <1>0, <1>5, <2>2 DEF GracefulStop, Task
    <3> QED
      BY <1>1, <1>2, <3>1, ElsewhereStep DEF Elsewhere, Working, ControlPoint, AtPending
  <2> QED
    BY <2>1, <2>2
<1>6. CASE OperatorStop \/ StartProcess
  <2>1. UNCHANGED <<task, reducer>> /\ ProcessedMessages' = ProcessedMessages /\ PendingDecoded' = PendingDecoded
    BY <1>1, <1>6, ViewsSame DEF OperatorStop, StartProcess
  <2> QED
    BY <1>1, <1>2, <2>1 DEF OrderInv, MemoryInv, Ahead
<1> QED
  BY <1>3, <1>4, <1>5, <1>6

\* The replay of a new run takes up what is decoded and not processed, oldest first.
LEMMA ReplayOrderStep ==
    ASSUME IInv, OrderInv, MemoryInv, StartRun \/ ReplayNext \/ ReplayDone
    PROVE  OrderInv' /\ MemoryInv'
<1>0. task \in Task /\ PendingDecoded \subseteq Nat
  BY Tables DEF IInv, TypeOK, PendingDecoded, FrameIds
<1>1. /\ UNCHANGED <<frames, facts, ckpts, reducer, used>>
      /\ ProcessedMessages' = ProcessedMessages /\ PendingDecoded' = PendingDecoded
  BY ViewsSame DEF StartRun, ReplayNext, ReplayDone, store
<1>2. CASE StartRun
  <2>1. task'.pc = "replay" /\ task'.replay = PendingDecoded /\ task.pc = "spawned"
    BY <1>0, <1>2 DEF StartRun, Task
  <2> QED
    BY <1>1, <2>1 DEF OrderInv, MemoryInv, Ahead, AtPending, Working
<1>3. CASE ReplayNext
  <2>1. PICK f \in task.replay :
          /\ \A g \in task.replay : f <= g
          /\ task' = [task EXCEPT !.pc = IF frames[f].kind = "messages" THEN "process" ELSE "mark",
                                  !.frame = f, !.kind = frames[f].kind, !.replay = @ \ {f}]
    BY <1>3 DEF ReplayNext
  <2>2. /\ task'.pc = (IF frames[f].kind = "messages" THEN "process" ELSE "mark")
        /\ task'.frame = f /\ task'.kind = frames[f].kind /\ task'.replay = task.replay \ {f}
        /\ task.pc = "replay"
    BY <1>0, <1>3, <2>1 DEF ReplayNext, Task
  <2>3. OrderInv'
    <3> SUFFICES ASSUME used.faults = 0 PROVE OrderInv'
      BY <1>1 DEF OrderInv
    <3>1. task.replay = PendingDecoded
      BY <2>2 DEF OrderInv
    <3>2. \A g \in task.replay \ {f} : f < g
      BY <1>0, <2>1, <3>1
    <3>3. PendingDecoded = (task.replay \ {f}) \cup {f}
      BY <3>1
    <3> QED
      BY <1>1, <2>2, <3>2, <3>3 DEF OrderInv, AtPending, Working
  <2>4. ~Ahead /\ ~Ahead'
    BY <2>2 DEF Ahead
  <2> QED
    BY <1>1, <2>3, <2>4 DEF MemoryInv
<1>4. CASE ReplayDone
  <2>1. task.pc = "replay" /\ task.replay = {} /\ task'.pc = "connect"
    BY <1>0, <1>4 DEF ReplayDone, Goto, Task
  <2> QED
    BY <1>1, <2>1 DEF OrderInv, MemoryInv, Ahead, AtPending, Working
<1> QED
  BY <1>2, <1>3, <1>4

\* A stored frame is the newest, and it is decoded when no other waits.
LEMMA StoreOrderStep ==
    ASSUME IInv, OrderInv, MemoryInv, PersistRawFrame \/ DecodeFrame
    PROVE  OrderInv' /\ MemoryInv'
<1>0. /\ TypeOK /\ task \in Task /\ frames \in Seq(Frame)
      /\ Len(frames) \in Nat /\ DOMAIN frames = 1..Len(frames)
  BY Tables DEF IInv, TypeOK
<1>1. UNCHANGED <<facts, ckpts, reducer, used>>
  BY DEF PersistRawFrame, DecodeFrame
<1>2. CASE PersistRawFrame
  <2> DEFINE row == [conn |-> task.conn, kind |-> task.kind, state |-> "pending", processed |-> FALSE]
  <2>1. row \in Frame /\ frames' = Append(frames, row) /\ row.state = "pending"
    BY <1>0, <1>2 DEF PersistRawFrame, Frame, Task
  <2> HIDE DEF row
  <2>2. /\ DOMAIN frames' = DOMAIN frames \cup {Len(frames) + 1} /\ Len(frames') = Len(frames) + 1
        /\ \A f \in DOMAIN frames : frames'[f] = frames[f]
        /\ frames'[Len(frames) + 1] = row /\ Len(frames) + 1 \notin DOMAIN frames
    BY <1>0, <2>1, AppendProperties
  <2>3. ProcessedMessages' = ProcessedMessages /\ PendingDecoded' = PendingDecoded
    BY <2>1, <2>2 DEF ProcessedMessages, PendingDecoded, FrameIds
  <2>4. task'.pc = "decode" /\ task'.frame = Len(frames) + 1 /\ task.pc = "persist"
    BY <1>0, <1>2 DEF PersistRawFrame, Task
  <2> QED
    BY <1>1, <2>2, <2>3, <2>4 DEF OrderInv, MemoryInv, Ahead, AtPending, Working, ControlPoint
<1>3. CASE DecodeFrame
  <2> DEFINE n == task.frame
             row == IF frames[n].kind = "malformed"
                    THEN [frames[n] EXCEPT !.state = "failed", !.processed = TRUE]
                    ELSE [frames[n] EXCEPT !.state = "decoded"]
  <2>0. /\ n \in DOMAIN frames /\ frames[n] \in Frame /\ frames[n].kind = task.kind
        /\ frames[n].state = "pending" /\ ~frames[n].processed /\ task.pc = "decode" /\ task.replay = {}
    BY <1>0, <1>3, Tables DEF IInv, DecodeFrame, WorkInv, AtFrame, FrameIds
  <2>1. /\ frames' = [frames EXCEPT ![n] = row] /\ row.kind = frames[n].kind
        /\ row.kind = "malformed" => row.state = "failed"
        /\ row.kind # "malformed" => row.state = "decoded" /\ ~row.processed
    BY <1>3, <2>0 DEF DecodeFrame, Frame
  <2> HIDE DEF row
  <2>2. /\ DOMAIN frames' = DOMAIN frames /\ \A f \in DOMAIN frames : f # n => frames'[f] = frames[f]
        /\ frames'[n] = row
    BY <2>0, <2>1
  <2>3. /\ ProcessedMessages' = ProcessedMessages
        /\ PendingDecoded' = PendingDecoded \cup (IF task.kind = "malformed" THEN {} ELSE {n})
    BY <2>0, <2>1, <2>2 DEF ProcessedMessages, PendingDecoded, FrameIds
  <2>4. /\ task'.frame = n /\ task'.replay = task.replay /\ task'.kind = task.kind
        /\ task.kind = "malformed" => task'.pc = "check"
        /\ task.kind # "malformed" => task'.pc \in {"process", "mark"} /\ (task'.pc = "mark" => task.kind = "empty")
    <3>1. task.kind \in {"malformed", "empty", "messages"}
      BY <1>0 DEF Task, FrameKind
    <3>2. \E p : task' = [task EXCEPT !.pc = p]
      BY <1>3 DEF DecodeFrame, Goto
    <3> QED
      BY <1>0, <1>3, <3>1, <3>2 DEF DecodeFrame, Goto, Task
  <2>5. (n = Len(frames) /\ PendingDecoded = {}) \/ used.faults # 0
    BY <2>0 DEF OrderInv, AtPending, Working, ControlPoint
  <2>6. ASSUME NEW f \in ProcessedMessages
        PROVE  f < n \/ used.faults # 0
    <3>1. f \in DOMAIN frames /\ f # n
      BY <2>0 DEF ProcessedMessages, FrameIds
    <3> QED
      BY <1>0, <2>5, <3>1
  <2>7. OrderInv'
    <3> SUFFICES ASSUME used.faults = 0 PROVE OrderInv'
      BY <1>1 DEF OrderInv
    <3>1. CASE task.kind = "malformed"
      BY <1>1, <2>0, <2>3, <2>4, <2>5, <3>1 DEF OrderInv, AtPending, Working, ControlPoint
    <3>2. CASE task.kind # "malformed"
      <4>1. PendingDecoded' = {n} /\ task'.pc \in {"process", "mark"}
        BY <2>3, <2>4, <2>5, <3>2
      <4>2. \A f \in facts : f \in ProcessedMessages
        BY <2>5 DEF OrderInv
      <4> QED
        BY <1>1, <2>0, <2>3, <2>4, <2>6, <4>1, <4>2 DEF OrderInv, AtPending, Working, ControlPoint
    <3> QED
      BY <3>1, <3>2
  <2>8. ~Ahead /\ ~Ahead'
    BY <2>0, <2>4 DEF Ahead
  <2> QED
    BY <1>1, <2>3, <2>7, <2>8 DEF MemoryInv
<1> QED
  BY <1>2, <1>3

\* The reducer applies the oldest frame that waits; the marker and the checkpoint
\* follow it in the same transaction.
LEMMA ProcessOrderStep ==
    ASSUME IInv, OrderInv, MemoryInv, ProcessFrame \/ ProcessMetrics \/ MarkProcessed
    PROVE  OrderInv' /\ MemoryInv'
<1> DEFINE n == task.frame
<1>0. /\ TypeOK /\ task \in Task /\ n \in Nat /\ n \in DOMAIN frames /\ frames[n] \in Frame
      /\ frames[n].kind = task.kind /\ frames[n].state = "decoded" /\ ~frames[n].processed
      /\ n \notin task.replay /\ PendingDecoded \subseteq Nat /\ ProcessedMessages \subseteq Nat
  <2>1. task.pc \in AtPending
    BY DEF ProcessFrame, ProcessMetrics, MarkProcessed, AtPending
  <2>2. TypeOK /\ task \in Task /\ n \in DOMAIN frames
    BY <2>1 DEF IInv, TypeOK, WorkInv, AtPending, AtFrame, FrameIds
  <2>3. /\ frames[n].kind = task.kind /\ frames[n].state = "decoded" /\ ~frames[n].processed
        /\ n \notin task.replay
    BY <2>1 DEF IInv, WorkInv, AtPending, AtFrame
  <2>4. n \in Nat /\ frames[n] \in Frame /\ PendingDecoded \subseteq Nat
    BY <2>2, Tables DEF PendingDecoded, FrameIds
  <2> QED
    BY <2>2, <2>3, <2>4, PrimedTyped
<1>1. CASE ProcessFrame
  <2>1. /\ task.pc = "process" /\ task'.pc = "metrics" /\ task'.frame = n /\ task'.replay = task.replay
        /\ facts' = facts \cup {n} /\ UNCHANGED <<frames, ckpts, used>>
        /\ reducer' = [primed |-> TRUE, applied |-> Primed \cup {n}]
    BY <1>0, <1>1 DEF ProcessFrame, Goto, Task
  <2>2. ProcessedMessages' = ProcessedMessages /\ PendingDecoded' = PendingDecoded
    BY <2>1, ViewsSame
  <2> SUFFICES ASSUME used.faults = 0 PROVE OrderInv' /\ MemoryInv'
    BY <2>1 DEF OrderInv, MemoryInv
  <2>3. Primed = ProcessedMessages
    BY <2>1, RestoredIsProcessed DEF MemoryInv, Ahead, Primed
  <2>4. n \in PendingDecoded /\ \A g \in PendingDecoded : n <= g
    BY <1>0, <2>1 DEF OrderInv, AtPending
  <2>5. OrderInv'
    BY <2>1, <2>2, <2>4 DEF OrderInv, AtPending, Working
  <2>6. MemoryInv'
    BY <2>1, <2>2, <2>3 DEF MemoryInv, Ahead
  <2> QED
    BY <2>5, <2>6
<1>2. CASE ProcessMetrics
  <2>1. /\ task.pc = "metrics" /\ task'.pc = "mark" /\ task'.frame = n /\ task'.replay = task.replay
        /\ UNCHANGED <<frames, facts, ckpts, used, reducer>> /\ task'.kind = "messages"
    BY <1>0, <1>2 DEF ProcessMetrics, Goto, Task, IInv, WorkInv
  <2>2. ProcessedMessages' = ProcessedMessages /\ PendingDecoded' = PendingDecoded
    BY <2>1, ViewsSame
  <2> QED
    BY <2>1, <2>2 DEF OrderInv, MemoryInv, Ahead, AtPending, Working
<1>3. CASE MarkProcessed
  <2> DEFINE row == [frames[n] EXCEPT !.processed = TRUE]
             saved == [frame |-> n, seen |-> reducer.applied]
  <2>1. /\ frames' = [frames EXCEPT ![n] = row] /\ UNCHANGED <<facts, reducer, used>> /\ task.pc = "mark"
        /\ row.kind = frames[n].kind /\ row.state = frames[n].state /\ row.processed
    BY <1>0, <1>3 DEF MarkProcessed, Frame
  <2> HIDE DEF row
  <2>2. /\ DOMAIN frames' = DOMAIN frames /\ \A f \in DOMAIN frames : f # n => frames'[f] = frames[f]
        /\ frames'[n] = row
    BY <1>0, <2>1
  <2>3. /\ ProcessedMessages' = ProcessedMessages \cup (IF task.kind = "messages" THEN {n} ELSE {})
        /\ PendingDecoded' = PendingDecoded \ {n}
    BY <1>0, <2>1, <2>2 DEF ProcessedMessages, PendingDecoded, FrameIds
  <2>4. /\ task'.pc = (IF task.conn = 0 THEN "replay" ELSE "check")
        /\ task'.frame = n /\ task'.replay = task.replay
        /\ task.conn # 0 => task.replay = {}
    BY <1>0, <1>3 DEF MarkProcessed, Task, IInv, WorkInv
  <2>5. ckpts' \subseteq ckpts \cup {saved} /\ (task.kind # "messages" => ckpts' = ckpts)
    BY <1>3 DEF MarkProcessed, CheckpointChoices
  <2> SUFFICES ASSUME used.faults = 0 PROVE OrderInv' /\ MemoryInv'
    BY <2>1 DEF OrderInv, MemoryInv
  <2>6. PendingDecoded = task.replay \cup {n} /\ \A g \in task.replay : n < g
    BY <2>1 DEF OrderInv, AtPending
  <2>7. PendingDecoded' = task.replay /\ \A f \in ProcessedMessages : f < n
    BY <1>0, <2>3, <2>6 DEF OrderInv
  <2>8. OrderInv'
    <3>1. \A f \in ProcessedMessages', g \in PendingDecoded' : f < g
      BY <1>0, <2>3, <2>6, <2>7 DEF OrderInv
    <3>2. \A f \in facts : f \in ProcessedMessages'
      <4>1. \A f \in facts : f \in ProcessedMessages \/ f = n
        BY <1>0, <2>6 DEF OrderInv
      <4>2. n \in facts => task.kind = "messages"
        BY <1>0 DEF IInv, FrameInv
      <4> QED
        BY <2>3, <4>1, <4>2
    <3>3. CASE task.conn = 0
      BY <2>1, <2>4, <2>7, <3>1, <3>2, <3>3 DEF OrderInv, AtPending, Working
    <3>4. CASE task.conn # 0
      <4>1. PendingDecoded' = {} /\ task'.pc = "check"
        BY <2>4, <2>7, <3>4
      <4> QED
        BY <2>1, <3>1, <3>2, <4>1 DEF OrderInv, AtPending, Working
    <3> QED
      BY <3>3, <3>4
  <2>9. reducer.primed => reducer.applied = ProcessedMessages'
    BY <2>1, <2>3 DEF MemoryInv, Ahead
  <2>10. \A c \in ckpts' : c.seen = {f \in ProcessedMessages' : f <= c.frame}
    <3>1. ASSUME NEW c \in ckpts
          PROVE  c.seen = {f \in ProcessedMessages' : f <= c.frame}
      <4>1. c.frame \in ProcessedMessages
        BY DEF IInv, FrameInv, CheckpointsAnchored
      <4>2. c.frame < n /\ c.frame \in Nat
        BY <1>0, <2>7, <4>1
      <4>3. ~(n <= c.frame)
        BY <1>0, <4>2
      <4> QED
        BY <2>3, <4>3 DEF MemoryInv
    <3>2. CASE task.kind = "messages"
      <4>1. reducer.applied = ProcessedMessages'
        BY <2>1, <2>3, <3>2 DEF MemoryInv, Ahead
      <4>2. \A f \in ProcessedMessages' : f <= n
        BY <1>0, <2>3, <2>7
      <4>3. saved.seen = {f \in ProcessedMessages' : f <= saved.frame}
        BY <4>1, <4>2
      <4> QED
        BY <2>5, <3>1, <4>3
    <3> QED
      BY <2>5, <3>1, <3>2
  <2>11. ~Ahead'
    BY <2>4 DEF Ahead
  <2> QED
    BY <2>1, <2>8, <2>9, <2>10, <2>11 DEF MemoryInv
<1> QED
  BY <1>1, <1>2, <1>3

LEMMA OrderStep == IInv /\ OrderInv /\ MemoryInv /\ [Next]_vars => OrderInv' /\ MemoryInv'
<1> SUFFICES ASSUME IInv, OrderInv, MemoryInv, [Next]_vars PROVE OrderInv' /\ MemoryInv'
  OBVIOUS
<1>1. CASE Fault
  <2>1. used'.faults = used.faults + 1 /\ used.faults \in Nat
    BY <1>1 DEF Fault, StartRunFault, FrameFault, RunFault, HandlerFault, SpendFault, IInv, TypeOK, Counters
  <2>2. used'.faults # 0
    BY <2>1
  <2> QED
    BY <2>2 DEF OrderInv, MemoryInv
<1>2. CASE UNCHANGED vars
  <2>1. /\ UNCHANGED <<frames, facts, ckpts, reducer, used, task>>
        /\ ProcessedMessages' = ProcessedMessages /\ PendingDecoded' = PendingDecoded
    BY <1>2, ViewsSame DEF vars, store
  <2> QED
    BY <2>1 DEF OrderInv, MemoryInv, Ahead
<1> QED
  BY <1>1, <1>2, QuietOrderStep, IdleOrderStep, ReplayOrderStep, StoreOrderStep, ProcessOrderStep
  DEF Next, TaskStep, SupervisorIdle

LEMMA InitOrder == Init => OrderInv /\ MemoryInv
BY DEF Init, OrderInv, MemoryInv, Ahead, ProcessedMessages, PendingDecoded, FrameIds, NoTask, FreshReducer,
       AtPending, Working

LEMMA OrderInvariance == Spec => [](OrderInv /\ MemoryInv)
BY Invariance, InitOrder, OrderStep, PTL DEF Spec

\* With no budget for raising transactions none raises.
LEMMA NoFaults ==
    ASSUME MaxFaults = 0
    PROVE  Spec => [](used.faults = 0)
<1>1. Init => used.faults = 0
  BY DEF Init
<1>2. ASSUME IInv, used.faults = 0, [Next]_vars
      PROVE  (used.faults = 0)'
  <2>0. used \in Counters
    BY <1>2 DEF IInv, TypeOK
  <2>1. ~Fault
    BY <1>2 DEF Fault, StartRunFault, FrameFault, RunFault, HandlerFault, SpendFault
  <2>2. CASE UNCHANGED used
    BY <1>2, <2>2
  <2>3. CASE Crash \/ GracefulStop \/ SourceDrop
    BY <1>2, <2>0, <2>3 DEF Crash, GracefulStop, SourceDrop, Counters
  <2> QED
    BY <1>2, <2>1, <2>2, <2>3
    DEF Next, TaskStep, vars, SupervisorIdle, Connect, CheckActive, StopNoticed, OpenConnection, CloseGap,
        CloseConnection, AfterDisconnect, RecordGap, BackoffElapsed, HandleCancel, ReceiveFrame, StartRun,
        StartRunRefused, ReplayNext, ReplayDone, PersistRawFrame, DecodeFrame, ProcessFrame, ProcessMetrics,
        MarkProcessed, FinishRun, Spawn, OperatorStop, StartProcess
<1> QED
  BY <1>1, <1>2, Invariance, PTL DEF Spec

\* As long as no transaction has raised, a restart rebuilds exactly the memory a
\* cold replay would: _prime's checkpoint and tail are the processed frames, and
\* between frames the live reducer holds those too.
THEOREM RestartIsReplay == Spec => [](used.faults = 0 => MemoryIsReplay)
<1>1. IInv /\ MemoryInv => (used.faults = 0 => MemoryIsReplay)
  <2> SUFFICES ASSUME IInv, MemoryInv, used.faults = 0 PROVE MemoryIsReplay
    OBVIOUS
  <2>1. Restored = ProcessedMessages
    BY RestoredIsProcessed DEF MemoryInv
  <2> QED
    BY <2>1 DEF MemoryInv, Ahead, MemoryIsReplay
<1> QED
  BY <1>1, Invariance, OrderInvariance, PTL

\* Without raising transactions process_frame commits the facts of the frames in
\* the order they were received, over any number of crashes and replays.
THEOREM FactsInOrder ==
    ASSUME MaxFaults = 0
    PROVE  Spec => FactsInReceiveOrder
<1>1. ASSUME IInv, OrderInv, used.faults = 0, [Next]_vars
      PROVE  [\A f \in facts' \ facts : \A g \in facts : g < f]_vars
  <2>1. CASE ProcessFrame
    <3> DEFINE n == task.frame
    <3>1. facts' = facts \cup {n} /\ task.pc = "process"
      BY <2>1 DEF ProcessFrame
    <3>2. n \in PendingDecoded /\ PendingDecoded \subseteq Nat
      BY <1>1, <3>1, Tables DEF IInv, OrderInv, AtPending, PendingDecoded, FrameIds
    <3>3. ASSUME NEW g \in facts, n \notin facts
          PROVE  g < n
      <4>1. g # n
        BY <3>3
      <4>2. CASE g \in ProcessedMessages
        BY <1>1, <3>2, <4>2 DEF OrderInv
      <4>3. CASE g \in PendingDecoded /\ \A h \in PendingDecoded : g <= h
        <5>1. g <= n /\ g \in Nat /\ n \in Nat
          BY <3>2, <4>3
        <5> QED
          BY <4>1, <5>1
      <4> QED
        BY <1>1, <4>2, <4>3 DEF OrderInv
    <3> QED
      BY <3>1, <3>3
  <2>2. CASE UNCHANGED facts
    BY <2>2
  <2> QED
    BY <1>1, <2>1, <2>2
    DEF Next, TaskStep, Fault, vars, store, SupervisorIdle, Connect, CheckActive, StopNoticed, OpenConnection,
        CloseGap, CloseConnection, AfterDisconnect, RecordGap, BackoffElapsed, HandleCancel, ReceiveFrame,
        StartRun, StartRunRefused, ReplayNext, ReplayDone, PersistRawFrame, DecodeFrame, ProcessMetrics,
        MarkProcessed, FinishRun, Spawn, OperatorStop, StartProcess, SourceDrop, Crash, GracefulStop,
        StartRunFault, FrameFault, RunFault, HandlerFault
<1> QED
  BY <1>1, Invariance, OrderInvariance, NoFaults, PTL DEF Spec, FactsInReceiveOrder
-----------------------------------------------------------------------------
(* The gaps, as long as no run has ended with an error.                    *)

NoErrorRun == \A r \in DOMAIN runs : runs[r].stop # "error"

\* A gap row spans the point after the first n frames.
Covered(n) == \E g \in DOMAIN gaps : gaps[g].from <= n /\ (gaps[g].open \/ gaps[g].to >= n)

\* Nothing is said to have begun after frames that are not stored yet.
PlaceInv ==
    /\ \A g \in DOMAIN gaps : gaps[g].from <= Len(frames)
    /\ \A c \in DOMAIN conns : conns[c].at <= Len(frames)
    /\ \A r \in DOMAIN runs : runs[r].at <= Len(frames)

\* The gap the task remembers is open, and a cancelled run leaves one.
HoldInv ==
    /\ task.gap # 0 => task.gap \in OpenGaps
    /\ task.reason = "supervisor_cancelled" => task.pc \in {"closing", "cancelled", "finish"}
    /\ task.pc = "cancelled" => task.reason = "supervisor_cancelled"
    /\ task.pc = "finish" => task.reason # "open"
    /\ task.pc = "finish" /\ task.reason = "supervisor_cancelled" =>
          lifecycle = "closed" \/ OpenGaps # {}

\* The next frame that is stored will not belong to the last one's connection.
Broken ==
    /\ task.pc \in Working /\ frames # <<>>
    /\ task.pc \in {"connect", "backoff"} \/ frames[Len(frames)].conn # task.conn

\* Where the connection may change a gap lies already, or the next start_run finds
\* an open gap or an orphan run.
BreakInv ==
    NoErrorRun =>
        /\ BreaksAreRecorded
        /\ task.pc \in {"none", "spawned"} /\ lifecycle = "active" =>
              frames = <<>> \/ OpenRuns # {} \/ OpenGaps # {}
        /\ Broken => Covered(Len(frames))

\* Stored frames keep their connection; only persist_raw_frame adds one.
LEMMA FramesKept ==
    ASSUME IInv, [Next]_vars
    PROVE  /\ \A f \in DOMAIN frames : f \in DOMAIN frames' /\ frames'[f].conn = frames[f].conn
           /\ PersistRawFrame \/ Len(frames') = Len(frames)
           /\ PersistRawFrame => /\ Len(frames') = Len(frames) + 1
                                 /\ frames'[Len(frames) + 1].conn = task.conn
<1>0. /\ TypeOK /\ task \in Task /\ frames \in Seq(Frame)
      /\ Len(frames) \in Nat /\ DOMAIN frames = 1..Len(frames)
      /\ \A f \in DOMAIN frames : frames[f] \in Frame
  BY Tables DEF IInv, TypeOK
<1>1. CASE PersistRawFrame
  <2> DEFINE row == [conn |-> task.conn, kind |-> task.kind, state |-> "pending", processed |-> FALSE]
  <2>1. row \in Frame /\ frames' = Append(frames, row) /\ row.conn = task.conn
    BY <1>0, <1>1 DEF PersistRawFrame, Frame, Task
  <2> HIDE DEF row
  <2>2. /\ DOMAIN frames \subseteq DOMAIN frames' /\ Len(frames') = Len(frames) + 1
        /\ \A f \in DOMAIN frames : frames'[f] = frames[f]
        /\ frames'[Len(frames) + 1] = row
    BY <1>0, <2>1, AppendProperties
  <2> QED
    BY <1>1, <2>1, <2>2
<1>2. CASE DecodeFrame \/ MarkProcessed
  <2>1. PICK row : /\ frames' = [frames EXCEPT ![task.frame] = row]
                   /\ task.frame \in DOMAIN frames => row.conn = frames[task.frame].conn
    BY ZenonT(60), <1>0, <1>2 DEF DecodeFrame, MarkProcessed, Frame
  <2>2. DOMAIN frames' = DOMAIN frames /\ \A f \in DOMAIN frames : frames'[f].conn = frames[f].conn
    BY <2>1
  <2>3. IInv'
    BY StepInvariant
  <2>4. Len(frames') \in Nat /\ DOMAIN frames' = 1..Len(frames')
    BY <2>3, LenProperties DEF IInv, TypeOK
  <2>5. Len(frames') = Len(frames)
    BY <1>0, <2>2, <2>4
  <2>6. ~PersistRawFrame
    BY <1>2 DEF DecodeFrame, MarkProcessed, PersistRawFrame
  <2> QED
    BY <2>2, <2>5, <2>6
<1>3. CASE UNCHANGED frames
  <2>1. ~PersistRawFrame
    <3> SUFFICES ASSUME PersistRawFrame PROVE FALSE
      OBVIOUS
    <3> DEFINE row == [conn |-> task.conn, kind |-> task.kind, state |-> "pending", processed |-> FALSE]
    <3>1. row \in Frame /\ frames' = Append(frames, row)
      BY <1>0 DEF PersistRawFrame, Frame, Task
    <3> HIDE DEF row
    <3> QED
      BY <1>0, <1>3, <3>1, AppendProperties
  <2> QED
    BY <1>3, <2>1
<1> QED
  BY <1>1, <1>2, <1>3
  DEF Next, TaskStep, Fault, vars, store, SupervisorIdle, Connect, CheckActive, StopNoticed, OpenConnection,
      CloseGap, CloseConnection, AfterDisconnect, RecordGap, BackoffElapsed, HandleCancel, ReceiveFrame,
      StartRun, StartRunRefused, ReplayNext, ReplayDone, ProcessFrame, ProcessMetrics,
      FinishRun, Spawn, OperatorStop, StartProcess, SourceDrop, Crash, GracefulStop,
      StartRunFault, FrameFault, RunFault, HandlerFault

\* Runs keep their start, and an error stays one; a new run begins after the frames
\* that are stored.
LEMMA RunsKept ==
    ASSUME IInv, [Next]_vars
    PROVE  /\ \A r \in DOMAIN runs' : \/ runs'[r].at = Len(frames)
                                      \/ r \in DOMAIN runs /\ runs'[r].at = runs[r].at
           /\ NoErrorRun' => NoErrorRun
           /\ FinishRun \/ StartRun \/ UNCHANGED runs
<1>0. /\ TypeOK /\ Len(runs) \in Nat /\ DOMAIN runs = 1..Len(runs) /\ Len(frames) \in Nat
      /\ \A r \in DOMAIN runs : runs[r] \in Run
  BY Tables DEF IInv
<1>1. CASE FinishRun
  <2> DEFINE n == task.run
             row == [runs[n] EXCEPT !.stop = IF @ = "open" THEN task.reason ELSE @]
  <2>1. n \in DOMAIN runs /\ runs[n].stop = "open"
    BY <1>1 DEF IInv, RunInv, FinishRun, Working, ControlPoint, OpenRuns
  <2>2. runs' = [runs EXCEPT ![n] = row] /\ row.at = runs[n].at
    BY <1>0, <1>1, <2>1 DEF FinishRun, Run
  <2> HIDE DEF row
  <2>3. DOMAIN runs' = DOMAIN runs /\ \A r \in DOMAIN runs : r # n => runs'[r] = runs[r]
    BY <2>2
  <2>4. \A r \in DOMAIN runs : runs'[r].at = runs[r].at
    BY <2>1, <2>2
  <2> QED
    BY <1>1, <2>1, <2>3, <2>4 DEF NoErrorRun
<1>2. CASE StartRun
  <2> DEFINE row == [stop |-> "open", at |-> Len(frames)]
  <2>1. \A r \in DOMAIN runs : /\ RecoveredRuns[r] \in Run /\ RecoveredRuns[r].at = runs[r].at
                               /\ runs[r].stop = "error" => RecoveredRuns[r].stop = "error"
    BY <1>0 DEF RecoveredRuns, Run, StopReason
  <2>2. RecoveredRuns \in Seq(Run) /\ DOMAIN RecoveredRuns = DOMAIN runs
    <3>1. RecoveredRuns = [r \in 1..Len(runs) |-> RecoveredRuns[r]]
      BY <1>0 DEF RecoveredRuns
    <3>2. RecoveredRuns \in Seq(Run)
      BY <1>0, <2>1, <3>1, IsASeq
    <3> QED
      BY <3>2 DEF RecoveredRuns
  <2>3. row \in Run /\ runs' = Append(RecoveredRuns, row) /\ row.at = Len(frames)
    BY <1>0, <1>2 DEF StartRun, Run, StopReason
  <2> HIDE DEF row
  <2>4. /\ DOMAIN runs' = DOMAIN runs \cup {Len(RecoveredRuns) + 1}
        /\ \A r \in DOMAIN runs : runs'[r] = RecoveredRuns[r]
        /\ runs'[Len(RecoveredRuns) + 1] = row
    BY <2>2, <2>3, AppendProperties
  <2>5. \A r \in DOMAIN runs' : \/ runs'[r].at = Len(frames)
                                \/ r \in DOMAIN runs /\ runs'[r].at = runs[r].at
    BY <2>1, <2>3, <2>4
  <2>6. NoErrorRun' => NoErrorRun
    BY <2>1, <2>4 DEF NoErrorRun
  <2> QED
    BY <1>2, <2>5, <2>6
<1>3. CASE UNCHANGED runs
  BY <1>3 DEF NoErrorRun
<1> QED
  BY <1>1, <1>2, <1>3
  DEF Next, TaskStep, Fault, vars, store, SupervisorIdle, Connect, CheckActive, StopNoticed, OpenConnection,
      CloseGap, CloseConnection, AfterDisconnect, RecordGap, BackoffElapsed, HandleCancel, ReceiveFrame,
      StartRunRefused, ReplayNext, ReplayDone, ProcessFrame, ProcessMetrics, PersistRawFrame, DecodeFrame,
      MarkProcessed, Spawn, OperatorStop, StartProcess, SourceDrop, Crash, GracefulStop,
      StartRunFault, FrameFault, RunFault, HandlerFault

\* The same for the connections.
LEMMA ConnsKept ==
    ASSUME IInv, [Next]_vars
    PROVE  \A c \in DOMAIN conns' : \/ conns'[c].at = Len(frames)
                                    \/ c \in DOMAIN conns /\ conns'[c].at = conns[c].at
<1>0. /\ TypeOK /\ conns \in Seq(Connection) /\ Len(frames) \in Nat /\ task \in Task
      /\ \A c \in DOMAIN conns : conns[c] \in Connection
  BY Tables DEF IInv, TypeOK
<1>1. CASE OpenConnection
  <2> DEFINE row == [run |-> task.run, open |-> TRUE, at |-> Len(frames)]
  <2>1. row \in Connection /\ conns' = Append(conns, row) /\ row.at = Len(frames)
    BY <1>0, <1>1 DEF OpenConnection, Connection, Task
  <2> HIDE DEF row
  <2> QED
    BY <1>0, <2>1, AppendProperties
<1>2. CASE CloseConnection /\ task.conn # 0
  <2>1. conns' = [conns EXCEPT ![task.conn].open = FALSE]
    BY <1>2 DEF CloseConnection
  <2> QED
    BY <1>0, <2>1 DEF Connection
<1>3. CASE StartRun
  <2>1. conns' = RecoveredConns
    BY <1>3 DEF StartRun
  <2> QED
    BY <1>0, <2>1 DEF RecoveredConns, Connection
<1>4. CASE UNCHANGED conns
  BY <1>4
<1> QED
  BY <1>1, <1>2, <1>3, <1>4
  DEF Next, TaskStep, Fault, vars, store, SupervisorIdle, Connect, CheckActive, StopNoticed,
      CloseGap, CloseConnection, AfterDisconnect, RecordGap, BackoffElapsed, HandleCancel, ReceiveFrame,
      StartRunRefused, ReplayNext, ReplayDone, ProcessFrame, ProcessMetrics, PersistRawFrame, DecodeFrame,
      MarkProcessed, FinishRun, Spawn, OperatorStop, StartProcess, SourceDrop, Crash, GracefulStop,
      StartRunFault, FrameFault, RunFault, HandlerFault

\* The restart gap of an orphan begins where frames are stored.
LEMMA OrphanBreakPlaced ==
    ASSUME IInv, PlaceInv, NEW b \in OrphanBreak
    PROVE  b \in Nat /\ b <= Len(frames)
<1> DEFINE orphan == NewestOf(OpenRuns)
           upstream == NewestOf({c \in OpenConns : conns[c].run \in orphan})
           received == {f \in FrameIds : frames[f].conn \in upstream}
<1>0. b \in Nat
  BY OrphanBreakTyped DEF IInv
<1>1. \A f \in NewestOf(received) : f <= Len(frames)
  BY Tables DEF IInv, NewestOf, FrameIds
<1>2. \A c \in upstream : conns[c].at <= Len(frames)
  BY DEF PlaceInv, NewestOf, OpenConns
<1>3. \A r \in orphan : runs[r].at <= Len(frames)
  BY DEF PlaceInv, NewestOf, OpenRuns
<1>4. \/ OrphanBreak = NewestOf(received)
      \/ OrphanBreak = {conns[c].at : c \in upstream}
      \/ OrphanBreak = {runs[r].at : r \in orphan}
  <2>1. CASE received # {}
    BY <2>1 DEF OrphanBreak
  <2>2. CASE received = {} /\ upstream # {}
    BY <2>2 DEF OrphanBreak
  <2>3. CASE received = {} /\ upstream = {}
    BY <2>3 DEF OrphanBreak
  <2> QED
    BY <2>1, <2>2, <2>3
<1> HIDE DEF orphan, upstream, received
<1> QED
  BY <1>0, <1>1, <1>2, <1>3, <1>4

\* An open gap row is added.
LEMMA GapAdded ==
    ASSUME IInv, NEW b \in Nat, gaps' = Append(gaps, [from |-> b, open |-> TRUE, to |-> 0])
    PROVE  /\ \A g \in DOMAIN gaps : g \in DOMAIN gaps' /\ gaps'[g] = gaps[g]
           /\ Len(gaps) + 1 \in DOMAIN gaps'
           /\ gaps'[Len(gaps) + 1].from = b /\ gaps'[Len(gaps) + 1].open
           /\ \A g \in DOMAIN gaps' : g \in DOMAIN gaps \/ g = Len(gaps) + 1
<1> DEFINE row == [from |-> b, open |-> TRUE, to |-> 0]
<1>1. row \in Gap /\ row.from = b /\ row.open
  BY DEF Gap
<1> HIDE DEF row
<1> QED
  BY <1>1, AppendProperties, LenProperties DEF IInv, TypeOK, row

\* Gap rows stay; only close_gap ends one, where frames are stored.
LEMMA GapsKept ==
    ASSUME IInv, PlaceInv, [Next]_vars
    PROVE  /\ \A g \in DOMAIN gaps : /\ g \in DOMAIN gaps' /\ gaps'[g].from = gaps[g].from
                                     /\ \/ gaps'[g] = gaps[g]
                                        \/ CloseGap /\ gaps'[g].to = Len(frames)
           /\ \A g \in DOMAIN gaps' : \/ gaps'[g].from <= Len(frames) /\ gaps'[g].open
                                      \/ g \in DOMAIN gaps
           /\ CloseGap \/ OpenGaps \subseteq OpenGaps'
<1>0. /\ TypeOK /\ Len(frames) \in Nat /\ \A g \in DOMAIN gaps : gaps[g] \in Gap
  BY Tables DEF IInv
<1>1. CASE CloseGap
  <2> DEFINE n == task.gap
             row == IF gaps[n].open THEN [gaps[n] EXCEPT !.open = FALSE, !.to = Len(frames)] ELSE gaps[n]
  <2>1. n \in DOMAIN gaps
    BY <1>1 DEF IInv, ConnInv, CloseGap
  <2>2. /\ gaps' = [gaps EXCEPT ![n] = row] /\ row.from = gaps[n].from
        /\ row = gaps[n] \/ row.to = Len(frames)
    BY <1>0, <1>1, <2>1 DEF CloseGap, Gap
  <2> HIDE DEF row
  <2> QED
    BY <1>1, <2>1, <2>2
<1>2. CASE UNCHANGED gaps
  BY <1>2 DEF OpenGaps
<1>3. ASSUME NEW b \in Nat, b <= Len(frames), gaps' = Append(gaps, [from |-> b, open |-> TRUE, to |-> 0])
      PROVE  /\ \A g \in DOMAIN gaps : g \in DOMAIN gaps' /\ gaps'[g] = gaps[g]
             /\ \A g \in DOMAIN gaps' : \/ gaps'[g].from <= Len(frames) /\ gaps'[g].open
                                        \/ g \in DOMAIN gaps
             /\ OpenGaps \subseteq OpenGaps'
  BY <1>3, GapAdded DEF OpenGaps
<1>4. CASE \E b \in Nat : b <= Len(frames) /\ gaps' = Append(gaps, [from |-> b, open |-> TRUE, to |-> 0])
  BY <1>3, <1>4
<1>5. CASE StartRun
  BY <1>2, <1>4, <1>5, OrphanBreakPlaced DEF StartRun
<1>6. CASE RecordGap \/ HandleCancel
  <2>1. \/ UNCHANGED gaps
        \/ gaps' = Append(gaps, [from |-> Len(frames), open |-> TRUE, to |-> 0])
    BY <1>6 DEF RecordGap, HandleCancel
  <2>2. Len(frames) <= Len(frames)
    BY <1>0
  <2> QED
    BY <1>0, <1>2, <1>3, <2>1, <2>2
<1> QED
  BY <1>1, <1>2, <1>5, <1>6
  DEF Next, TaskStep, Fault, vars, store, SupervisorIdle, Connect, CheckActive, StopNoticed, OpenConnection,
      CloseConnection, AfterDisconnect, BackoffElapsed, ReceiveFrame,
      StartRunRefused, ReplayNext, ReplayDone, ProcessFrame, ProcessMetrics, PersistRawFrame, DecodeFrame,
      MarkProcessed, FinishRun, Spawn, OperatorStop, StartProcess, SourceDrop, Crash, GracefulStop,
      StartRunFault, FrameFault, RunFault, HandlerFault

LEMMA PlaceStep == IInv /\ PlaceInv /\ [Next]_vars => PlaceInv'
<1> SUFFICES ASSUME IInv, PlaceInv, [Next]_vars PROVE PlaceInv'
  OBVIOUS
<1>0. /\ Len(frames) \in Nat /\ \A r \in DOMAIN runs : runs[r] \in Run
      /\ \A c \in DOMAIN conns : conns[c] \in Connection /\ \A g \in DOMAIN gaps : gaps[g] \in Gap
  BY Tables DEF IInv
<1>1. Len(frames') \in {Len(frames), Len(frames) + 1}
  BY FramesKept
<1>2. IInv'
  BY StepInvariant
<1>3. ASSUME NEW g \in DOMAIN gaps'
      PROVE  gaps'[g].from <= Len(frames')
  <2>1. gaps'[g].from \in Nat
    <3>1. gaps' \in Seq(Gap)
      BY <1>2 DEF IInv, TypeOK
    <3>2. gaps'[g] \in Gap
      BY <3>1
    <3> QED
      BY <3>2 DEF Gap
  <2>2. gaps'[g].from <= Len(frames)
    BY GapsKept DEF PlaceInv
  <2> QED
    BY <1>0, <1>1, <2>1, <2>2
<1>4. ASSUME NEW c \in DOMAIN conns'
      PROVE  conns'[c].at <= Len(frames')
  <2>1. conns'[c].at = Len(frames) \/ (conns'[c].at <= Len(frames) /\ conns'[c].at \in Nat)
    BY <1>0, ConnsKept DEF PlaceInv, Connection
  <2> QED
    BY <1>0, <1>1, <2>1
<1>5. ASSUME NEW r \in DOMAIN runs'
      PROVE  runs'[r].at <= Len(frames')
  <2>1. runs'[r].at = Len(frames) \/ (runs'[r].at <= Len(frames) /\ runs'[r].at \in Nat)
    BY <1>0, RunsKept DEF PlaceInv, Run
  <2> QED
    BY <1>0, <1>1, <2>1
<1> QED
  BY <1>3, <1>4, <1>5 DEF PlaceInv

\* What a gap spans it keeps spanning.
LEMMA CoveredKept ==
    ASSUME IInv, PlaceInv, [Next]_vars, NEW n \in Nat, n <= Len(frames), Covered(n)
    PROVE  Covered(n)'
<1>1. PICK g \in DOMAIN gaps : gaps[g].from <= n /\ (gaps[g].open \/ gaps[g].to >= n)
  BY DEF Covered
<1>2. Len(frames) \in Nat
  BY Tables DEF IInv
<1>3. /\ g \in DOMAIN gaps' /\ gaps'[g].from = gaps[g].from
      /\ gaps'[g] = gaps[g] \/ gaps'[g].to = Len(frames)
  BY GapsKept
<1> QED
  BY <1>1, <1>2, <1>3 DEF Covered

\* Steps that leave the remembered gap and the frame table as they are.
LEMMA HoldStep == IInv /\ PlaceInv /\ HoldInv /\ [Next]_vars => HoldInv'
<1> SUFFICES ASSUME IInv, PlaceInv, HoldInv, [Next]_vars PROVE HoldInv'
  OBVIOUS
<1>0. task \in Task /\ Len(gaps) \in Nat /\ DOMAIN gaps = 1..Len(gaps) /\ Len(frames) \in Nat
  BY Tables DEF IInv, TypeOK
<1>1. CASE CloseGap
  <2>1. task'.gap = 0 /\ task'.pc = "persist" /\ task'.reason = task.reason /\ task.pc = "close_gap"
    BY <1>0, <1>1 DEF CloseGap, Task
  <2> QED
    BY <2>1 DEF HoldInv
<1>2. CASE RecordGap \/ (HandleCancel /\ task.gap = 0 /\ lifecycle = "active")
  <2> DEFINE n == Len(gaps) + 1
  <2>1. n \in OpenGaps'
    <3>1. gaps' = Append(gaps, [from |-> Len(frames), open |-> TRUE, to |-> 0])
      BY <1>2 DEF RecordGap, HandleCancel
    <3> QED
      BY <1>0, <3>1, GapAdded DEF OpenGaps
  <2>2. \E p \in {"backoff", "finish"} : task' = [task EXCEPT !.pc = p, !.gap = n]
    BY <1>2 DEF RecordGap, HandleCancel
  <2> HIDE DEF n
  <2>3. task'.gap = n /\ task'.reason = task.reason
    BY <1>0, <2>2 DEF Task
  <2>4. \/ task.pc = "record_gap" /\ task'.pc = "backoff"
        \/ task.pc = "cancelled" /\ task'.pc = "finish"
    BY <1>0, <1>2, <2>2 DEF RecordGap, HandleCancel, Task
  <2> QED
    BY <2>1, <2>3, <2>4 DEF HoldInv
<1>3. CASE StartRun
  <2>1. PICK gap \in {0, Len(gaps) + 1} \cup OpenGaps :
          /\ task' = [task EXCEPT !.pc = "replay", !.run = Len(runs) + 1, !.gap = gap, !.replay = PendingDecoded]
          /\ \/ OpenGaps # {} /\ gap \in NewestOf(OpenGaps) /\ gaps' = gaps
             \/ OpenGaps = {} /\ OpenRuns = {} /\ gap = 0 /\ gaps' = gaps
             \/ /\ OpenGaps = {} /\ OpenRuns # {} /\ gap = Len(gaps) + 1
                /\ \E b \in OrphanBreak : gaps' = Append(gaps, [from |-> b, open |-> TRUE, to |-> 0])
    BY <1>3 DEF StartRun
  <2>2. task'.gap = gap /\ task'.pc = "replay" /\ task'.reason = task.reason /\ task.pc = "spawned"
    BY <1>0, <1>3, <2>1 DEF StartRun, Task
  <2>3. gap # 0 => gap \in OpenGaps'
    <3>1. CASE gap \in NewestOf(OpenGaps) /\ gaps' = gaps
      BY <3>1 DEF NewestOf, OpenGaps
    <3>2. ASSUME NEW b \in OrphanBreak, gap = Len(gaps) + 1,
                 gaps' = Append(gaps, [from |-> b, open |-> TRUE, to |-> 0])
          PROVE  gap \in OpenGaps'
      BY <3>2, OrphanBreakPlaced, GapAdded DEF OpenGaps
    <3> QED
      BY <2>1, <3>1, <3>2
  <2> QED
    BY <2>2, <2>3 DEF HoldInv
<1>4. CASE task' = NoTask
  BY <1>4 DEF HoldInv, NoTask
<1>5. CASE task'.gap = task.gap /\ ~CloseGap
  <2>1. OpenGaps \subseteq OpenGaps'
    BY <1>5, GapsKept
  <2>2. task'.gap # 0 => task'.gap \in OpenGaps'
    BY <1>5, <2>1 DEF HoldInv
  <2>3. CASE task' = task
    <3>1. lifecycle = "closed" => lifecycle' = "closed"
      BY <1>0
      DEF Next, TaskStep, Fault, vars, store, SupervisorIdle, Connect, CheckActive, StopNoticed, OpenConnection,
          CloseGap, CloseConnection, AfterDisconnect, RecordGap, BackoffElapsed, HandleCancel, ReceiveFrame,
          StartRun, StartRunRefused, ReplayNext, ReplayDone, ProcessFrame, ProcessMetrics, PersistRawFrame,
          DecodeFrame, MarkProcessed, FinishRun, Spawn, OperatorStop, StartProcess, SourceDrop, Crash,
          GracefulStop, StartRunFault, FrameFault, RunFault, HandlerFault
    <3> QED
      BY <2>1, <2>2, <2>3, <3>1 DEF HoldInv
  <2>4. CASE task'.reason = task.reason /\ task.pc \notin {"closing", "cancelled", "finish"}
             /\ task'.pc \notin {"cancelled", "finish"}
    BY <2>2, <2>4 DEF HoldInv
  <2>5. CASE task'.reason = "supervisor_cancelled" /\ task'.pc \in {"closing", "cancelled"}
    BY <2>2, <2>5 DEF HoldInv
  <2>6. CASE task'.reason \in {"session_inactive", "error"} /\ task'.pc = "finish"
    BY <2>2, <2>6 DEF HoldInv
  <2>7. CASE task'.reason = "open" /\ task'.pc = "check"
    BY <2>2, <2>7 DEF HoldInv
  <2>8. CASE CloseConnection
    <3>1. /\ task'.reason = task.reason
          /\ task'.pc = IF task.reason = "supervisor_cancelled" THEN "cancelled" ELSE "disconnected"
      BY <1>0, <2>8 DEF CloseConnection, Goto, Task
    <3> QED
      BY <2>2, <3>1 DEF HoldInv
  <2>9. CASE HandleCancel /\ ~(task.gap = 0 /\ lifecycle = "active")
    <3>1. task.pc = "cancelled" /\ task'.pc = "finish" /\ task'.reason = task.reason
      BY <1>0, <2>9 DEF HandleCancel, Goto, Task
    <3>2. task.gap # 0 \/ lifecycle' # "active"
      BY <2>9 DEF HandleCancel
    <3>3. lifecycle' \in {"active", "closed"}
      BY <2>9 DEF HandleCancel, IInv, TypeOK
    <3> QED
      BY <1>5, <2>2, <3>1, <3>2, <3>3 DEF HoldInv
  <2>10. CASE Connect \/ AfterDisconnect
    BY <1>0, <2>4, <2>6, <2>7, <2>10 DEF Connect, AfterDisconnect, Goto, Task
  <2>11. CASE GracefulStop \/ RunFault
    BY <1>0, <1>4, <2>5, <2>6, <2>11 DEF GracefulStop, RunFault, Task, NoTask, HoldInv
  <2>12. CASE FrameFault
    BY <1>0, <2>4, <2>12 DEF FrameFault, Goto, Task
  <2>13. CASE Spawn \/ CheckActive \/ StopNoticed \/ SourceDrop \/ OpenConnection \/ BackoffElapsed
              \/ PersistRawFrame \/ ProcessFrame \/ ProcessMetrics \/ MarkProcessed \/ ReplayDone
              \/ \E k \in Kinds : ReceiveFrame(k)
    BY <1>0, <2>4, <2>13 DEF Spawn, CheckActive, StopNoticed, SourceDrop, OpenConnection, BackoffElapsed,
       PersistRawFrame, ProcessFrame, ProcessMetrics, MarkProcessed, ReplayDone, ReceiveFrame, Goto, Task
  <2>14. CASE ReplayNext
    BY <1>0, <2>4, <2>14 DEF ReplayNext, Task
  <2>15. CASE DecodeFrame
    <3>1. PICK p \in {"check", "mark", "process"} : task' = [task EXCEPT !.pc = p]
      BY <1>0, <2>15 DEF DecodeFrame, Goto, Task, FrameKind
    <3>2. task'.pc = p /\ task'.reason = task.reason /\ task.pc = "decode"
      BY <1>0, <2>15, <3>1 DEF DecodeFrame, Task
    <3> QED
      BY <2>4, <3>2
  <2> QED
    BY <1>3, <1>4, <1>5, <2>3, <2>8, <2>9, <2>10, <2>11, <2>12, <2>13, <2>14, <2>15, <1>2
    DEF Next, TaskStep, Fault, vars, SupervisorIdle, OperatorStop, StartProcess, Crash, StartRunRefused,
        FinishRun, StartRunFault, HandlerFault, EndTask
<1>6. CASE ~CloseGap /\ ~RecordGap /\ ~HandleCancel /\ ~StartRun /\ task' # NoTask
  <2>1. task'.gap = task.gap
    BY <1>0, <1>6
    DEF Next, TaskStep, Fault, vars, SupervisorIdle, Connect, CheckActive, StopNoticed, OpenConnection,
        CloseConnection, AfterDisconnect, BackoffElapsed, ReceiveFrame, StartRunRefused, ReplayNext,
        ReplayDone, ProcessFrame, ProcessMetrics, PersistRawFrame, DecodeFrame, MarkProcessed, FinishRun,
        Spawn, OperatorStop, StartProcess, SourceDrop, Crash, GracefulStop, StartRunFault, FrameFault,
        RunFault, HandlerFault, EndTask, Goto, Task
  <2> QED
    BY <1>5, <1>6, <2>1
<1>7. CASE HandleCancel /\ ~(task.gap = 0 /\ lifecycle = "active")
  <2>1. task'.gap = task.gap /\ ~CloseGap
    BY <1>0, <1>7 DEF HandleCancel, CloseGap, Goto, Task
  <2> QED
    BY <1>5, <2>1
<1> QED
  BY <1>1, <1>2, <1>3, <1>4, <1>6, <1>7

\* Which steps may leave the task broken off: one that already was, start_run and
\* record_gap.
LEMMA BrokenSteps ==
    ASSUME IInv, [Next]_vars, ~PersistRawFrame, ~StartRun, ~RecordGap, Broken'
    PROVE  Broken
<1>0. task \in Task /\ Len(frames) \in Nat /\ DOMAIN frames = 1..Len(frames) /\ frames \in Seq(Frame)
  BY Tables DEF IInv, TypeOK
<1>1. /\ Len(frames') = Len(frames)
      /\ \A f \in DOMAIN frames : frames'[f].conn = frames[f].conn
  BY FramesKept
<1>2. IInv'
  BY StepInvariant
<1>3. frames # <<>>
  BY <1>0, <1>1, <1>2, EmptySeq DEF IInv, TypeOK, Broken
<1>4. Len(frames) \in DOMAIN frames
  BY <1>0, <1>3, EmptySeq
<1>5. frames'[Len(frames')].conn = frames[Len(frames)].conn /\ frames[Len(frames)].conn # 0
  BY <1>1, <1>4 DEF IInv, FrameInv, FrameIds
<1>6. task'.pc \in Working
  BY DEF Broken
<1>7. CASE task' = task
  BY <1>3, <1>5, <1>7 DEF Broken
<1>8. CASE task.conn = 0 /\ task.pc \in Working
  BY <1>3, <1>5, <1>8 DEF Broken
<1>9. CASE task.pc \in {"connect", "backoff"}
  BY <1>3, <1>9 DEF Broken, Working, ControlPoint
<1>10. CASE task'.conn = task.conn /\ task'.pc \notin {"connect", "backoff"} /\ task.pc \in Working
  BY <1>3, <1>5, <1>10 DEF Broken
<1>11. CASE ReplayDone \/ OpenConnection
  <2>1. task.pc \in {"replay", "open"}
    BY <1>11 DEF ReplayDone, OpenConnection
  <2> QED
    BY <1>8, <2>1 DEF IInv, ConnInv, Working, ControlPoint
<1>12. CASE Connect \/ BackoffElapsed
  BY <1>9, <1>12 DEF Connect, BackoffElapsed
<1>13. CASE GracefulStop
  <2>1. CASE task' = NoTask
    BY <1>6, <2>1 DEF NoTask, Working
  <2>2. CASE task.pc = "backoff"
    BY <1>9, <2>2
  <2>3. CASE task.pc = "reading" /\ task' = [task EXCEPT !.pc = "closing", !.reason = "supervisor_cancelled"]
    <3>1. task'.conn = task.conn /\ task'.pc = "closing"
      BY <1>0, <2>3 DEF Task
    <3> QED
      BY <1>10, <2>3, <3>1 DEF Working, ControlPoint
  <2> QED
    BY <1>13, <2>1, <2>2, <2>3 DEF GracefulStop
<1>14. CASE CheckActive \/ StopNoticed \/ SourceDrop \/ CloseGap \/ CloseConnection \/ AfterDisconnect
            \/ HandleCancel \/ ProcessFrame \/ ProcessMetrics \/ MarkProcessed \/ ReplayNext
            \/ \E k \in Kinds : ReceiveFrame(k)
  <2>1. task.pc \in Working
    BY <1>14 DEF CheckActive, StopNoticed, SourceDrop, CloseGap, CloseConnection, AfterDisconnect, HandleCancel,
       ProcessFrame, ProcessMetrics, MarkProcessed, ReplayNext, ReceiveFrame, Working, ControlPoint
  <2>2. task'.conn = task.conn /\ task'.pc \notin {"connect", "backoff"}
    BY <1>0, <1>14 DEF CheckActive, StopNoticed, SourceDrop, CloseGap, CloseConnection, AfterDisconnect,
       HandleCancel, ProcessFrame, ProcessMetrics, MarkProcessed, ReplayNext, ReceiveFrame, Goto, Task
  <2> QED
    BY <1>10, <2>1, <2>2
<1>15. CASE FrameFault \/ RunFault
  <2>1. task.pc \in Working
    BY <1>15 DEF FrameFault, RunFault, Working, ControlPoint
  <2>2. \E r \in StopReason, p \in {"closing", "finish"} : task' = [task EXCEPT !.pc = p, !.reason = r]
    <3>1. CASE FrameFault
      <4>1. task' = [task EXCEPT !.pc = "closing", !.reason = task.reason]
        BY <1>0, <3>1 DEF FrameFault, Goto, Task
      <4> QED
        BY <1>0, <4>1 DEF Task
    <3>2. CASE RunFault
      BY <3>2 DEF RunFault, StopReason
    <3> QED
      BY <1>15, <3>1, <3>2
  <2>3. task'.conn = task.conn /\ task'.pc \in {"closing", "finish"}
    BY <1>0, <2>2 DEF Task
  <2> QED
    BY <1>10, <2>1, <2>3
<1>16. CASE DecodeFrame
  <2>1. PICK p \in {"check", "mark", "process"} : task' = [task EXCEPT !.pc = p]
    BY <1>0, <1>16 DEF DecodeFrame, Goto, Task, FrameKind
  <2>2. task'.pc = p /\ task'.conn = task.conn /\ task.pc = "decode"
    BY <1>0, <1>16, <2>1 DEF DecodeFrame, Task
  <2> QED
    BY <1>10, <2>2 DEF Working, ControlPoint
<1>17. CASE Crash \/ StartRunRefused \/ FinishRun \/ StartRunFault \/ HandlerFault \/ Spawn
  <2>1. task'.pc \in {"none", "spawned"}
    BY <1>0, <1>17 DEF Crash, StartRunRefused, FinishRun, StartRunFault, HandlerFault, Spawn, EndTask, NoTask,
       Goto, Task
  <2> QED
    BY <1>6, <2>1 DEF Working
<1> QED
  BY <1>7, <1>11, <1>12, <1>13, <1>14, <1>15, <1>16, <1>17
  DEF Next, TaskStep, Fault, vars, SupervisorIdle, OperatorStop, StartProcess

\* The steps of a run under way leave the task at work.
LEMMA StaysWorking ==
    ASSUME TypeOK,
           \/ StartRun \/ ReplayNext \/ ReplayDone \/ Connect \/ CheckActive \/ StopNoticed \/ OpenConnection
           \/ CloseGap \/ PersistRawFrame \/ DecodeFrame \/ ProcessFrame \/ ProcessMetrics \/ MarkProcessed
           \/ CloseConnection \/ AfterDisconnect \/ RecordGap \/ BackoffElapsed \/ HandleCancel
    PROVE  task'.pc \in Working
<1>0. task \in Task
  BY DEF TypeOK
<1>1. CASE StartRun \/ ReplayNext \/ ReplayDone \/ Connect \/ OpenConnection \/ CloseGap \/ PersistRawFrame
  BY ZenonT(60), <1>0, <1>1 DEF StartRun, ReplayNext, ReplayDone, Connect, OpenConnection, CloseGap, PersistRawFrame, Goto,
     Task, Working, ControlPoint
<1>2. CASE CheckActive \/ StopNoticed \/ ProcessFrame \/ ProcessMetrics \/ MarkProcessed \/ CloseConnection
  BY <1>0, <1>2 DEF CheckActive, StopNoticed, ProcessFrame, ProcessMetrics, MarkProcessed, CloseConnection, Goto,
     Task, Working, ControlPoint
<1>3. CASE DecodeFrame
  BY <1>0, <1>3 DEF DecodeFrame, Goto, Task, FrameKind, Working, ControlPoint
<1>4. CASE AfterDisconnect \/ RecordGap \/ BackoffElapsed \/ HandleCancel
  BY <1>0, <1>4 DEF AfterDisconnect, RecordGap, BackoffElapsed, HandleCancel, Goto, Task, Working, ControlPoint
<1> QED
  BY <1>1, <1>2, <1>3, <1>4

LEMMA BreakStep == IInv /\ PlaceInv /\ HoldInv /\ BreakInv /\ [Next]_vars => BreakInv'
<1> SUFFICES ASSUME IInv, PlaceInv, HoldInv, BreakInv, [Next]_vars, NoErrorRun' PROVE BreakInv'
  BY DEF BreakInv
<1>0. /\ task \in Task /\ Len(frames) \in Nat /\ DOMAIN frames = 1..Len(frames)
      /\ \A g \in DOMAIN gaps : gaps[g] \in Gap /\ Len(gaps) \in Nat
  BY Tables DEF IInv, TypeOK
<1>1. NoErrorRun /\ IInv'
  BY RunsKept, StepInvariant
<1>2. Len(frames') \in Nat /\ DOMAIN frames' = 1..Len(frames')
  BY <1>1, LenProperties DEF IInv, TypeOK
<1>3. BreaksAreRecorded'
  <2> SUFFICES ASSUME NEW f \in DOMAIN frames', f > 1, frames'[f].conn # frames'[f - 1].conn
               PROVE  Covered(f - 1)'
    BY DEF BreaksAreRecorded, Covered, FrameIds
  <2>1. f - 1 \in Nat /\ f \in Nat
    BY <1>2
  <2>2. CASE f \in DOMAIN frames
    <3>1. f - 1 \in DOMAIN frames /\ f - 1 <= Len(frames)
      BY <1>0, <2>1, <2>2
    <3>2. frames[f].conn # frames[f - 1].conn
      BY <2>2, <3>1, FramesKept
    <3>3. Covered(f - 1)
      BY <1>1, <2>2, <3>2 DEF BreakInv, BreaksAreRecorded, Covered, FrameIds
    <3> QED
      BY <2>1, <3>1, <3>3, CoveredKept
  <2>3. CASE f \notin DOMAIN frames
    <3>0. PersistRawFrame
      BY <1>0, <1>2, <2>3, FramesKept
    <3>a. Len(frames') = Len(frames) + 1
      BY <3>0, FramesKept
    <3>b. f = Len(frames) + 1
      BY <1>0, <1>2, <2>3, <3>a
    <3>1. PersistRawFrame /\ f = Len(frames) + 1 /\ frames'[f].conn = task.conn
      BY <3>0, <3>b, FramesKept
    <3>2. Len(frames) \in DOMAIN frames /\ f - 1 = Len(frames)
      BY <1>0, <2>1, <3>1
    <3>3. frames[Len(frames)].conn # task.conn
      BY <3>1, <3>2, FramesKept
    <3>4. Broken
      BY <3>1, <3>2, <3>3 DEF Broken, PersistRawFrame, Working, ControlPoint
    <3>5. Covered(Len(frames))
      BY <1>1, <3>4 DEF BreakInv
    <3>6. Len(frames) <= Len(frames)
      BY <1>0
    <3> QED
      BY <1>0, <3>2, <3>5, <3>6, CoveredKept
  <2> QED
    BY <2>2, <2>3
<1>4. ASSUME task'.pc \in {"none", "spawned"}, lifecycle' = "active"
      PROVE  frames' = <<>> \/ OpenRuns' # {} \/ OpenGaps' # {}
  <2>1. CASE FinishRun
    <3>1. task.pc = "finish" /\ UNCHANGED <<lifecycle, gaps>> /\ task.run \in OpenRuns
      BY <2>1 DEF FinishRun, IInv, RunInv, Working, ControlPoint
    <3>2. task.reason \in {"supervisor_cancelled", "error"}
      BY <1>0, <1>4, <3>1 DEF HoldInv, IInv, RunInv, Task, StopReason
    <3>3. task.reason # "error"
      <4>1. ASSUME task.reason = "error" PROVE FALSE
        <5>1. task.run \in DOMAIN runs /\ runs[task.run].stop = "open" /\ runs[task.run] \in Run
          BY <3>1, Tables DEF OpenRuns, IInv
        <5>2. task.run \in DOMAIN runs' /\ runs'[task.run].stop = "error"
          BY <2>1, <4>1, <5>1 DEF FinishRun, Run
        <5> QED
          BY <5>2 DEF NoErrorRun
      <4> QED
        BY <4>1
    <3>4. OpenGaps # {}
      BY <1>4, <3>1, <3>2, <3>3 DEF HoldInv
    <3> QED
      BY <3>1, <3>4 DEF OpenGaps
  <2>2. CASE ~FinishRun
    <3>1. UNCHANGED store /\ (lifecycle' = lifecycle \/ lifecycle' = "closed")
      <4>1. CASE StartRun \/ ReplayNext \/ ReplayDone \/ Connect \/ CheckActive \/ StopNoticed \/ OpenConnection
                 \/ CloseGap \/ PersistRawFrame \/ DecodeFrame \/ ProcessFrame \/ ProcessMetrics \/ MarkProcessed
                 \/ CloseConnection \/ AfterDisconnect \/ RecordGap \/ BackoffElapsed \/ HandleCancel
        BY <1>4, <4>1, StaysWorking DEF IInv, TypeOK, Working
      <4>2. CASE StartRunRefused \/ Spawn \/ SupervisorIdle \/ OperatorStop \/ Crash \/ StartProcess
                 \/ GracefulStop \/ Fault \/ SourceDrop \/ \E k \in Kinds : ReceiveFrame(k)
        BY <4>2 DEF StartRunRefused, Spawn, SupervisorIdle, OperatorStop, Crash, StartProcess, GracefulStop,
           Fault, StartRunFault, FrameFault, RunFault, HandlerFault, SourceDrop, ReceiveFrame, store, vars
      <4>3. CASE UNCHANGED vars
        BY <4>3 DEF vars, store
      <4> QED
        BY <2>2, <4>1, <4>2, <4>3 DEF Next, TaskStep
    <3>2. CASE task.pc \in {"none", "spawned"}
      BY <1>1, <1>4, <3>1, <3>2 DEF BreakInv, OpenRuns, OpenGaps, store
    <3>3. CASE task.pc \in Working
      BY <3>1, <3>3 DEF IInv, RunInv, OpenRuns, store
    <3> QED
      BY <1>0, <3>2, <3>3 DEF Task, Working
  <2> QED
    BY <2>1, <2>2
<1>5. ASSUME Broken'
      PROVE  Covered(Len(frames))'
  <2>0. Len(frames) <= Len(frames)
    BY <1>0
  <2>1. CASE PersistRawFrame
    <3>1. /\ Len(frames') = Len(frames) + 1 /\ frames'[Len(frames')].conn = task.conn
      BY <2>1, FramesKept
    <3>2. task'.pc = "decode" /\ task'.conn = task.conn
      BY <1>0, <2>1 DEF PersistRawFrame, Task
    <3> QED
      BY <1>5, <3>1, <3>2 DEF Broken
  <2>2. Len(frames') = Len(frames) \/ PersistRawFrame
    BY FramesKept
  <2>3. CASE StartRun
    <3>1. /\ task.pc = "spawned" /\ lifecycle = "active" /\ frames' = frames
          /\ \/ OpenGaps # {} /\ gaps' = gaps
             \/ OpenGaps = {} /\ OpenRuns = {}
             \/ \E b \in OrphanBreak : gaps' = Append(gaps, [from |-> b, open |-> TRUE, to |-> 0])
      BY <2>3 DEF StartRun
    <3>2. CASE OpenGaps # {} /\ gaps' = gaps
      <4>1. PICK g \in DOMAIN gaps : gaps[g].open
        BY <3>2 DEF OpenGaps
      <4>2. gaps[g].from <= Len(frames)
        BY DEF PlaceInv
      <4> QED
        BY <3>1, <3>2, <4>1, <4>2 DEF Covered
    <3>3. CASE \E b \in OrphanBreak : gaps' = Append(gaps, [from |-> b, open |-> TRUE, to |-> 0])
      <4>1. PICK b \in OrphanBreak : gaps' = Append(gaps, [from |-> b, open |-> TRUE, to |-> 0])
        BY <3>3
      <4>2. b \in Nat /\ b <= Len(frames)
        BY OrphanBreakPlaced
      <4>3. /\ Len(gaps) + 1 \in DOMAIN gaps' /\ gaps'[Len(gaps) + 1].from = b
            /\ gaps'[Len(gaps) + 1].open
        BY <4>1, <4>2, GapAdded
      <4> QED
        BY <3>1, <4>2, <4>3 DEF Covered
    <3>4. CASE OpenGaps = {} /\ OpenRuns = {}
      BY <1>1, <1>5, <3>1, <3>4 DEF BreakInv, Broken
    <3> QED
      BY <3>1, <3>2, <3>3, <3>4
  <2>4. CASE RecordGap
    <3>1. frames' = frames /\ gaps' = Append(gaps, [from |-> Len(frames), open |-> TRUE, to |-> 0])
      BY <2>4 DEF RecordGap
    <3>2. /\ Len(gaps) + 1 \in DOMAIN gaps' /\ gaps'[Len(gaps) + 1].from = Len(frames)
          /\ gaps'[Len(gaps) + 1].open
      BY <1>0, <3>1, GapAdded
    <3> QED
      BY <2>0, <3>1, <3>2 DEF Covered
  <2>5. CASE ~PersistRawFrame /\ ~StartRun /\ ~RecordGap
    <3>1. Covered(Len(frames))
      BY <1>1, <1>5, <2>5, BrokenSteps DEF BreakInv
    <3>2. \E n \in Nat : n = Len(frames)
      BY <1>0
    <3>3. PICK n \in Nat : n = Len(frames)
      BY <3>2
    <3>4. Covered(n) /\ n <= Len(frames) /\ n = Len(frames')
      BY <1>0, <2>0, <2>2, <2>5, <3>1, <3>3
    <3>5. Covered(n)'
      BY <3>4, CoveredKept
    <3> QED
      BY <3>4, <3>5 DEF Covered
  <2> QED
    BY <2>1, <2>3, <2>4, <2>5
<1> QED
  BY <1>3, <1>4, <1>5 DEF BreakInv

LEMMA InitBreak == Init => PlaceInv /\ HoldInv /\ BreakInv
BY DEF Init, PlaceInv, HoldInv, BreakInv, NoTask, BreaksAreRecorded, FrameIds, Broken, Working

LEMMA BreakInvariance == Spec => [](PlaceInv /\ HoldInv /\ BreakInv)
BY Invariance, InitBreak, PlaceStep, HoldStep, BreakStep, PTL DEF Spec

\* A break of the feed without a gap row is only left behind by a run whose stop
\* reason is "error": run_session's outer handler finishes the run and writes no
\* gap.  Until then restarts, lost sockets and cancellations all leave one.
THEOREM BreaksRecordedOrError == Spec => [](NoErrorRun => BreaksAreRecorded)
<1>1. BreakInv => (NoErrorRun => BreaksAreRecorded)
  BY DEF BreakInv
<1> QED
  BY <1>1, BreakInvariance, PTL

\* The stop reason "error" is only ever chosen by a transaction that raised.
Blameless == used.faults = 0 => NoErrorRun /\ task.reason # "error"

LEMMA BlamelessStep ==
    ASSUME IInv, Blameless, [Next]_vars, used.faults = 0, used'.faults = 0
    PROVE  NoErrorRun' /\ task'.reason # "error"
<1>0. /\ task \in Task /\ used \in Counters /\ runs \in Seq(Run)
      /\ NoErrorRun /\ task.reason # "error"
      /\ \A r \in DOMAIN runs : runs[r] \in Run
  BY Tables DEF IInv, TypeOK, Blameless
<1>1. ~Fault
  BY <1>0 DEF Fault, StartRunFault, FrameFault, RunFault, HandlerFault, SpendFault, Counters
<1>2. task'.reason # "error"
  <2>1. CASE task'.reason = task.reason
    BY <1>0, <2>1
  <2>2. CASE task' = NoTask
    BY <2>2 DEF NoTask
  <2>3. CASE Connect \/ AfterDisconnect
    BY <1>0, <2>3 DEF Connect, AfterDisconnect, Goto, Task
  <2>4. CASE GracefulStop
    <3>1. task' = NoTask \/ \E p \in ControlPoint : task' = [task EXCEPT !.pc = p, !.reason = "supervisor_cancelled"]
      BY <2>4 DEF GracefulStop, ControlPoint
    <3>2. task' = NoTask \/ task'.reason = "supervisor_cancelled"
      BY <1>0, <3>1 DEF Task
    <3> QED
      BY <2>2, <3>2
  <2>5. CASE StartRun
    <3>1. PICK gap \in {0, Len(gaps) + 1} \cup OpenGaps :
            task' = [task EXCEPT !.pc = "replay", !.run = Len(runs) + 1, !.gap = gap, !.replay = PendingDecoded]
      BY <2>5 DEF StartRun
    <3>2. task'.reason = task.reason
      BY <1>0, <3>1 DEF Task
    <3> QED
      BY <2>1, <3>2
  <2>6. CASE ReplayNext \/ ReplayDone \/ CheckActive \/ StopNoticed \/ OpenConnection \/ CloseGap
             \/ PersistRawFrame \/ DecodeFrame \/ ProcessFrame \/ ProcessMetrics \/ MarkProcessed
    BY <1>0, <2>1, <2>6 DEF ReplayNext, ReplayDone, CheckActive, StopNoticed, OpenConnection, CloseGap,
       PersistRawFrame, DecodeFrame, ProcessFrame, ProcessMetrics, MarkProcessed, Goto, Task
  <2>7. CASE CloseConnection \/ RecordGap \/ BackoffElapsed \/ HandleCancel \/ Spawn \/ SourceDrop
             \/ \E k \in Kinds : ReceiveFrame(k)
    BY <1>0, <2>1, <2>7 DEF CloseConnection, RecordGap, BackoffElapsed, HandleCancel, Spawn, SourceDrop,
       ReceiveFrame, Goto, Task
  <2>8. CASE StartRunRefused \/ FinishRun \/ Crash
    BY <2>2, <2>8 DEF StartRunRefused, FinishRun, Crash, EndTask
  <2>9. CASE SupervisorIdle \/ OperatorStop \/ StartProcess \/ UNCHANGED vars
    BY <2>1, <2>9 DEF SupervisorIdle, OperatorStop, StartProcess, vars
  <2> QED
    BY <1>1, <2>3, <2>4, <2>5, <2>6, <2>7, <2>8, <2>9 DEF Next, TaskStep
<1>3. NoErrorRun'
  <2>1. CASE StartRun
    <3> DEFINE row == [stop |-> "open", at |-> Len(frames)]
    <3>1. row \in Run /\ row.stop # "error"
      BY Tables DEF Run, StopReason, IInv
    <3>2. /\ runs' = Append(RecoveredRuns, row)
          /\ RecoveredRuns \in Seq(Run)
      <4>1. RecoveredRuns \in Seq(Run)
        BY SMTT(60), <1>0, LenProperties DEF RecoveredRuns, Run, StopReason
      <4> QED
        BY <2>1, <4>1 DEF StartRun
    <3>3. \A r \in DOMAIN RecoveredRuns : RecoveredRuns[r].stop # "error"
      BY <1>0 DEF RecoveredRuns, NoErrorRun, Run
    <3> HIDE DEF row
    <3>4. \A r \in DOMAIN runs' : (r \in DOMAIN RecoveredRuns /\ runs'[r] = RecoveredRuns[r]) \/ runs'[r] = row
      BY <3>1, <3>2, AppendProperties
    <3> QED
      BY <3>1, <3>3, <3>4 DEF NoErrorRun
  <2>2. CASE FinishRun
    <3>1. \A r \in DOMAIN runs' : r \in DOMAIN runs /\ runs'[r].stop \in {runs[r].stop, task.reason}
      BY <1>0, <2>2 DEF FinishRun, Run
    <3> QED
      BY <1>0, <3>1 DEF NoErrorRun
  <2>3. CASE UNCHANGED runs
    BY <1>0, <2>3 DEF NoErrorRun
  <2> QED
    BY <1>1, <2>1, <2>2, <2>3
    DEF Next, TaskStep, vars, store, SupervisorIdle, Connect, CheckActive, StopNoticed, OpenConnection,
        CloseGap, CloseConnection, AfterDisconnect, RecordGap, BackoffElapsed, HandleCancel, ReceiveFrame,
        StartRunRefused, ReplayNext, ReplayDone, PersistRawFrame, DecodeFrame, ProcessFrame, ProcessMetrics,
        MarkProcessed, Spawn, OperatorStop, StartProcess, SourceDrop, Crash, GracefulStop
<1> QED
  BY <1>2, <1>3

\* Without raising transactions every break of the feed has its gap row, over
\* any number of crashes, cancellations and lost sockets.
THEOREM BreaksRecorded ==
    ASSUME MaxFaults = 0
    PROVE  Spec => []BreaksAreRecorded
<1>1. Init => Blameless
  BY DEF Init, Blameless, NoErrorRun, NoTask
<1>2. IInv /\ Blameless /\ used.faults = 0 /\ (used.faults = 0)' /\ [Next]_vars => Blameless'
  BY BlamelessStep DEF Blameless
<1>3. Blameless /\ used.faults = 0 /\ (NoErrorRun => BreaksAreRecorded) => BreaksAreRecorded
  BY DEF Blameless
<1> QED
  BY <1>1, <1>2, <1>3, Invariance, NoFaults, BreaksRecordedOrError, PTL DEF Spec

\* The same bound for the reducer memory: without raising transactions a restart
\* always rebuilds it.
THEOREM MemoryRebuilt ==
    ASSUME MaxFaults = 0
    PROVE  Spec => []MemoryIsReplay
BY NoFaults, RestartIsReplay, PTL

==============================================================================
