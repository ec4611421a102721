------------------------- MODULE MetricRunnerProofs -------------------------
(***************************************************************************)
(* The metrics of a heat for every number of frames, laps, changes and     *)
(* failures, every tail of laps and every interval of the charts.          *)
(***************************************************************************)
EXTENDS MetricRunner, FiniteSetTheorems, SequenceTheorems, TLAPS

\* The task, the frames it may take, and the frames themselves.
TaskInv ==
    /\ frames \in Seq(Nat)
    /\ task \in [pc : {"idle", "metrics", "mark", "down"}, frame : 0..Now, live : BOOLEAN, replay : SUBSET (1..Now)]
    /\ task.pc \in {"metrics", "mark"} => task.frame # None
    /\ todo \subseteq 1..Now

\* The cursor: what the memory and the outbox say of it.
CursorInv ==
    /\ runner.frame \in 0..Now
    /\ mem \in {NoBoundary, runner.b}
    /\ \E R : outbox \in Seq(R)
    /\ \A i \in DOMAIN outbox : outbox[i].frame \in 1..runner.frame
    /\ IF runner.frame = None THEN runner.b = NoBoundary /\ outbox = <<>> ELSE outbox # <<>>
    /\ EventsTellChanges

\* The keyframes are of frames the cursor has passed, and mark the events.
KeyframeInv ==
    /\ \A r \in playback : r.sec = SecondOf(r.frame) /\ r.frame \in 0..runner.frame
    /\ OneRowPerSecond(playback)
    /\ AnchorsKept

\* The seconds of the session and its charts.
SecondInv ==
    /\ ticks = [t \in DOMAIN ticks |-> ticks[t]]
    /\ runner.frame # None /\ SecondOf(runner.frame) \in DOMAIN ticks => ticks[SecondOf(runner.frame)] >= runner.frame
    /\ \A t \in DOMAIN ticks : ticks[t] \in 0..Now /\ (ticks[t] # None => SecondOf(ticks[t]) = t)
    /\ OneRowPerSecond(samples["session"]) /\ OneRowPerSecond(samples["car"])

\* The current row of a car the cursor has seen keeps up with the cursor.
CurrentInv ==
    /\ current.frame \in 0..Now
    /\ runner.frame # None /\ Seen(runner.b) => runner.frame <= current.frame

IInv == TaskInv /\ CursorInv /\ KeyframeInv /\ SecondInv /\ CurrentInv

-----------------------------------------------------------------------------
(* Rows.                                                                   *)

\* The greater of two frames is one of them.
LEMMA GreaterOfTwo ==
    ASSUME NEW a \in Nat, NEW b \in Nat
    PROVE  Max({a, b}) \in {a, b} /\ Max({a, b}) >= a /\ Max({a, b}) >= b
<1>1. \E x \in {a, b} : \A y \in {a, b} : x >= y
  OBVIOUS
<1>2. Max({a, b}) \in {a, b} /\ \A y \in {a, b} : Max({a, b}) >= y
  BY <1>1 DEF Max
<1> QED
  BY <1>2

\* Appending to a sequence of whatever rows.
LEMMA AppendAny ==
    ASSUME NEW s, NEW e, \E R : s \in Seq(R)
    PROVE  /\ \E R : Append(s, e) \in Seq(R)
           /\ Len(s) \in Nat /\ Len(Append(s, e)) = Len(s) + 1
           /\ DOMAIN s = 1..Len(s) /\ DOMAIN Append(s, e) = 1..(Len(s) + 1)
           /\ Append(s, e)[Len(s) + 1] = e
           /\ \A i \in DOMAIN s : Append(s, e)[i] = s[i]
<1>1. PICK R : s \in Seq(R)
  OBVIOUS
<1> DEFINE T == R \cup {e}
<1>2. s \in Seq(T) /\ e \in T
  BY <1>1
<1> HIDE DEF T
<1>3. Append(s, e) \in Seq(T)
  BY <1>2
<1> QED
  BY <1>2, <1>3, AppendProperties, LenProperties

\* A chart keeps one point per second.
LEMMA SampledOneRow ==
    ASSUME NEW rows, OneRowPerSecond(rows), NEW f, NEW val, NEW event
    PROVE  OneRowPerSecond(Sampled(rows, f, val, event))
<1> DEFINE new == [sec |-> SecondOf(f), frame |-> f, val |-> val]
           kept == rows \ RowAt(rows, SecondOf(f))
<1>1. Sampled(rows, f, val, event) = rows \/ Sampled(rows, f, val, event) = kept \cup {new}
  BY DEF Sampled
<1>2. new.sec = SecondOf(f)
  OBVIOUS
<1>3. \A r \in kept : r \in rows /\ r.sec # SecondOf(f)
  BY DEF RowAt
<1> HIDE DEF new, kept
<1> QED
  BY <1>1, <1>2, <1>3 DEF OneRowPerSecond

\* The keyframe of frame f keeps the mark of the one it replaces.
Keyframe(rows, f, event) ==
    [sec |-> SecondOf(f), frame |-> f, event |-> event \/ \E r \in RowAt(rows, SecondOf(f)) : r.event]

\* What a keyframe does to the archive: nothing, or it takes the place of the
\* keyframe of its second.
LEMMA SnapshottedRows ==
    ASSUME NEW rows, NEW f, NEW event
    PROVE  \/ /\ Snapshotted(rows, f, event) = rows
              /\ event => \E r \in RowAt(rows, SecondOf(f)) : f <= r.frame
           \/ Snapshotted(rows, f, event) = (rows \ RowAt(rows, SecondOf(f))) \cup {Keyframe(rows, f, event)}
BY DEF Snapshotted, Keyframe

-----------------------------------------------------------------------------
(* process_frame.                                                          *)

\* The boundary state that the events are measured from is the stored one.
LEMMA PreviousIsStored ==
    ASSUME CursorInv
    PROVE  Previous = runner.b
BY DEF CursorInv, Previous

\* What the transaction of one frame writes.
LEMMA MetricsWrites ==
    ASSUME IInv, Metrics
    PROVE  /\ task.frame \in 1..Now /\ Now' = Now /\ frames' = frames /\ todo' = todo
           /\ task' = [task EXCEPT !.pc = "mark"] /\ task.pc = "metrics"
           /\ \E val : current' = Refreshed(task.frame, Boundary, val)
           /\ ticks' = [ticks EXCEPT ![SecondOf(task.frame)] = Max({@, task.frame})]
           /\ \E val, event : samples'["session"] = Sampled(samples["session"], task.frame, val, event)
           /\ \/ samples'["car"] = samples["car"]
              \/ \E val, event : samples'["car"] = Sampled(samples["car"], task.frame, val, event)
<1>1. ProcessFrame(task.frame) /\ UNCHANGED <<env, todo>>
  BY DEF Metrics
<1>2. /\ Now' = Now /\ frames' = frames /\ todo' = todo
      /\ task' = [task EXCEPT !.pc = "mark"] /\ task.pc = "metrics"
  BY <1>1 DEF Metrics, env, Now
<1>3. task.frame \in 1..Now
  BY <1>2, LenProperties DEF IInv, TaskInv, None, Now
<1>4. \E val : current' = Refreshed(task.frame, Boundary, val)
  BY <1>1 DEF ProcessFrame
<1>5. ticks' = [ticks EXCEPT ![SecondOf(task.frame)] = Max({@, task.frame})]
  BY <1>1 DEF ProcessFrame
<1>6. \E val1, event1, val2, event2 :
        samples' = [session |-> Sampled(samples["session"], task.frame, val1, event1),
                    car |-> IF Seen(Boundary) THEN Sampled(samples["car"], task.frame, val2, event2)
                            ELSE samples["car"]]
  BY <1>1 DEF ProcessFrame
<1>7. PICK val1, event1, val2, event2 :
        samples' = [session |-> Sampled(samples["session"], task.frame, val1, event1),
                    car |-> IF Seen(Boundary) THEN Sampled(samples["car"], task.frame, val2, event2)
                            ELSE samples["car"]]
  BY <1>6
<1>8. /\ samples'["session"] = Sampled(samples["session"], task.frame, val1, event1)
      /\ \/ samples'["car"] = samples["car"]
         \/ samples'["car"] = Sampled(samples["car"], task.frame, val2, event2)
  BY <1>7
<1> QED
  BY <1>2, <1>3, <1>4, <1>5, <1>8

\* A frame the cursor has not reached moves it, and adds its row to the outbox.
LEMMA MetricsMoves ==
    ASSUME IInv, Metrics, task.frame > runner.frame
    PROVE  /\ runner'.frame = task.frame /\ runner'.b = Boundary /\ mem' = Boundary
           /\ \E row : /\ row.frame = task.frame /\ row.b = Boundary
                       /\ row.keys = EventKeys(runner.b, Boundary)
                       /\ outbox' = Append(outbox, row)
                       /\ playback' = Snapshotted(playback, task.frame, row.keys \cap PlaybackKeys # {})
<1> DEFINE row == [frame |-> task.frame, keys |-> EventKeys(runner.b, Boundary), b |-> Boundary]
<1>0. Previous = runner.b
  BY PreviousIsStored DEF IInv
<1>1. /\ runner' = [frame |-> task.frame, b |-> Boundary] /\ mem' = Boundary
      /\ outbox' = Append(outbox, row)
      /\ playback' = Snapshotted(playback, task.frame, EventKeys(runner.b, Boundary) \cap PlaybackKeys # {})
  BY <1>0 DEF Metrics, ProcessFrame, Newer
<1>2. row.frame = task.frame /\ row.b = Boundary /\ row.keys = EventKeys(runner.b, Boundary)
  OBVIOUS
<1>3. runner'.frame = task.frame /\ runner'.b = Boundary
  BY <1>1
<1> HIDE DEF row
<1> QED
  BY <1>1, <1>2, <1>3

\* A frame the cursor has reached or passed leaves it.
LEMMA MetricsStays ==
    ASSUME IInv, Metrics, ~(task.frame > runner.frame)
    PROVE  mem' = runner.b /\ UNCHANGED <<runner, outbox, playback>>
<1>0. Previous = runner.b
  BY PreviousIsStored DEF IInv
<1> QED
  BY <1>0 DEF Metrics, ProcessFrame, Newer

LEMMA MetricsSecond ==
    ASSUME IInv, Metrics
    PROVE  SecondInv'
<1> DEFINE f == task.frame
<1>0. /\ f \in 1..Now /\ Now' = Now /\ Now \in Nat /\ runner.frame \in 0..Now
      /\ ticks' = [ticks EXCEPT ![SecondOf(f)] = Max({ticks[SecondOf(f)], f})]
      /\ \E val, event : samples'["session"] = Sampled(samples["session"], f, val, event)
      /\ \/ samples'["car"] = samples["car"]
         \/ \E val, event : samples'["car"] = Sampled(samples["car"], f, val, event)
  BY MetricsWrites, LenProperties DEF IInv, TaskInv, CursorInv, Now
<1> HIDE DEF f
<1>1. OneRowPerSecond(samples'["session"]) /\ OneRowPerSecond(samples'["car"])
  BY <1>0, SampledOneRow DEF IInv, SecondInv
<1>2. ASSUME NEW t \in DOMAIN ticks'
      PROVE  ticks'[t] \in 0..Now /\ (ticks'[t] # None => SecondOf(ticks'[t]) = t)
  <2>1. t \in DOMAIN ticks
    BY <1>0
  <2>2. ticks[t] \in 0..Now /\ (ticks[t] # None => SecondOf(ticks[t]) = t)
    BY <2>1 DEF IInv, SecondInv
  <2>3. CASE t # SecondOf(f)
    BY <1>0, <2>1, <2>2, <2>3
  <2>4. CASE t = SecondOf(f)
    <3>1. ticks'[t] = Max({ticks[t], f})
      BY <1>0, <2>1, <2>4
    <3>2. ticks'[t] \in {ticks[t], f}
      BY <1>0, <2>2, <3>1, GreaterOfTwo
    <3> QED
      BY <1>0, <2>2, <2>4, <3>2
  <2> QED
    BY <2>3, <2>4
<1>3. ticks' = [t \in DOMAIN ticks' |-> ticks'[t]]
  BY <1>0 DEF IInv, SecondInv
<1>4. ASSUME runner'.frame # None, SecondOf(runner'.frame) \in DOMAIN ticks'
      PROVE  ticks'[SecondOf(runner'.frame)] >= runner'.frame
  <2> DEFINE s == SecondOf(runner'.frame)
  <2>1. s \in DOMAIN ticks /\ ticks[s] \in Nat
    BY <1>0, <1>4 DEF IInv, SecondInv
  <2>2. CASE f > runner.frame
    <3>1. runner'.frame = f
      BY <2>2, MetricsMoves DEF f
    <3>2. ticks'[s] = Max({ticks[s], f})
      BY <1>0, <2>1, <3>1
    <3> QED
      BY <1>0, <2>1, <3>1, <3>2, GreaterOfTwo
  <2>3. CASE ~(f > runner.frame)
    <3>1. runner' = runner
      BY <2>3, MetricsStays DEF f
    <3>2. ticks[s] >= runner.frame
      BY <1>4, <2>1, <3>1 DEF IInv, SecondInv
    <3>3. ticks'[s] = ticks[s] \/ ticks'[s] = Max({ticks[s], f})
      BY <1>0, <2>1
    <3>4. f \in Nat /\ runner.frame \in Nat
      BY <1>0
    <3>5. Max({ticks[s], f}) \in Nat /\ Max({ticks[s], f}) >= ticks[s]
      BY <2>1, <3>4, GreaterOfTwo
    <3> HIDE DEF s
    <3> QED
      BY <2>1, <3>1, <3>2, <3>3, <3>4, <3>5 DEF s
  <2> QED
    BY <2>2, <2>3
<1> QED
  BY <1>0, <1>1, <1>2, <1>3, <1>4 DEF SecondInv, SecondOf, OneRowPerSecond

LEMMA MetricsCurrent ==
    ASSUME IInv, Metrics
    PROVE  CurrentInv'
<1> DEFINE f == task.frame
<1>0. f \in 1..Now /\ Now' = Now /\ Now \in Nat /\ runner.frame \in 0..Now /\ current.frame \in 0..Now
  BY MetricsWrites, LenProperties DEF IInv, TaskInv, CursorInv, CurrentInv, Now
<1>1. PICK val : current' = Refreshed(f, Boundary, val)
  BY MetricsWrites
<1> HIDE DEF f
<1>2. /\ Seen(Boundary) /\ f > current.frame => current'.frame = f
      /\ ~(Seen(Boundary) /\ f > current.frame) => current'.frame = current.frame
  BY <1>1 DEF Refreshed, Newer
<1>3. current'.frame \in 0..Now
  BY <1>0, <1>2
<1>4. ASSUME runner'.frame # None, Seen(runner'.b)
      PROVE  runner'.frame <= current'.frame
  <2>1. CASE f > runner.frame
    <3>1. runner'.frame = f /\ runner'.b = Boundary
      BY <2>1, MetricsMoves DEF f
    <3> QED
      BY <1>0, <1>2, <1>4, <3>1
  <2>2. CASE ~(f > runner.frame)
    <3>1. runner' = runner
      BY <2>2, MetricsStays DEF f
    <3> QED
      BY <1>0, <1>2, <1>4, <3>1 DEF IInv, CurrentInv
  <2> QED
    BY <2>1, <2>2
<1> QED
  BY <1>0, <1>3, <1>4 DEF CurrentInv, Seen

LEMMA MetricsCursor ==
    ASSUME IInv, Metrics
    PROVE  CursorInv'
<1> DEFINE f == task.frame
<1>0. f \in 1..Now /\ Now' = Now /\ Now \in Nat /\ runner.frame \in 0..Now
  BY MetricsWrites, LenProperties DEF IInv, TaskInv, CursorInv, Now
<1>1. CASE ~(f > runner.frame)
  BY <1>0, <1>1, MetricsStays DEF IInv, CursorInv, EventsTellChanges, Last
<1>2. CASE f > runner.frame
  <2>1. PICK row : /\ row.frame = f /\ row.b = Boundary /\ row.keys = EventKeys(runner.b, Boundary)
                   /\ outbox' = Append(outbox, row)
    BY <1>2, MetricsMoves
  <2>2. runner'.frame = f /\ runner'.b = Boundary /\ mem' = Boundary
    BY <1>2, MetricsMoves
  <2> DEFINE n == Len(outbox)
  <2>3. /\ \E R : outbox' \in Seq(R)
        /\ n \in Nat /\ Len(outbox') = n + 1 /\ DOMAIN outbox = 1..n /\ DOMAIN outbox' = 1..(n + 1)
        /\ outbox'[n + 1] = row /\ \A i \in DOMAIN outbox : outbox'[i] = outbox[i]
    <3>1. \E R : outbox \in Seq(R)
      BY DEF IInv, CursorInv
    <3>2. \E R : Append(outbox, row) \in Seq(R)
      BY <3>1, AppendAny, Zenon
    <3>3. \E R : outbox' \in Seq(R)
      BY <2>1, <3>2
    <3> QED
      BY <2>1, <3>1, <3>3, AppendAny
  <2>4. /\ n # 0 => /\ runner.frame # None /\ outbox[n].b = runner.b /\ outbox[n].frame = runner.frame
        /\ n = 0 => runner.b = NoBoundary
    BY <2>3 DEF IInv, CursorInv, EventsTellChanges, Last
  <2>5. \A i \in DOMAIN outbox' : outbox'[i].frame \in 1..f
    <3> SUFFICES ASSUME NEW i \in DOMAIN outbox' PROVE outbox'[i].frame \in 1..f
      OBVIOUS
    <3>1. CASE i \in DOMAIN outbox
      BY <1>0, <1>2, <2>3, <3>1 DEF IInv, CursorInv
    <3>2. CASE i = n + 1
      BY <1>0, <2>1, <2>3, <3>2
    <3> QED
      BY <2>3, <3>1, <3>2
  <2>6. ASSUME NEW i \in DOMAIN outbox'
        PROVE  /\ outbox'[i].keys = EventKeys(IF i = 1 THEN NoBoundary ELSE outbox'[i - 1].b, outbox'[i].b)
               /\ i > 1 => outbox'[i - 1].frame < outbox'[i].frame
    <3>1. CASE i \in DOMAIN outbox
      <4>1. /\ outbox[i].keys = EventKeys(IF i = 1 THEN NoBoundary ELSE outbox[i - 1].b, outbox[i].b)
            /\ i > 1 => outbox[i - 1].frame < outbox[i].frame
        BY <3>1 DEF IInv, CursorInv, EventsTellChanges
      <4>2. i # 1 => i - 1 \in DOMAIN outbox /\ i > 1
        BY <2>3, <3>1
      <4> QED
        BY <2>3, <3>1, <4>1, <4>2
    <3>2. CASE i = n + 1
      <4>1. outbox'[i] = row
        BY <2>3, <3>2
      <4>2. CASE n = 0
        BY <2>1, <2>4, <3>2, <4>1, <4>2
      <4>3. CASE n # 0
        <5>1. i # 1 /\ i - 1 = n /\ n \in DOMAIN outbox
          BY <2>3, <3>2, <4>3
        <5>2. outbox'[i - 1] = outbox[n]
          BY <2>3, <5>1
        <5> QED
          BY <1>2, <2>1, <2>4, <4>1, <4>3, <5>1, <5>2
      <4> QED
        BY <4>2, <4>3
    <3> QED
      BY <2>3, <3>1, <3>2
  <2>7. outbox' # <<>> /\ outbox'[Len(outbox')] = row
    BY <2>3
  <2>8. EventsTellChanges'
    BY <2>1, <2>2, <2>6, <2>7 DEF EventsTellChanges, Last, EventKeys, NoBoundary, Seen, Car
  <2> QED
    BY <1>0, <2>2, <2>3, <2>5, <2>7, <2>8 DEF CursorInv, None
<1> QED
  BY <1>1, <1>2

LEMMA MetricsKeyframe ==
    ASSUME IInv, Metrics
    PROVE  KeyframeInv'
<1> DEFINE f == task.frame
<1>0. f \in 1..Now /\ Now \in Nat /\ runner.frame \in 0..Now
  BY MetricsWrites, LenProperties DEF IInv, TaskInv, CursorInv, Now
<1>1. CASE ~(f > runner.frame)
  BY <1>1, MetricsStays DEF IInv, KeyframeInv, OneRowPerSecond, AnchorsKept, SecondOf
<1>2. CASE f > runner.frame
  <2>1. PICK row : /\ row.frame = f /\ outbox' = Append(outbox, row)
                   /\ playback' = Snapshotted(playback, f, row.keys \cap PlaybackKeys # {})
    BY <1>2, MetricsMoves
  <2>2. runner'.frame = f
    BY <1>2, MetricsMoves
  <2> DEFINE n == Len(outbox)
             exact == RowAt(playback, SecondOf(f))
             event == row.keys \cap PlaybackKeys # {}
  <2>3. /\ n \in Nat /\ DOMAIN outbox = 1..n /\ DOMAIN outbox' = 1..(n + 1)
        /\ outbox'[n + 1] = row /\ \A i \in DOMAIN outbox : outbox'[i] = outbox[i]
    BY <2>1, AppendAny DEF IInv, CursorInv
  <2>4. \A r \in playback : r.sec = SecondOf(r.frame) /\ r.frame \in 0..runner.frame /\ r.frame < f
    BY <1>0, <1>2 DEF IInv, KeyframeInv
  <2>5. \A r \in exact : r \in playback /\ r.sec = SecondOf(f)
    BY DEF RowAt
  <2>6. \A r \in playback \ exact : r \in playback /\ r.sec # SecondOf(f)
    BY DEF RowAt
  <2>7. \A i \in DOMAIN outbox : outbox[i].frame \in 1..runner.frame
    BY DEF IInv, CursorInv
  <2>8. ASSUME NEW i \in DOMAIN outbox, outbox[i].keys \cap PlaybackKeys # {}
        PROVE  \E r \in playback : r.sec = SecondOf(outbox[i].frame) /\ r.event /\ r.frame >= outbox[i].frame
    BY <2>8 DEF IInv, KeyframeInv, AnchorsKept
  <2>9. \/ playback' = playback /\ ~event
        \/ \E new : /\ playback' = (playback \ exact) \cup {new}
                    /\ new.sec = SecondOf(f) /\ new.frame = f
                    /\ (new.event <=> event \/ \E r \in exact : r.event)
    <3>1. ~ \E r \in exact : f <= r.frame
      <4>1. \A r \in exact : r.frame \in Nat /\ r.frame < f
        BY <1>0, <2>4, <2>5
      <4> QED
        BY <1>0, <4>1
    <3>2. playback' = Snapshotted(playback, f, event)
      BY <2>1
    <3> HIDE DEF f, event
    <3>3. \/ playback' = playback /\ (event => \E r \in exact : f <= r.frame)
          \/ playback' = (playback \ exact) \cup {Keyframe(playback, f, event)}
      BY <3>2, SnapshottedRows
    <3>4. /\ Keyframe(playback, f, event).sec = SecondOf(f) /\ Keyframe(playback, f, event).frame = f
          /\ (Keyframe(playback, f, event).event <=> event \/ \E r \in exact : r.event)
      BY DEF Keyframe
    <3> QED
      BY <3>1, <3>3, <3>4, Zenon
  <2> HIDE DEF f, n, exact, event
  <2>10. CASE playback' = playback /\ ~event
    <3>1. \A r \in playback' : r.sec = SecondOf(r.frame) /\ r.frame \in 0..f
      BY <1>0, <1>2, <2>4, <2>10
    <3>2. ASSUME NEW i \in DOMAIN outbox', outbox'[i].keys \cap PlaybackKeys # {}
          PROVE  i \in DOMAIN outbox /\ outbox'[i] = outbox[i]
      BY <2>3, <2>10, <3>2 DEF event
    <3>3. AnchorsKept'
      BY <2>8, <2>10, <3>2 DEF AnchorsKept, SecondOf, PlaybackKeys
    <3> QED
      BY <2>2, <2>10, <3>1, <3>3 DEF KeyframeInv, OneRowPerSecond, IInv, SecondOf
  <2>11. ASSUME NEW new, playback' = (playback \ exact) \cup {new}, new.sec = SecondOf(f), new.frame = f,
                (new.event <=> event \/ \E r \in exact : r.event)
         PROVE  KeyframeInv'
    <3>1. \A r \in playback' : r.sec = SecondOf(r.frame) /\ r.frame \in 0..f
      BY <1>0, <1>2, <2>4, <2>11
    <3>2. OneRowPerSecond(playback)'
      BY <2>6, <2>11 DEF OneRowPerSecond, IInv, KeyframeInv
    <3>3. ASSUME NEW i \in DOMAIN outbox', outbox'[i].keys \cap PlaybackKeys # {}
          PROVE  \E r \in playback' : r.sec = SecondOf(outbox'[i].frame) /\ r.event /\ r.frame >= outbox'[i].frame
      <4>1. CASE i = n + 1
        <5>1. event /\ outbox'[i].frame = f
          BY <2>1, <2>3, <3>3, <4>1 DEF event, f
        <5> QED
          BY <1>0, <2>11, <5>1
      <4>2. CASE i \in DOMAIN outbox
        <5>1. outbox'[i] = outbox[i]
          BY <2>3, <4>2
        <5>2. PICK r \in playback : r.sec = SecondOf(outbox[i].frame) /\ r.event /\ r.frame >= outbox[i].frame
          BY <2>8, <3>3, <4>2, <5>1
        <5>3. CASE r \in exact
          <6>1. r.sec = SecondOf(f)
            BY <2>5, <5>3
          <6>2. outbox[i].frame \in Nat /\ f >= outbox[i].frame
            BY <1>0, <1>2, <2>7, <4>2
          <6>3. new.event /\ new.sec = SecondOf(outbox[i].frame)
            BY <2>11, <5>2, <5>3, <6>1
          <6> QED
            BY <2>11, <5>1, <6>2, <6>3
        <5>4. CASE r \notin exact
          BY <2>11, <5>1, <5>2, <5>4
        <5> QED
          BY <5>3, <5>4
      <4> QED
        BY <2>3, <4>1, <4>2
    <3>4. AnchorsKept'
      BY <3>3 DEF AnchorsKept, SecondOf, PlaybackKeys
    <3> QED
      BY <2>2, <3>1, <3>2, <3>4 DEF KeyframeInv, SecondOf
  <2> QED
    BY <2>9, <2>10, <2>11
<1> QED
  BY <1>1, <1>2

-----------------------------------------------------------------------------
(* The other steps of the run and of the provider.                         *)

\* As long as the tables stay, more frames disturb nothing that is said of them.
LEMMA TablesKept ==
    ASSUME IInv, UNCHANGED tables, mem' \in {mem, NoBoundary}, Now' \in Nat, Now' >= Now
    PROVE  CursorInv' /\ KeyframeInv' /\ SecondInv' /\ CurrentInv'
<1>0. /\ ticks' = ticks /\ runner' = runner /\ current' = current /\ samples' = samples
      /\ playback' = playback /\ outbox' = outbox /\ Now \in Nat
  BY LenProperties DEF tables, IInv, TaskInv, Now
<1>1. CursorInv'
  <2>1. runner.frame \in 0..Now'
    BY <1>0 DEF IInv, CursorInv
  <2>2. EventsTellChanges'
    BY ZenonT(60), <1>0 DEF IInv, CursorInv, EventsTellChanges, EventKeys, NoBoundary, Seen, Car, Last
  <2> QED
    BY <1>0, <2>1, <2>2 DEF IInv, CursorInv, NoBoundary
<1>2. KeyframeInv'
  BY <1>0 DEF IInv, KeyframeInv, OneRowPerSecond, AnchorsKept, SecondOf, PlaybackKeys
<1>3. SecondInv'
  BY <1>0 DEF IInv, SecondInv, OneRowPerSecond, SecondOf
<1>4. CurrentInv'
  BY <1>0 DEF IInv, CurrentInv, Seen
<1> QED
  BY <1>1, <1>2, <1>3, <1>4

LEMMA CommitInvariant ==
    ASSUME IInv, NEW n, NEW new, CommitFacts(n, new)
    PROVE  IInv'
<1> DEFINE f == Now + 1
<1>0. frames \in Seq(Nat) /\ Now \in Nat /\ f \in Nat
  BY LenProperties DEF IInv, TaskInv, Now
<1>1. /\ frames' = Append(frames, f) /\ todo' = todo \cup {f} /\ UNCHANGED <<mem, tables>>
      /\ task' = [task EXCEPT !.pc = "metrics", !.frame = f, !.live = TRUE]
  BY DEF CommitFacts
<1>2. frames' \in Seq(Nat) /\ Now' = Now + 1
  BY <1>0, <1>1, AppendProperties DEF Now
<1>3. /\ task.replay \in SUBSET (1..Now) /\ todo \subseteq 1..Now /\ 1..Now \subseteq 1..Now'
      /\ f \in 1..Now' /\ f \in 0..Now' /\ f # None
  BY <1>0, <1>2 DEF IInv, TaskInv, None
<1>4. task'.pc = "metrics" /\ task'.frame = f
  BY <1>1 DEF IInv, TaskInv
<1>5. task' \in [pc : {"idle", "metrics", "mark", "down"}, frame : 0..Now', live : BOOLEAN, replay : SUBSET (1..Now')]
  <2>1. task.replay \in SUBSET (1..Now')
    BY <1>3
  <2> HIDE DEF f
  <2> QED
    BY <1>1, <1>3, <2>1 DEF IInv, TaskInv
<1>6. TaskInv'
  BY <1>1, <1>2, <1>3, <1>4, <1>5 DEF TaskInv
<1> QED
  BY <1>0, <1>1, <1>2, <1>6, TablesKept DEF IInv

LEMMA MetricsInvariant ==
    ASSUME IInv, Metrics
    PROVE  IInv'
<1>1. /\ task.frame \in 1..Now /\ Now' = Now /\ frames' = frames /\ todo' = todo
      /\ task' = [task EXCEPT !.pc = "mark"]
  BY MetricsWrites
<1>2. TaskInv'
  BY <1>1 DEF IInv, TaskInv, None
<1> QED
  BY <1>2, MetricsCursor, MetricsKeyframe, MetricsSecond, MetricsCurrent DEF IInv

\* The steps that write no table and store no frame.
LEMMA QuietInvariant ==
    ASSUME IInv, UNCHANGED <<frames, tables>>, mem' \in {mem, NoBoundary}, todo' \subseteq todo,
           NEW p \in {"idle", "metrics", "down"}, NEW f \in {None} \cup task.replay, NEW l \in BOOLEAN,
           NEW r \in SUBSET (task.replay \cup todo), p = "metrics" => f \in task.replay,
           task' = [pc |-> p, frame |-> f, live |-> l, replay |-> r]
    PROVE  IInv'
<1>0. Now' = Now /\ Now \in Nat
  BY LenProperties DEF IInv, TaskInv, Now
<1>1. task.replay \subseteq 1..Now /\ todo \subseteq 1..Now
  BY DEF IInv, TaskInv
<1>2. f \in 0..Now /\ r \in SUBSET (1..Now) /\ (p = "metrics" => f # None)
  <2>1. r \in SUBSET (1..Now)
    BY <1>1
  <2>2. f = None \/ f \in 1..Now
    BY <1>1
  <2>3. f \in 0..Now
    BY <1>0, <2>2 DEF None
  <2>4. p = "metrics" => f # None
    <3>1. ASSUME p = "metrics" PROVE f \in 1..Now
      BY <1>1, <3>1
    <3> QED
      BY <1>0, <3>1 DEF None
  <2> QED
    BY <2>1, <2>3, <2>4
<1>3. TaskInv'
  BY <1>0, <1>1, <1>2 DEF IInv, TaskInv
<1> QED
  BY <1>0, <1>3, TablesKept DEF IInv

LEMMA InitInvariant == Init => IInv
<1> SUFFICES ASSUME Init PROVE IInv
  OBVIOUS
<1>0. frames = <<>> /\ Now = 0 /\ outbox = <<>> /\ playback = {} /\ todo = {}
  BY EmptySeq DEF Init, Now
<1>1. TaskInv
  <2>1. task = [pc |-> "idle", frame |-> 0, live |-> FALSE, replay |-> {}]
    BY DEF Init, Idle, NoTask, None
  <2>2. frames \in Seq(Nat) /\ 0 \in 0..Now
    BY <1>0, EmptySeq
  <2> QED
    BY <1>0, <2>1, <2>2 DEF TaskInv
<1>2. CursorInv
  <2>1. outbox \in Seq({})
    BY <1>0, EmptySeq
  <2>2. runner.frame = None /\ runner.b = NoBoundary /\ mem = NoBoundary /\ DOMAIN outbox = {}
    BY <1>0 DEF Init
  <2> QED
    BY <1>0, <2>1, <2>2 DEF CursorInv, EventsTellChanges, None
<1>3. KeyframeInv /\ CurrentInv
  BY <1>0 DEF Init, KeyframeInv, CurrentInv, OneRowPerSecond, AnchorsKept, None
<1>4. SecondInv
  BY <1>0 DEF Init, SecondInv, OneRowPerSecond, None
<1> QED
  BY <1>1, <1>2, <1>3, <1>4 DEF IInv

LEMMA StepInvariant == IInv /\ [Next]_vars => IInv'
<1> SUFFICES ASSUME IInv, [Next]_vars PROVE IInv'
  OBVIOUS
<1>1. CASE \E n \in 0..2 : Frame(n) \/ FrameWithChange(n)
  BY <1>1, CommitInvariant DEF Frame, FrameWithChange
<1>2. CASE Metrics
  BY <1>2, MetricsInvariant
<1>3. CASE Replay
  <2>1. \E f \in task.replay : task' = [pc |-> "metrics", frame |-> f, live |-> FALSE, replay |-> task.replay \ {f}]
    BY <1>3 DEF Replay
  <2>2. UNCHANGED <<frames, tables>> /\ mem' = mem /\ todo' = todo
    BY <1>3 DEF Replay, env
  <2> QED
    BY <2>1, <2>2, QuietInvariant
<1>4. CASE MetricsFault \/ Crash
  <2>1. task' = [pc |-> "idle", frame |-> None, live |-> FALSE, replay |-> {}] \/ task' = NoTask
    BY <1>4 DEF MetricsFault, Crash, Idle, NoTask
  <2>2. UNCHANGED <<frames, tables>> /\ mem' \in {mem, NoBoundary} /\ todo' = todo
    BY <1>4 DEF MetricsFault, Crash, env
  <2> QED
    <3>1. \E p \in {"idle", "down"} : task' = [pc |-> p, frame |-> None, live |-> FALSE, replay |-> {}]
      BY <2>1 DEF NoTask
    <3>2. PICK p \in {"idle", "down"} : task' = [pc |-> p, frame |-> None, live |-> FALSE, replay |-> {}]
      BY <3>1
    <3>3. /\ {} \in SUBSET (task.replay \cup todo) /\ FALSE \in BOOLEAN /\ None \in {None} \cup task.replay
          /\ p \in {"idle", "metrics", "down"} /\ p # "metrics"
      OBVIOUS
    <3> QED
      BY <2>2, <3>2, <3>3, QuietInvariant
<1>5. CASE MarkProcessed \/ Restart
  <2>1. \E r \in SUBSET (task.replay \cup todo) : task' = [pc |-> "idle", frame |-> None, live |-> FALSE, replay |-> r]
    BY <1>5 DEF MarkProcessed, Restart, Idle, NoTask
  <2>2. UNCHANGED <<frames, tables>> /\ mem' = mem /\ todo' \subseteq todo
    BY <1>5 DEF MarkProcessed, Restart, env
  <2> QED
    BY <2>1, <2>2, QuietInvariant
<1>6. CASE Disconnect \/ RecordGap \/ UNCHANGED vars
  <2>1. UNCHANGED <<frames, task, todo, mem, tables>>
    BY <1>6 DEF Disconnect, RecordGap, vars, env
  <2>2. Now' = Now /\ Now \in Nat
    BY <2>1, LenProperties DEF IInv, TaskInv, Now
  <2>3. TaskInv'
    BY <2>1, <2>2 DEF IInv, TaskInv
  <2> QED
    BY <2>1, <2>2, <2>3, TablesKept DEF IInv
<1> QED
  BY <1>1, <1>2, <1>3, <1>4, <1>5, <1>6 DEF Next

\* The inductive invariant holds of every behaviour of the runner.
THEOREM Invariance == Spec => []IInv
BY InitInvariant, StepInvariant, PTL DEF Spec

\* The outbox names every change of the heat once, in the order of the frames,
\* and every event of the track or of our car has its keyframe, over any number
\* of deaths of the worker, transactions that raise and frames tried again.
THEOREM EventsTheorem == Spec => []MetricsConsistent
<1>1. IInv => MetricsConsistent
  <2> SUFFICES ASSUME IInv PROVE MetricsConsistent
    OBVIOUS
  <2>1. TypeOK
    <3>1. \A t \in DOMAIN ticks : ticks[t] # None => SecondOf(ticks[t]) = t /\ ticks[t] <= Now
      BY DEF IInv, SecondInv
    <3> QED
      BY <3>1 DEF IInv, TaskInv, CursorInv, KeyframeInv, SecondInv, TypeOK
  <2> QED
    BY <2>1 DEF MetricsConsistent, IInv, CursorInv, KeyframeInv
<1> QED
  BY <1>1, Invariance, PTL

-----------------------------------------------------------------------------
(* Counts and charts.                                                       *)

\* The states of our car.
States == {"none", "ON_TRACK", "IN_PIT", "OUT_LAP"}

\* The laps are rows of received frames, in their order.
LapsInv ==
    /\ facts = [state |-> facts.state, laps |-> facts.laps, pits |-> facts.pits, flags |-> facts.flags]
    /\ facts.state \in States
    /\ facts.laps \in Seq([frame : Nat, state : States])
    /\ \A i \in DOMAIN facts.laps : facts.laps[i].frame \in 1..Now
    /\ \A i, j \in DOMAIN facts.laps : i < j => facts.laps[i].frame <= facts.laps[j].frame

\* A flag period is open, and each is of a flag.
FlagsInv ==
    /\ \E p \in facts.flags : p.to = None
    /\ \A p \in facts.flags : p = [flag |-> p.flag, from |-> p.from, to |-> p.to] /\ p.flag \in {"GREEN", "CAUTION"}

\* One gap is open at most, and it began at a frame or with a run.
GapInv ==
    /\ net = [open |-> net.open, run |-> net.run]
    /\ net.run \in Nat \ {0} /\ (net.open => frames # <<>>)
    /\ \A g \in gaps : g = [from |-> g.from, to |-> g.to] /\ (g.to = None => g.from \in Nat \ {0})
    /\ \A g, h \in gaps : g.to = None /\ h.to = None => g.from = h.from

\* The frame of the cursor is unmarked only until it is evaluated again, and no
\* fact changes before that, but a gap may open.
TodoInv ==
    /\ task.replay \subseteq todo
    /\ task.pc \in {"metrics", "mark"} => task.frame \in todo \ task.replay
    /\ task.pc = "metrics" /\ task.live => runner.frame < task.frame /\ task.replay = {}
    /\ runner.frame # None => runner.b # NoBoundary
    /\ runner.frame \in todo =>
         /\ \/ task.pc = "down" \/ runner.frame \in task.replay
            \/ task.pc \in {"metrics", "mark"} /\ task.frame = runner.frame
         /\ runner.b.state = facts.state /\ runner.b.pit = <<facts.pits, Stint>>
         /\ runner.b.gap \in {None, OpenGap}
         /\ ~ seen.ahead => \A i \in DOMAIN facts.laps : Old(i)

\* The laps the cursor has passed.
Passed == {i \in DOMAIN facts.laps : Old(i)}

\* The counts at the cursor are those of the laps it has passed.
CountInv ==
    /\ current.frame <= runner.frame
    /\ current.val \in [observed : Nat, clean : Nat, stint : Nat]
    /\ current.frame = runner.frame /\ ~ seen.ahead =>
         /\ seen.clean \subseteq Passed
         /\ current.val.observed = Cardinality(Passed)
         /\ ~ seen.revised =>
              /\ current.val.clean = Cardinality(seen.clean)
              /\ current.val.stint = Cardinality({i \in seen.clean : facts.laps[i].frame >= runner.b.pit[2]})

\* A frame without an event, in a chart.
Quiet(rows, g, val) == Sampled(rows, g, val, FALSE)

\* What a frame writes into the chart of the session.
SessionPoint(b, car) == <<b.flag, b.gap, b.state, car>>

\* Evaluated again as it was, the frame of the cursor finds its points in the charts.
ChartInv ==
    /\ samples = [session |-> samples["session"], car |-> samples["car"]]
    /\ \A s \in {"session", "car"} : \A r \in samples[s] : r.frame \in Nat /\ r.sec = SecondOf(r.frame)
    /\ runner.frame \in todo /\ runner.b = Boundary /\ ~ seen.ahead =>
         LET car == IF Seen(Boundary) THEN Values ELSE NoValues
         IN /\ Seen(Boundary) => current = [frame |-> runner.frame, val |-> Values]
            /\ Quiet(samples["session"], runner.frame, SessionPoint(Boundary, car)) = samples["session"]
            /\ Seen(Boundary) => Quiet(samples["car"], runner.frame, car) = samples["car"]

CInv == LapsInv /\ FlagsInv /\ GapInv /\ TodoInv /\ CountInv /\ ChartInv

-----------------------------------------------------------------------------
(* Counting.                                                               *)

\* A difference, as the code takes it of two counts, is never negative.
LEMMA MaxDifference ==
    ASSUME NEW a \in Nat, NEW b \in Nat, b <= a
    PROVE  Max({0, a - b}) = a - b
<1>1. a - b \in Nat
  OBVIOUS
<1> QED
  BY <1>1, GreaterOfTwo

\* A part P of U that holds everything outside O, and the count of U's share of O
\* less P's, make up the count of U.
LEMMA PrefixCount ==
    ASSUME NEW U, NEW P, NEW O, IsFiniteSet(U), P \subseteq U, U \ O \subseteq P
    PROVE  Cardinality(P) + Max({0, Cardinality(U \cap O) - Cardinality(P \cap O)}) = Cardinality(U)
<1>1. IsFiniteSet(P) /\ IsFiniteSet(U \cap O) /\ IsFiniteSet(P \cap O)
  BY FS_Subset
<1>2. /\ Cardinality(P \ O) = Cardinality(P) - Cardinality(P \cap O)
      /\ Cardinality(U \ O) = Cardinality(U) - Cardinality(U \cap O)
  BY <1>1, FS_Difference
<1>3. P \ O = U \ O
  OBVIOUS
<1>4. Cardinality(P \cap O) <= Cardinality(U \cap O)
  BY <1>1, FS_Subset
<1>5. /\ Cardinality(P) \in Nat /\ Cardinality(U) \in Nat
      /\ Cardinality(P \cap O) \in Nat /\ Cardinality(U \cap O) \in Nat
  BY <1>1, FS_CardinalityType
<1>6. Max({0, Cardinality(U \cap O) - Cardinality(P \cap O)}) = Cardinality(U \cap O) - Cardinality(P \cap O)
  BY <1>4, <1>5, MaxDifference
<1>7. Cardinality(P) - Cardinality(P \cap O) = Cardinality(U) - Cardinality(U \cap O)
  BY <1>2, <1>3
<1> QED
  <2> DEFINE p == Cardinality(P)
             u == Cardinality(U)
             po == Cardinality(P \cap O)
             uo == Cardinality(U \cap O)
  <2>1. p \in Nat /\ u \in Nat /\ po \in Nat /\ uo \in Nat /\ p - po = u - uo
    BY <1>5, <1>7
  <2>2. Max({0, uo - po}) = uo - po
    BY <1>6
  <2> HIDE DEF p, u, po, uo
  <2>3. p + Max({0, uo - po}) = u
    BY <2>1, <2>2
  <2> QED
    BY <2>3 DEF p, u, po, uo

\* The first lap of the loaded tail, and what is new lies behind it.
LEMMA TailStart ==
    ASSUME NEW n \in Nat, NEW t \in Nat \ {0}
    PROVE  /\ Max({1, n - t + 1}) \in Nat \ {0}
           /\ Max({1, n - t + 1}) = 1 \/ Max({1, n - t + 1}) = n - t + 1
<1>1. CASE n - t + 1 \in Nat
  BY <1>1, GreaterOfTwo
<1>2. CASE n - t + 1 < 1
  <2>1. 1 \in {1, n - t + 1} /\ \A y \in {1, n - t + 1} : 1 >= y
    BY <1>2
  <2>2. \A x \in {1, n - t + 1} : (\A y \in {1, n - t + 1} : x >= y) => x = 1
    BY <1>2
  <2> QED
    BY <2>1, <2>2 DEF Max
<1> QED
  BY <1>1, <1>2

\* The laps the cursor has passed are the first ones.
LEMMA PassedFirst ==
    ASSUME LapsInv, runner.frame \in Nat
    PROVE  /\ IsFiniteSet(DOMAIN facts.laps) /\ DOMAIN facts.laps = 1..Len(facts.laps) /\ Len(facts.laps) \in Nat
           /\ NewLaps \in Nat
           /\ \A i \in DOMAIN facts.laps : Old(i) \/ i > Len(facts.laps) - NewLaps
<1> DEFINE n == Len(facts.laps)
           new == {i \in DOMAIN facts.laps : ~ Old(i)}
<1>1. DOMAIN facts.laps = 1..n /\ n \in Nat
  BY LenProperties DEF LapsInv
<1>2. IsFiniteSet(1..n) /\ IsFiniteSet(new)
  <2>1. IsFiniteSet(1..n)
    BY <1>1, FS_Interval
  <2>2. new \in SUBSET (1..n)
    BY <1>1
  <2> HIDE DEF n, new
  <2> QED
    BY <2>1, <2>2, FS_Subset
<1>3. NewLaps = Cardinality(new) /\ NewLaps \in Nat
  BY <1>2, FS_CardinalityType DEF NewLaps
<1>4. ASSUME NEW i \in DOMAIN facts.laps, ~ Old(i) PROVE i > n - NewLaps
  <2>1. i..n \subseteq new
    <3> SUFFICES ASSUME NEW j \in i..n PROVE j \in new
      OBVIOUS
    <3>1. j \in DOMAIN facts.laps /\ i \in 1..n
      BY <1>1, <1>4
    <3>2. i < j \/ i = j
      BY <3>1
    <3>3. facts.laps[i].frame <= facts.laps[j].frame /\ facts.laps[i].frame \in Nat /\ facts.laps[j].frame \in Nat
      BY <1>4, <3>1, <3>2 DEF LapsInv
    <3> QED
      BY <1>4, <3>1, <3>3 DEF Old
  <2>2. Cardinality(i..n) = n - i + 1
    BY <1>1, <1>4, FS_Interval
  <2>3. Cardinality(i..n) <= Cardinality(new)
    BY <1>2, <2>1, FS_Subset
  <2> QED
    BY <1>1, <1>3, <1>4, <2>2, <2>3
<1> QED
  BY <1>1, <1>2, <1>3, <1>4

\* In a bounded load every lap from the first one on that is not in the tail was passed;
\* and the first of the tail was, unless it is the first of all.
LEMMA LoadedTail ==
    ASSUME LapsInv, runner.frame \in Nat
    PROVE  /\ FirstLap \in Nat \ {0}
           /\ FirstLap # 1 => Bounded
           /\ Bounded => \A i \in DOMAIN facts.laps : i <= FirstLap => (i = 1 /\ FirstLap = 1) \/ Old(i)
<1> DEFINE n == Len(facts.laps)
<1>1. DOMAIN facts.laps = 1..n /\ n \in Nat /\ NewLaps \in Nat
  BY PassedFirst
<1>2. TailLaps \in Nat \ {0}
  BY MetricRunnerAssumption
<1>3. Bounded => FirstLap = Max({1, n - TailLaps + 1})
  BY DEF FirstLap
<1>4. ~Bounded => FirstLap = 1
  BY DEF FirstLap
<1>5. FirstLap \in Nat \ {0}
  <2>1. Max({1, n - TailLaps + 1}) \in Nat \ {0}
    BY <1>1, <1>2, TailStart
  <2> QED
    BY <1>3, <1>4, <2>1
<1>6. ASSUME Bounded, NEW i \in DOMAIN facts.laps, i <= FirstLap, ~ Old(i) PROVE i = 1 /\ FirstLap = 1
  <2>1. i > n - NewLaps /\ NewLaps < TailLaps /\ i \in 1..n
    BY <1>1, <1>6, PassedFirst DEF Bounded
  <2>2. FirstLap = 1 \/ FirstLap = n - TailLaps + 1
    BY <1>1, <1>2, <1>3, <1>6, TailStart
  <2> QED
    BY <1>1, <1>2, <1>5, <1>6, <2>1, <2>2
<1> QED
  BY <1>4, <1>5, <1>6

\* A count over loaded laps P is the count of U when P has all of U, or all but passed
\* laps and the stored count is that of the passed ones.
LEMMA WholeCount ==
    ASSUME LapsInv, runner.frame \in Nat, NEW U \in SUBSET DOMAIN facts.laps, NEW P \in SUBSET U, NEW c,
           IF Bounded THEN U \ P \subseteq Passed /\ c = Cardinality(U \cap Passed) ELSE P = U
    PROVE  WithPrefix(P, c) = Cardinality(U)
<1>1. IsFiniteSet(U)
  BY PassedFirst, FS_Subset
<1>2. CASE Bounded
  <2>1. {i \in P : Old(i)} = P \cap Passed
    BY DEF Passed
  <2>2. Cardinality(P) + Max({0, Cardinality(U \cap Passed) - Cardinality(P \cap Passed)}) = Cardinality(U)
    BY <1>1, <1>2, PrefixCount
  <2> QED
    BY <1>2, <2>1, <2>2 DEF WithPrefix
<1>3. CASE ~Bounded
  <2>1. Cardinality(P) \in Nat /\ P = U
    BY <1>1, <1>3, FS_CardinalityType
  <2> QED
    BY <1>3, <2>1 DEF WithPrefix
<1> QED
  BY <1>2, <1>3

\* The laps a load calls clean are those of the whole history but for the first loaded one.
LEMMA CleanTail ==
    ASSUME LapsInv, runner.frame \in Nat
    PROVE  LET P == {i \in FirstLap..Len(facts.laps) : IsClean(i, FirstLap)}
           IN /\ P \in SUBSET CleanLaps /\ CleanLaps \in SUBSET DOMAIN facts.laps
              /\ IF Bounded THEN CleanLaps \ P \subseteq Passed ELSE P = CleanLaps
<1> DEFINE P == {i \in FirstLap..Len(facts.laps) : IsClean(i, FirstLap)}
<1>0. /\ FirstLap \in Nat \ {0} /\ (FirstLap # 1 => Bounded)
      /\ DOMAIN facts.laps = 1..Len(facts.laps) /\ Len(facts.laps) \in Nat
  BY LoadedTail, PassedFirst
<1>1. ASSUME NEW i \in Nat PROVE IsClean(i, FirstLap) <=> i > FirstLap /\ IsClean(i, 1)
  BY <1>0, <1>1 DEF IsClean
<1>2. CleanLaps = {i \in 1..Len(facts.laps) : IsClean(i, 1)}
  BY <1>0 DEF CleanLaps
<1>3. P = {i \in CleanLaps : i > FirstLap}
  BY <1>0, <1>1, <1>2
<1>4. \A i \in CleanLaps : i \in 1..Len(facts.laps) /\ i > 1
  BY <1>2 DEF IsClean
<1>5. ASSUME Bounded PROVE CleanLaps \ P \subseteq Passed
  <2> SUFFICES ASSUME NEW i \in CleanLaps, ~(i > FirstLap) PROVE i \in Passed
    BY <1>3
  <2>1. i \in DOMAIN facts.laps /\ i <= FirstLap /\ i # 1
    BY <1>0, <1>4
  <2> QED
    BY <1>5, <2>1, LoadedTail DEF Passed
<1>6. ASSUME ~Bounded PROVE P = CleanLaps
  BY <1>0, <1>3, <1>4, <1>6
<1> QED
  BY <1>0, <1>2, <1>3, <1>5, <1>6

\* Clean laps of the open stint.
StintOf(C) == {i \in C : facts.laps[i].frame >= Stint}

\* What a frame counts is what the whole history counts, when a bounded load starts from
\* the counts of the passed laps.
LEMMA ValuesWhole ==
    ASSUME LapsInv, runner.frame \in Nat, NEW C, C \in SUBSET Passed
    PROVE  /\ (Bounded => current.val.observed = Cardinality(Passed)) =>
                Values.observed = Cardinality(DOMAIN facts.laps)
           /\ (Bounded => current.val.clean = Cardinality(C) /\ CleanLaps \cap Passed = C) =>
                Values.clean = Cardinality(CleanLaps)
           /\ (Bounded => current.val.stint = Cardinality(StintOf(C)) /\ CleanLaps \cap Passed = C) =>
                Values.stint = Cardinality(StintOf(CleanLaps))
<1> DEFINE n == Len(facts.laps)
           P == {i \in FirstLap..n : IsClean(i, FirstLap)}
<1>0. /\ FirstLap \in Nat \ {0} /\ (FirstLap # 1 => Bounded)
      /\ DOMAIN facts.laps = 1..n /\ n \in Nat
  BY LoadedTail, PassedFirst
<1>1. ASSUME Bounded => current.val.observed = Cardinality(Passed)
      PROVE  Values.observed = Cardinality(DOMAIN facts.laps)
  <2>1. FirstLap..n \in SUBSET DOMAIN facts.laps
    BY <1>0
  <2>2. ASSUME Bounded PROVE DOMAIN facts.laps \ (FirstLap..n) \subseteq Passed
    BY <1>0, <2>2, LoadedTail DEF Passed
  <2>3. DOMAIN facts.laps \cap Passed = Passed
    BY DEF Passed
  <2>4. ASSUME ~Bounded PROVE FirstLap..n = DOMAIN facts.laps
    BY <1>0, <2>4
  <2>5. WithPrefix(FirstLap..n, current.val.observed) = Cardinality(DOMAIN facts.laps)
    <3> DEFINE U == DOMAIN facts.laps
               T == FirstLap..n
    <3>1. /\ T \in SUBSET U /\ U \in SUBSET DOMAIN facts.laps
          /\ IF Bounded THEN U \ T \subseteq Passed /\ current.val.observed = Cardinality(U \cap Passed) ELSE T = U
      BY <1>1, <2>1, <2>2, <2>3, <2>4
    <3> HIDE DEF U, T
    <3>2. WithPrefix(T, current.val.observed) = Cardinality(U)
      BY <3>1, WholeCount
    <3> QED
      BY <3>2 DEF U, T
  <2>6. Values.observed = WithPrefix(FirstLap..n, current.val.observed)
    BY DEF Values
  <2> HIDE DEF n
  <2> QED
    BY <2>5, <2>6
<1>2. /\ P \in SUBSET CleanLaps /\ CleanLaps \in SUBSET DOMAIN facts.laps
      /\ IF Bounded THEN CleanLaps \ P \subseteq Passed ELSE P = CleanLaps
  BY CleanTail
<1>3. /\ Values.clean = WithPrefix(P, current.val.clean)
      /\ Values.stint = WithPrefix(StintOf(P), current.val.stint)
  BY DEF Values, StintOf
<1> HIDE DEF P
<1>4. ASSUME Bounded => current.val.clean = Cardinality(C) /\ CleanLaps \cap Passed = C
      PROVE  Values.clean = Cardinality(CleanLaps)
  BY <1>2, <1>3, <1>4, WholeCount
<1>5. ASSUME Bounded => current.val.stint = Cardinality(StintOf(C)) /\ CleanLaps \cap Passed = C
      PROVE  Values.stint = Cardinality(StintOf(CleanLaps))
  <2>1. StintOf(P) \in SUBSET StintOf(CleanLaps) /\ StintOf(CleanLaps) \in SUBSET DOMAIN facts.laps
    BY <1>2 DEF StintOf
  <2>2. ASSUME Bounded PROVE StintOf(CleanLaps) \ StintOf(P) \subseteq Passed
    BY <1>2, <2>2 DEF StintOf
  <2>3. ASSUME Bounded PROVE StintOf(CleanLaps) \cap Passed = StintOf(C)
    BY <1>5, <2>3 DEF StintOf
  <2>4. ASSUME ~Bounded PROVE StintOf(P) = StintOf(CleanLaps)
    BY <1>2, <2>4
  <2> QED
    BY <1>3, <1>5, <2>1, <2>2, <2>3, <2>4, WholeCount
<1> QED
  BY <1>1, <1>4, <1>5

\* A restored count is a number, and no less than the loaded laps it counts.
LEMMA PrefixBound ==
    ASSUME NEW P, IsFiniteSet(P), NEW c \in Nat
    PROVE  WithPrefix(P, c) \in Nat /\ WithPrefix(P, c) >= Cardinality(P)
<1>1. Cardinality(P) \in Nat
  BY FS_CardinalityType
<1>2. Cardinality({i \in P : Old(i)}) \in Nat
  BY FS_Subset, FS_CardinalityType
<1>3. Max({0, c - Cardinality({i \in P : Old(i)})}) \in Nat
  <2> DEFINE d == c - Cardinality({i \in P : Old(i)})
  <2>1. d \in Int
    BY <1>2
  <2> HIDE DEF d
  <2>2. ASSUME d >= 0 PROVE Max({0, d}) \in Nat
    BY <2>1, <2>2, GreaterOfTwo
  <2>3. ASSUME d < 0 PROVE Max({0, d}) \in Nat
    <3>1. 0 \in {0, d} /\ \A y \in {0, d} : 0 >= y
      BY <2>1, <2>3
    <3>2. \A x \in {0, d} : (\A y \in {0, d} : x >= y) => x = 0
      BY <2>1, <2>3
    <3> QED
      BY <3>1, <3>2 DEF Max
  <2>4. Max({0, d}) \in Nat
    BY <2>1, <2>2, <2>3
  <2> QED
    BY <2>4 DEF d
<1> QED
  BY <1>1, <1>3 DEF WithPrefix

\* The laps a bounded load finds clean.
CleanLoaded == {i \in FirstLap..Len(facts.laps) : IsClean(i, FirstLap)}

LEMMA LoadedFinite ==
    ASSUME LapsInv, runner.frame \in Nat
    PROVE  IsFiniteSet(FirstLap..Len(facts.laps)) /\ IsFiniteSet(CleanLoaded) /\ IsFiniteSet(StintOf(CleanLoaded))
<1>1. IsFiniteSet(FirstLap..Len(facts.laps))
  <2>1. FirstLap \in Int /\ Len(facts.laps) \in Int
    BY PassedFirst, LoadedTail
  <2> QED
    BY <2>1, FS_Interval
<1>2. CleanLoaded \in SUBSET (FirstLap..Len(facts.laps)) /\ StintOf(CleanLoaded) \in SUBSET CleanLoaded
  BY DEF CleanLoaded, StintOf
<1>3. IsFiniteSet(CleanLoaded)
  BY <1>1, <1>2, FS_Subset
<1> QED
  BY <1>1, <1>2, <1>3, FS_Subset

\* The three counts of a frame are restored counts.
LEMMA ValuesAre ==
    Values = [observed |-> WithPrefix(FirstLap..Len(facts.laps), current.val.observed),
              clean    |-> WithPrefix(CleanLoaded, current.val.clean),
              stint    |-> WithPrefix(StintOf(CleanLoaded), current.val.stint)]
BY DEF Values, CleanLoaded, StintOf

LEMMA ValuesTyped ==
    ASSUME LapsInv, runner.frame \in Nat, current.val \in [observed : Nat, clean : Nat, stint : Nat]
    PROVE  /\ Values \in [observed : Nat, clean : Nat, stint : Nat]
           /\ Values.observed >= Cardinality(FirstLap..Len(facts.laps))
           /\ Values.clean >= Cardinality(CleanLoaded)
           /\ Values.stint >= Cardinality(StintOf(CleanLoaded))
BY ValuesAre, LoadedFinite, PrefixBound

\* A bounded load without a new lap, from counts no less than what it loads.
Settled ==
    /\ LapsInv /\ runner.frame \in Nat /\ Bounded /\ \A i \in DOMAIN facts.laps : Old(i)
    /\ current.val \in [observed : Nat, clean : Nat, stint : Nat]
    /\ current.val.observed >= Cardinality(FirstLap..Len(facts.laps))
    /\ current.val.clean >= Cardinality(CleanLoaded)
    /\ current.val.stint >= Cardinality(StintOf(CleanLoaded))

\* It changes no count.
LEMMA ValuesSettled == Settled => Values = current.val
<1> SUFFICES ASSUME Settled PROVE Values = current.val
  OBVIOUS
<1>1. ASSUME NEW P \in SUBSET DOMAIN facts.laps, IsFiniteSet(P), NEW c \in Nat, c >= Cardinality(P)
      PROVE  WithPrefix(P, c) = c
  <2>1. {i \in P : Old(i)} = P
    BY DEF Settled
  <2>2. Cardinality(P) \in Nat
    BY <1>1, FS_CardinalityType
  <2>3. Max({0, c - Cardinality(P)}) = c - Cardinality(P)
    BY <1>1, <2>2, MaxDifference
  <2>4. WithPrefix(P, c) = Cardinality(P) + (c - Cardinality(P))
    BY <2>1, <2>3 DEF WithPrefix, Settled
  <2> QED
    BY <2>2, <2>4
<1>2. /\ FirstLap..Len(facts.laps) \in SUBSET DOMAIN facts.laps
      /\ CleanLoaded \in SUBSET DOMAIN facts.laps /\ StintOf(CleanLoaded) \in SUBSET DOMAIN facts.laps
  <2>1. FirstLap..Len(facts.laps) \in SUBSET DOMAIN facts.laps
    BY PassedFirst, LoadedTail DEF Settled
  <2> QED
    BY <2>1 DEF CleanLoaded, StintOf
<1>3. IsFiniteSet(FirstLap..Len(facts.laps)) /\ IsFiniteSet(CleanLoaded) /\ IsFiniteSet(StintOf(CleanLoaded))
  BY LoadedFinite DEF Settled
<1>4. /\ WithPrefix(FirstLap..Len(facts.laps), current.val.observed) = current.val.observed
      /\ WithPrefix(CleanLoaded, current.val.clean) = current.val.clean
      /\ WithPrefix(StintOf(CleanLoaded), current.val.stint) = current.val.stint
  BY <1>1, <1>2, <1>3 DEF Settled
<1> QED
  BY <1>4, ValuesAre DEF Settled

-----------------------------------------------------------------------------
(* The counts a frame writes.                                              *)

\* What is read of the facts, when they and the gaps stay.
LEMMA FactsKept ==
    ASSUME UNCHANGED <<facts, gaps>>
    PROVE  Boundary' = Boundary /\ CleanLaps' = CleanLaps /\ Stint' = Stint /\ OpenGap' = OpenGap
<1>1. Stint' = Stint /\ OpenGap' = OpenGap
  BY DEF Stint, OpenGap
<1>2. Boundary' = Boundary
  BY <1>1 DEF Boundary, CurrentFlag
<1>3. CleanLaps' = CleanLaps
  BY DEF CleanLaps, IsClean, GreenCovers
<1> QED
  BY <1>1, <1>2, <1>3

\* The transaction of a frame beyond the cursor.
LEMMA MetricsPasses ==
    ASSUME IInv, CInv, Metrics, task.frame > runner.frame
    PROVE  /\ UNCHANGED <<facts, gaps>>
           /\ runner' = [frame |-> task.frame, b |-> Boundary]
           /\ current' = IF Seen(Boundary) THEN [frame |-> task.frame, val |-> Values] ELSE current
           /\ seen'.clean = CleanLaps
           /\ ~seen'.ahead => LapsAfter(task.frame) = {} /\ (Bounded => ~seen.ahead)
           /\ ~seen'.revised /\ Bounded => ~seen.revised /\ \A i \in DOMAIN facts.laps : Old(i) => (i \in CleanLaps <=> i \in seen.clean)
<1>1. Newer(runner, task.frame)
  BY DEF Newer
<1>2. Newer(current, task.frame)
  <2>1. current.frame <= runner.frame /\ task.frame \in Nat /\ runner.frame \in Nat /\ current.frame \in Nat
    BY LenProperties DEF IInv, CInv, CountInv, TaskInv, CursorInv, CurrentInv, Now
  <2> QED
    BY <2>1 DEF Newer
<1>3. UNCHANGED <<facts, gaps>> /\ ProcessFrame(task.frame)
  BY DEF Metrics, env
<1>4. /\ runner' = [frame |-> task.frame, b |-> Boundary]
      /\ current' = IF Seen(Boundary) THEN [frame |-> task.frame, val |-> Values] ELSE current
  BY <1>1, <1>2, <1>3 DEF ProcessFrame, Refreshed
<1> DEFINE revised == {i \in DOMAIN facts.laps : Old(i) /\ (i \in CleanLaps) # (i \in seen.clean)}
<1>5. seen' = [clean   |-> CleanLaps,
               revised |-> Bounded /\ (seen.revised \/ revised # {}),
               ahead   |-> LapsAfter(task.frame) # {} \/ (Bounded /\ seen.ahead)]
  BY <1>1, <1>3 DEF ProcessFrame
<1>6. /\ seen'.clean = CleanLaps
      /\ ~seen'.ahead => ~(LapsAfter(task.frame) # {} \/ (Bounded /\ seen.ahead))
      /\ ~seen'.revised => ~(Bounded /\ (seen.revised \/ revised # {}))
  <2> HIDE DEF revised
  <2> QED
    BY <1>5
<1>7. ASSUME revised = {}, NEW i \in DOMAIN facts.laps, Old(i) PROVE i \in CleanLaps <=> i \in seen.clean
  BY <1>7
<1> QED
  BY <1>3, <1>4, <1>6, <1>7

\* When the cursor has seen the car, the current row is of its frame.
LEMMA CurrentAtCursor ==
    ASSUME IInv, CInv, runner.frame # None, Seen(runner.b)
    PROVE  current.frame = runner.frame
<1>1. current.frame \in Nat /\ runner.frame \in Nat
  BY LenProperties DEF IInv, TaskInv, CursorInv, CurrentInv, Now
<1> QED
  BY <1>1 DEF IInv, CurrentInv, CInv, CountInv

LEMMA MetricsCounts ==
    ASSUME IInv, CInv, Metrics, task.frame > runner.frame
    PROVE  CountInv'
<1> DEFINE f == task.frame
           C == IF Bounded THEN seen.clean ELSE {}
<1>0. f \in Nat /\ runner.frame \in Nat /\ current.frame \in Nat /\ current.frame <= runner.frame /\ LapsInv
  BY LenProperties DEF IInv, CInv, CountInv, TaskInv, CursorInv, CurrentInv, Now
<1>1. /\ facts' = facts /\ runner' = [frame |-> f, b |-> Boundary]
      /\ current' = IF Seen(Boundary) THEN [frame |-> f, val |-> Values] ELSE current
      /\ seen'.clean = CleanLaps
      /\ ~seen'.ahead => LapsAfter(f) = {} /\ (Bounded => ~seen.ahead)
      /\ ~seen'.revised /\ Bounded => ~seen.revised /\ \A i \in DOMAIN facts.laps : Old(i) => (i \in CleanLaps <=> i \in seen.clean)
  BY MetricsPasses
<1>2. current'.frame <= runner'.frame /\ current'.val \in [observed : Nat, clean : Nat, stint : Nat]
  BY <1>0, <1>1, ValuesTyped DEF CInv, CountInv
<1>3. ASSUME current'.frame = runner'.frame, ~seen'.ahead
      PROVE  /\ seen'.clean \subseteq Passed'
             /\ current'.val.observed = Cardinality(Passed')
             /\ ~ seen'.revised =>
                  /\ current'.val.clean = Cardinality(seen'.clean)
                  /\ current'.val.stint = Cardinality({i \in seen'.clean : facts'.laps[i].frame >= runner'.b.pit[2]})
  <2>1. Seen(Boundary) /\ current' = [frame |-> f, val |-> Values]
    <3>1. ~(current.frame = f)
      BY <1>0
    <3> QED
      BY <1>1, <1>3, <3>1
  <2>2. Passed' = DOMAIN facts.laps
    <3>1. \A i \in DOMAIN facts.laps : facts.laps[i].frame <= f
      <4>1. \A i \in DOMAIN facts.laps : ~(facts.laps[i].frame > f) /\ facts.laps[i].frame \in Nat
        BY <1>0, <1>1, <1>3, LenProperties DEF LapsAfter, LapsInv
      <4> QED
        BY <1>0, <4>1
    <3> QED
      BY <1>1, <3>1 DEF Passed, Old
  <2>3. ASSUME Bounded
        PROVE  /\ current.frame = runner.frame /\ ~seen.ahead /\ runner.b.pit = Boundary.pit
               /\ seen.clean \subseteq Passed /\ current.val.observed = Cardinality(Passed)
    <3>1. runner.frame # None /\ runner.b.state = Boundary.state /\ runner.b.pit = Boundary.pit
      BY <2>3 DEF Bounded, DependenciesUnchanged
    <3>2. current.frame = runner.frame
      BY <2>1, <3>1, CurrentAtCursor DEF Seen
    <3> QED
      BY <1>1, <1>3, <2>3, <3>1, <3>2 DEF CInv, CountInv
  <2>4. C \in SUBSET Passed
    BY <2>3
  <2>5. Values.observed = Cardinality(DOMAIN facts.laps)
    BY <1>0, <2>3, <2>4, ValuesWhole
  <2>6. CleanLaps \subseteq DOMAIN facts.laps
    BY DEF CleanLaps
  <2>7. ASSUME ~seen'.revised
        PROVE  Values.clean = Cardinality(CleanLaps) /\ Values.stint = Cardinality(StintOf(CleanLaps))
    <3>1. ASSUME Bounded
          PROVE  /\ current.val.clean = Cardinality(C) /\ CleanLaps \cap Passed = C
                 /\ current.val.stint = Cardinality(StintOf(C))
      <4>1. /\ ~seen.revised /\ C = seen.clean
            /\ \A i \in DOMAIN facts.laps : Old(i) => (i \in CleanLaps <=> i \in seen.clean)
        BY <1>1, <2>7, <3>1
      <4>2. CleanLaps \cap Passed = C
        BY <2>3, <3>1, <4>1 DEF Passed
      <4>3. /\ current.val.clean = Cardinality(seen.clean)
            /\ current.val.stint = Cardinality({i \in seen.clean : facts.laps[i].frame >= runner.b.pit[2]})
        BY <2>3, <3>1, <4>1 DEF CInv, CountInv
      <4>4. runner.b.pit[2] = Stint
        BY <2>3, <3>1 DEF Boundary
      <4> QED
        BY <4>1, <4>2, <4>3, <4>4 DEF StintOf
    <3> HIDE DEF C
    <3> QED
      BY <1>0, <2>4, <3>1, ValuesWhole
  <2>8. runner'.b.pit[2] = Stint
    BY <1>1 DEF Boundary
  <2>9. {i \in seen'.clean : facts'.laps[i].frame >= runner'.b.pit[2]} = StintOf(CleanLaps)
    BY <1>1, <2>8 DEF StintOf
  <2>10. seen'.clean = CleanLaps /\ current'.val = Values
    BY <1>1, <2>1
  <2> HIDE DEF C, f
  <2> QED
    BY <2>2, <2>5, <2>6, <2>7, <2>9, <2>10
<1> QED
  BY <1>2, <1>3 DEF CountInv

-----------------------------------------------------------------------------
(* The charts.                                                             *)

\* A quotient by a fixed number grows with its dividend.
LEMMA QuotientGrows ==
    ASSUME NEW n \in Nat \ {0}, NEW a \in Nat, NEW b \in Nat, a <= b
    PROVE  a \div n <= b \div n /\ a \div n \in Nat /\ b \div n \in Nat
<1> DEFINE p == a \div n
           q == b \div n
<1>1. p \in Nat /\ q \in Nat /\ n * p <= a /\ a < n * (p + 1) /\ n * q <= b /\ b < n * (q + 1)
  OBVIOUS
<1> HIDE DEF p, q
<1>2. ASSUME q + 1 <= p PROVE n * (q + 1) <= n * p
  BY <1>1, <1>2
<1>3. ~(q + 1 <= p)
  BY <1>1, <1>2
<1> QED
  BY <1>1, <1>3 DEF p, q

LEMMA SecondsGrow ==
    ASSUME NEW a \in Nat, NEW b \in Nat, a <= b
    PROVE  /\ SecondOf(a) <= SecondOf(b) /\ SecondOf(a) \in Nat /\ SecondOf(b) \in Nat
           /\ Bucket(a) <= Bucket(b) /\ Bucket(a) \in Nat /\ Bucket(b) \in Nat
BY QuotientGrows, MetricRunnerAssumption DEF SecondOf, Bucket

\* Rows of a chart.
Chart(rows) == \A r \in rows : r.frame \in Nat /\ r.sec = SecondOf(r.frame)

\* What keeps a value of frame g out of a chart.
Same(rows, g, val)    == \/ \E r \in RowAt(rows, SecondOf(g)) : r.val = val
                         \/ RowAt(rows, SecondOf(g)) = {} /\ \E r \in RowBefore(rows, SecondOf(g)) : r.val = val
Unneeded(rows, g)     == \E r \in RowBefore(rows, SecondOf(g)) : ~(Bucket(g) > Bucket(r.frame))
Overtaken(rows, g)    == \E r \in RowAt(rows, SecondOf(g)) : g <= r.frame
Point(g, val)         == [sec |-> SecondOf(g), frame |-> g, val |-> val]

LEMMA SampledCases ==
    ASSUME NEW rows, NEW g, NEW val, NEW event
    PROVE  /\ Same(rows, g, val) \/ (~event /\ Unneeded(rows, g)) \/ Overtaken(rows, g) =>
                Sampled(rows, g, val, event) = rows
           /\ ~(Same(rows, g, val) \/ (~event /\ Unneeded(rows, g)) \/ Overtaken(rows, g)) =>
                Sampled(rows, g, val, event) = (rows \ RowAt(rows, SecondOf(g))) \cup {Point(g, val)}
BY DEF Sampled, Same, Unneeded, Overtaken, Point, Periodic

\* Without an event.
LEMMA SampledQuietly ==
    ASSUME NEW rows, NEW g, NEW val
    PROVE  /\ Same(rows, g, val) \/ Unneeded(rows, g) \/ Overtaken(rows, g) => Quiet(rows, g, val) = rows
           /\ ~(Same(rows, g, val) \/ Unneeded(rows, g) \/ Overtaken(rows, g)) =>
                Quiet(rows, g, val) = (rows \ RowAt(rows, SecondOf(g))) \cup {Point(g, val)}
           /\ \A event : ~event => Sampled(rows, g, val, event) = Quiet(rows, g, val)
BY DEF Quiet, Sampled, Same, Unneeded, Overtaken, Point, Periodic

\* The chart of a frame is a chart, and evaluated again it stays as it is.
LEMMA SampledAgain ==
    ASSUME NEW rows, Chart(rows), NEW g \in Nat, NEW val, NEW event
    PROVE  /\ Chart(Sampled(rows, g, val, event))
           /\ Quiet(Sampled(rows, g, val, event), g, val) = Sampled(rows, g, val, event)
<1> DEFINE R == Sampled(rows, g, val, event)
<1>1. CASE Same(rows, g, val) \/ (~event /\ Unneeded(rows, g)) \/ Overtaken(rows, g)
  <2>1. R = rows
    BY <1>1, SampledCases
  <2>2. Quiet(rows, g, val) = rows
    BY <1>1, SampledQuietly
  <2> QED
    BY <2>1, <2>2
<1>2. CASE ~(Same(rows, g, val) \/ (~event /\ Unneeded(rows, g)) \/ Overtaken(rows, g))
  <2>1. R = (rows \ RowAt(rows, SecondOf(g))) \cup {Point(g, val)}
    BY <1>2, SampledCases
  <2> HIDE DEF R
  <2>2. Chart(R)
    BY <2>1 DEF Chart, Point
  <2>3. Same(R, g, val)
    <3>1. Point(g, val) \in R /\ Point(g, val).sec = SecondOf(g) /\ Point(g, val).val = val
      BY <2>1 DEF Point
    <3> QED
      BY <3>1 DEF Same, RowAt
  <2>4. Quiet(R, g, val) = R
    BY <2>3, SampledQuietly
  <2> QED
    BY <2>2, <2>4 DEF R
<1> QED
  BY <1>1, <1>2

\* A frame that changes nothing is kept out by something.
LEMMA SampledKept ==
    ASSUME NEW rows, NEW g, NEW val, Quiet(rows, g, val) = rows
    PROVE  Same(rows, g, val) \/ Unneeded(rows, g) \/ Overtaken(rows, g)
<1> SUFFICES ASSUME ~(Same(rows, g, val) \/ Unneeded(rows, g) \/ Overtaken(rows, g)) PROVE FALSE
  OBVIOUS
<1>1. rows = (rows \ RowAt(rows, SecondOf(g))) \cup {Point(g, val)}
  BY SampledQuietly
<1>2. Point(g, val) \in rows /\ Point(g, val).sec = SecondOf(g) /\ Point(g, val).val = val
  BY <1>1 DEF Point
<1> QED
  BY <1>2 DEF Same, RowAt

\* What no longer changes at a frame does not change there after an earlier frame
\* wrote the same value.
LEMMA SampledEarlier ==
    ASSUME NEW rows, Chart(rows), NEW f \in Nat, NEW g \in Nat, f <= g, NEW val,
           Quiet(rows, g, val) = rows
    PROVE  Quiet(Quiet(rows, f, val), g, val) = Quiet(rows, f, val)
<1> DEFINE R == Quiet(rows, f, val)
           s == SecondOf(f)
           t == SecondOf(g)
           new == Point(f, val)
<1>0. s <= t /\ s \in Nat /\ t \in Nat /\ Bucket(f) <= Bucket(g) /\ Bucket(f) \in Nat /\ Bucket(g) \in Nat
  BY SecondsGrow
<1>1. CASE Same(rows, f, val) \/ Unneeded(rows, f) \/ Overtaken(rows, f)
  BY <1>1, SampledQuietly
<1>2. CASE ~Same(rows, f, val) /\ ~Unneeded(rows, f) /\ ~Overtaken(rows, f)
  <2>1. R = (rows \ RowAt(rows, s)) \cup {new}
    BY <1>2, SampledQuietly
  <2>2. new.sec = s /\ new.frame = f /\ new.val = val
    BY DEF Point
  <2>3. Same(rows, g, val) \/ Unneeded(rows, g) \/ Overtaken(rows, g)
    BY SampledKept
  <2>4. ASSUME NEW r \in rows
        PROVE  r.frame \in Nat /\ r.sec = SecondOf(r.frame) /\ r.sec \in Nat /\ Bucket(r.frame) \in Nat
    BY SecondsGrow DEF Chart
  <2>5. ASSUME s = t PROVE FALSE
    <3>1. ~Same(rows, g, val)
      BY <1>2, <2>5 DEF Same
    <3>2. ~Overtaken(rows, g)
      <4>1. ASSUME NEW r \in RowAt(rows, t), g <= r.frame PROVE f <= r.frame
        BY <2>4, <4>1 DEF RowAt
      <4> QED
        BY <1>2, <2>5, <4>1 DEF Overtaken
    <3>3. ~Unneeded(rows, g)
      <4>1. ASSUME NEW r \in RowBefore(rows, t), ~(Bucket(g) > Bucket(r.frame)) PROVE ~(Bucket(f) > Bucket(r.frame))
        <5>1. Bucket(r.frame) \in Nat
          BY <2>4 DEF RowBefore
        <5> QED
          BY <1>0, <4>1, <5>1
      <4> QED
        BY <1>2, <2>5, <4>1 DEF Unneeded
    <3> QED
      BY <2>3, <3>1, <3>2, <3>3
  <2>6. s < t
    BY <1>0, <2>5
  <2> HIDE DEF R, s, t, new
  <2>7. RowAt(R, t) = RowAt(rows, t)
    <3>1. s # t
      BY <1>0, <2>6
    <3> QED
      BY <2>1, <2>2, <3>1 DEF RowAt
  <2>8. ASSUME NEW r \in RowBefore(rows, t), r.sec > s PROVE r \in RowBefore(R, t)
    <3>1. r \in R /\ r.sec < t
      BY <1>0, <2>1, <2>4, <2>8 DEF RowAt, RowBefore
    <3>2. ASSUME NEW q \in R, q.sec < t PROVE q.sec <= r.sec
      BY <1>0, <2>1, <2>2, <2>4, <2>8, <3>2 DEF RowAt, RowBefore
    <3> QED
      BY <3>1, <3>2 DEF RowBefore
  <2>9. ASSUME NEW r \in RowBefore(rows, t), ~(r.sec > s) PROVE new \in RowBefore(R, t)
    <3>1. ASSUME NEW q \in R, q.sec < t PROVE q.sec <= new.sec
      BY <1>0, <2>1, <2>2, <2>4, <2>9, <3>1 DEF RowAt, RowBefore
    <3> QED
      BY <2>1, <2>2, <2>6, <3>1 DEF RowBefore
  <2>10. CASE Same(rows, g, val)
    <3>1. Same(R, g, val)
      BY <2>2, <2>7, <2>8, <2>9, <2>10 DEF Same, t
    <3> QED
      BY <3>1, SampledQuietly DEF R
  <2>11. CASE Overtaken(rows, g)
    <3>1. Overtaken(R, g)
      BY <2>7, <2>11 DEF Overtaken, t
    <3> QED
      BY <3>1, SampledQuietly DEF R
  <2>12. CASE Unneeded(rows, g)
    <3>1. PICK r \in RowBefore(rows, t) : ~(Bucket(g) > Bucket(r.frame))
      BY <2>12 DEF Unneeded, t
    <3>2. ASSUME ~(r.sec > s) PROVE ~(Bucket(g) > Bucket(new.frame))
      <4>1. r \in rows /\ r.frame \in Nat /\ r.sec = SecondOf(r.frame) /\ r.sec \in Nat /\ Bucket(r.frame) \in Nat
        BY <2>4 DEF RowBefore
      <4>2. r.frame <= f
        <5>1. CASE r.sec = s
          <6>1. ~(f <= r.frame)
            BY <1>2, <4>1, <5>1 DEF Overtaken, RowAt, s
          <6> QED
            BY <4>1, <6>1
        <5>2. CASE r.sec < s
          <6>1. ~(f <= r.frame)
            BY <1>0, <4>1, <5>2, SecondsGrow DEF s
          <6> QED
            BY <4>1, <6>1
        <5> QED
          BY <1>0, <3>2, <4>1, <5>1, <5>2
      <4>3. Bucket(r.frame) <= Bucket(f)
        BY <4>1, <4>2, SecondsGrow
      <4> QED
        BY <1>0, <2>2, <3>1, <4>1, <4>3
    <3>3. Unneeded(R, g)
      BY <2>8, <2>9, <3>1, <3>2 DEF Unneeded, t
    <3> QED
      BY <3>3, SampledQuietly DEF R
  <2> QED
    BY <2>3, <2>10, <2>11, <2>12
<1> QED
  BY <1>1, <1>2

-----------------------------------------------------------------------------
(* What a transaction preserves.                                           *)

\* The boundary state of a heat is never the empty one.
LEMMA BoundarySomething ==
    ASSUME FlagsInv
    PROVE  Boundary # NoBoundary
<1>1. CurrentFlag \in facts.flags
  BY DEF CurrentFlag, FlagsInv
<1>2. Boundary.flag.flag \in {"GREEN", "CAUTION"}
  BY <1>1 DEF Boundary, FlagsInv
<1>3. NoBoundary.flag.flag = "none"
  BY DEF NoBoundary
<1> QED
  BY <1>2, <1>3

LEMMA EnvKept ==
    ASSUME LapsInv, FlagsInv, GapInv, UNCHANGED env
    PROVE  LapsInv' /\ FlagsInv' /\ GapInv'
BY DEF LapsInv, FlagsInv, GapInv, env, Now

\* Evaluated at once again, the frame counts the same.
LEMMA MetricsSettles ==
    ASSUME IInv, CInv, Metrics, task.frame > runner.frame, Seen(Boundary), ~seen'.ahead
    PROVE  Values' = Values
<1> DEFINE f == task.frame
           n == Len(facts.laps)
<1>0. /\ f \in Nat /\ f # None /\ runner.frame \in Nat /\ LapsInv /\ DOMAIN facts.laps = 1..n /\ n \in Nat
      /\ current.val \in [observed : Nat, clean : Nat, stint : Nat]
  <2>1. Now \in Nat /\ f \in 0..Now /\ f # None /\ runner.frame \in 0..Now
    BY LenProperties DEF IInv, TaskInv, CursorInv, Now, Metrics
  <2>2. LapsInv /\ current.val \in [observed : Nat, clean : Nat, stint : Nat]
    BY DEF CInv, CountInv
  <2> HIDE DEF f
  <2>3. f \in Nat /\ runner.frame \in Nat
    BY <2>1
  <2> QED
    BY <2>1, <2>2, <2>3, PassedFirst
<1>1. /\ UNCHANGED <<facts, gaps>> /\ runner' = [frame |-> f, b |-> Boundary]
      /\ current' = [frame |-> f, val |-> Values] /\ LapsAfter(f) = {}
  BY MetricsPasses
<1>2. LapsInv'
  BY EnvKept DEF CInv, Metrics
<1>3. Boundary' = Boundary /\ Stint' = Stint
  BY <1>1, FactsKept
<1>4. \A i \in DOMAIN facts'.laps : Old(i)'
  <2>1. \A i \in DOMAIN facts.laps : ~(facts.laps[i].frame > f) /\ facts.laps[i].frame \in Nat
    BY <1>0, <1>1, LenProperties DEF LapsAfter, LapsInv
  <2>2. \A i \in DOMAIN facts.laps : facts.laps[i].frame <= f
    BY <1>0, <2>1
  <2> QED
    BY <1>1, <2>2 DEF Old
<1>5. Bounded'
  <2>1. {i \in DOMAIN facts'.laps : ~ Old(i)'} = {}
    BY <1>4
  <2>2. NewLaps' = 0
    BY <2>1, FS_EmptySet DEF NewLaps
  <2>3. DependenciesUnchanged'
    BY <1>0, <1>1, <1>3 DEF DependenciesUnchanged
  <2> QED
    BY <2>2, <2>3, MetricRunnerAssumption DEF Bounded
<1>6. FirstLap' \in Nat \ {0} /\ FirstLap \in Nat \ {0} /\ FirstLap <= FirstLap'
  <2>1. FirstLap' = Max({1, n - TailLaps + 1})
    BY <1>1, <1>5 DEF FirstLap
  <2>2. FirstLap = FirstLap' \/ FirstLap = 1
    BY <2>1 DEF FirstLap
  <2>3. FirstLap' \in Nat \ {0}
    BY <1>0, <2>1, TailStart, MetricRunnerAssumption
  <2> QED
    BY <2>2, <2>3
<1>7. (FirstLap..Len(facts.laps))' \in SUBSET (FirstLap..Len(facts.laps))
  BY <1>0, <1>1, <1>6
<1>8. CleanLoaded' \in SUBSET CleanLoaded
  <2> SUFFICES ASSUME NEW i \in FirstLap'..n, IsClean(i, FirstLap)' PROVE i \in FirstLap..n /\ IsClean(i, FirstLap)
    BY <1>1 DEF CleanLoaded
  <2>1. i \in FirstLap..n /\ i > FirstLap
    BY <1>0, <1>6 DEF IsClean
  <2> QED
    BY <1>1, <2>1 DEF IsClean, GreenCovers
<1>9. StintOf(CleanLoaded)' \in SUBSET StintOf(CleanLoaded)
  BY <1>1, <1>3, <1>8 DEF StintOf
<1>10. /\ IsFiniteSet(FirstLap..Len(facts.laps)) /\ IsFiniteSet(CleanLoaded) /\ IsFiniteSet(StintOf(CleanLoaded))
       /\ Values \in [observed : Nat, clean : Nat, stint : Nat]
       /\ Values.observed >= Cardinality(FirstLap..Len(facts.laps))
       /\ Values.clean >= Cardinality(CleanLoaded)
       /\ Values.stint >= Cardinality(StintOf(CleanLoaded))
  BY <1>0, LoadedFinite, ValuesTyped
<1>11. ASSUME NEW S, NEW T \in SUBSET S, IsFiniteSet(S), NEW v \in Nat, v >= Cardinality(S) PROVE v >= Cardinality(T)
  BY <1>11, FS_Subset, FS_CardinalityType
<1>12. current'.val = Values /\ runner'.frame \in Nat
  BY <1>0, <1>1
<1>13. /\ current'.val.observed >= Cardinality((FirstLap..Len(facts.laps))')
       /\ current'.val.clean >= Cardinality(CleanLoaded')
       /\ current'.val.stint >= Cardinality(StintOf(CleanLoaded)')
  BY <1>7, <1>8, <1>9, <1>10, <1>11, <1>12
<1>14. Settled'
  BY <1>2, <1>4, <1>5, <1>10, <1>12, <1>13 DEF Settled
<1>15. (Values = current.val)'
  BY <1>14, ValuesSettled, PTL
<1> QED
  BY <1>12, <1>15

\* The frames that are to be evaluated again.
LEMMA MetricsTodo ==
    ASSUME IInv, CInv, Metrics
    PROVE  TodoInv'
<1> DEFINE f == task.frame
<1>0. /\ f \in Nat /\ runner.frame \in Nat /\ LapsInv /\ f \in todo \ task.replay
      /\ task' = [task EXCEPT !.pc = "mark"] /\ todo' = todo /\ UNCHANGED env /\ task.pc = "metrics"
  BY LenProperties DEF IInv, CInv, TodoInv, TaskInv, CursorInv, Now, Metrics
<1>1. task'.pc = "mark" /\ task'.frame = f /\ task'.replay = task.replay
  BY <1>0 DEF IInv, TaskInv
<1>2. facts' = facts /\ gaps' = gaps /\ Boundary' = Boundary /\ Stint' = Stint /\ OpenGap' = OpenGap
  BY <1>0, FactsKept DEF env
<1>3. CASE f > runner.frame
  <2>1. /\ runner' = [frame |-> f, b |-> Boundary]
        /\ ~seen'.ahead => LapsAfter(f) = {}
    BY <1>3, MetricsPasses
  <2>2. ASSUME ~seen'.ahead PROVE \A i \in DOMAIN facts'.laps : Old(i)'
    <3>1. \A i \in DOMAIN facts.laps : ~(facts.laps[i].frame > f) /\ facts.laps[i].frame \in Nat
      BY <1>0, <2>1, <2>2, LenProperties DEF LapsAfter, LapsInv
    <3>2. \A i \in DOMAIN facts.laps : facts.laps[i].frame <= f
      BY <1>0, <3>1
    <3> QED
      BY <1>2, <2>1, <3>2 DEF Old
  <2>3. Boundary # NoBoundary /\ Boundary.state = facts.state /\ Boundary.pit = <<facts.pits, Stint>>
        /\ Boundary.gap = OpenGap
    BY BoundarySomething DEF CInv, Boundary
  <2> QED
    BY <1>0, <1>1, <1>2, <2>1, <2>2, <2>3 DEF TodoInv, CInv
<1>4. CASE ~(f > runner.frame)
  <2>1. runner' = runner /\ seen' = seen
    BY <1>4 DEF Metrics, ProcessFrame, Newer
  <2>2. runner.frame \in todo => runner.frame \in task.replay \/ f = runner.frame
    BY <1>0 DEF CInv, TodoInv
  <2>3. (\A i \in DOMAIN facts.laps : Old(i)) => \A i \in DOMAIN facts'.laps : Old(i)'
    BY <1>2, <2>1 DEF Old
  <2> QED
    BY <1>0, <1>1, <1>2, <2>1, <2>2, <2>3 DEF TodoInv, CInv
<1> QED
  BY <1>3, <1>4

\* The points a frame writes.
LEMMA MetricsPoints ==
    ASSUME IInv, CInv, Metrics
    PROVE  LET car == IF Seen(Boundary) THEN Values ELSE NoValues
           IN \E e, d : /\ EventKeys(Previous, Boundary) = {} => ~e /\ ~d
                        /\ samples'["session"] = Sampled(samples["session"], task.frame, SessionPoint(Boundary, car), e)
                        /\ samples'["car"] = IF Seen(Boundary) THEN Sampled(samples["car"], task.frame, car, d) ELSE samples["car"]
<1> DEFINE car == IF Seen(Boundary) THEN Values ELSE NoValues
           scopes == EventScopes(EventKeys(Previous, Boundary))
<1>1. ProcessFrame(task.frame)
  BY DEF Metrics
<1>2. samples' = [session |-> Sampled(samples["session"], task.frame, SessionPoint(Boundary, car), "session" \in scopes),
                  car |-> IF Seen(Boundary) THEN Sampled(samples["car"], task.frame, car, "car" \in scopes) ELSE samples["car"]]
  BY <1>1 DEF ProcessFrame, SessionPoint
<1>3. EventKeys(Previous, Boundary) = {} => ~("session" \in scopes) /\ ~("car" \in scopes)
  BY DEF EventScopes
<1> HIDE DEF scopes, car
<1>4. /\ samples'["session"] = Sampled(samples["session"], task.frame, SessionPoint(Boundary, car), "session" \in scopes)
      /\ samples'["car"] = IF Seen(Boundary) THEN Sampled(samples["car"], task.frame, car, "car" \in scopes) ELSE samples["car"]
  BY <1>2
<1>5. \E e, d : /\ EventKeys(Previous, Boundary) = {} => ~e /\ ~d
               /\ samples'["session"] = Sampled(samples["session"], task.frame, SessionPoint(Boundary, car), e)
               /\ samples'["car"] = IF Seen(Boundary) THEN Sampled(samples["car"], task.frame, car, d) ELSE samples["car"]
  <2> DEFINE e == "session" \in scopes
             d == "car" \in scopes
  <2>1. /\ EventKeys(Previous, Boundary) = {} => ~e /\ ~d
        /\ samples'["session"] = Sampled(samples["session"], task.frame, SessionPoint(Boundary, car), e)
        /\ samples'["car"] = IF Seen(Boundary) THEN Sampled(samples["car"], task.frame, car, d) ELSE samples["car"]
    BY <1>3, <1>4
  <2> HIDE DEF e, d
  <2> QED
    BY <2>1
<1> QED
  BY <1>5 DEF car

\* A frame at the cursor or behind it leaves the counts, the history and, if the heat is as the
\* cursor saw it, the current row.
LEMMA MetricsBehind ==
    ASSUME IInv, CInv, Metrics, ~(task.frame > runner.frame)
    PROVE  /\ runner' = runner /\ seen' = seen /\ facts' = facts /\ gaps' = gaps /\ todo' = todo
           /\ Seen(runner.b) \/ runner.b = Boundary => current' = current
           /\ current' = current \/ current' = [frame |-> task.frame, val |-> Values]
           /\ current'.frame <= runner.frame
<1>0. task.frame \in Nat /\ runner.frame \in Nat /\ current.frame \in Nat /\ task.frame # None /\ current.frame <= runner.frame
  BY LenProperties DEF IInv, TaskInv, CursorInv, CurrentInv, CInv, CountInv, Now, Metrics
<1>1. runner' = runner /\ seen' = seen /\ facts' = facts /\ gaps' = gaps /\ todo' = todo
  BY DEF Metrics, ProcessFrame, Newer, env
<1>2. current' = IF Seen(Boundary) /\ Newer(current, task.frame) THEN [frame |-> task.frame, val |-> Values] ELSE current
  BY DEF Metrics, ProcessFrame, Refreshed
<1>3. ASSUME Seen(runner.b) PROVE ~Newer(current, task.frame)
  <2>1. runner.frame # None => current.frame = runner.frame
    BY <1>3, CurrentAtCursor
  <2>2. task.frame <= runner.frame /\ runner.frame # None
    BY <1>0 DEF None
  <2> QED
    BY <1>0, <2>1, <2>2 DEF Newer
<1> QED
  BY <1>0, <1>1, <1>2, <1>3

LEMMA MetricsCountsKept ==
    ASSUME IInv, CInv, Metrics, ~(task.frame > runner.frame)
    PROVE  CountInv'
<1>0. task.frame \in Nat /\ runner.frame \in Nat /\ LapsInv /\ CountInv /\ TodoInv /\ task.pc = "metrics"
  BY LenProperties DEF IInv, TaskInv, CursorInv, CInv, Now, Metrics
<1>1. /\ runner' = runner /\ seen' = seen /\ facts' = facts
      /\ Seen(runner.b) \/ runner.b = Boundary => current' = current
      /\ current' = current \/ current' = [frame |-> task.frame, val |-> Values]
      /\ current'.frame <= runner.frame
  BY MetricsBehind
<1>2. CASE current' = current
  BY <1>0, <1>1, <1>2 DEF CountInv, Passed, Old
<1>3. CASE current' # current
  <2>1. current' = [frame |-> task.frame, val |-> Values] /\ ~Seen(runner.b)
    BY <1>1, <1>3
  <2>2. task.frame # runner.frame
    <3> SUFFICES ASSUME task.frame = runner.frame PROVE FALSE
      OBVIOUS
    <3>1. runner.frame \in todo
      BY <1>0 DEF TodoInv
    <3>2. runner.b.state = Boundary.state
      BY <1>0, <3>1 DEF TodoInv, Boundary
    <3>3. ~Seen(Boundary)
      BY <2>1, <3>2 DEF Seen
    <3> QED
      BY <1>3, <3>3 DEF Metrics, ProcessFrame, Refreshed
  <2>3. Values \in [observed : Nat, clean : Nat, stint : Nat]
    BY <1>0, ValuesTyped DEF CountInv
  <2>4. current'.frame # runner'.frame /\ current'.val = Values
    BY <1>1, <2>1, <2>2
  <2> QED
    BY <1>1, <2>3, <2>4 DEF CountInv
<1> QED
  BY <1>2, <1>3

\* What the counts read.
LEMMA ValuesKept ==
    ASSUME UNCHANGED <<facts, gaps, runner, current>>
    PROVE  Values' = Values
<1>1. Boundary' = Boundary /\ Stint' = Stint
  BY FactsKept
<1>2. {i \in DOMAIN facts.laps : ~ Old(i)}' = {i \in DOMAIN facts.laps : ~ Old(i)}
  BY DEF Old
<1>3. (Bounded <=> Bounded') /\ NewLaps' = NewLaps
  BY <1>1, <1>2 DEF Bounded, DependenciesUnchanged, NewLaps
<1>4. FirstLap' = FirstLap
  BY <1>3 DEF FirstLap
<1>5. CleanLoaded' = CleanLoaded
  BY <1>4 DEF CleanLoaded, IsClean, GreenCovers
<1>6. StintOf(CleanLoaded)' = StintOf(CleanLoaded)
  BY <1>1, <1>5 DEF StintOf
<1>7. /\ WithPrefix(FirstLap..Len(facts.laps), current.val.observed)' = WithPrefix(FirstLap..Len(facts.laps), current.val.observed)
      /\ WithPrefix(CleanLoaded, current.val.clean)' = WithPrefix(CleanLoaded, current.val.clean)
      /\ WithPrefix(StintOf(CleanLoaded), current.val.stint)' = WithPrefix(StintOf(CleanLoaded), current.val.stint)
  BY <1>3, <1>4, <1>5, <1>6 DEF WithPrefix, Old
<1>8. Values' = [observed |-> WithPrefix(FirstLap..Len(facts.laps), current.val.observed)',
                 clean    |-> WithPrefix(CleanLoaded, current.val.clean)',
                 stint    |-> WithPrefix(StintOf(CleanLoaded), current.val.stint)']
  BY DEF Values, CleanLoaded, StintOf
<1> QED
  BY <1>7, <1>8, ValuesAre

LEMMA MetricsCharts ==
    ASSUME IInv, CInv, Metrics
    PROVE  ChartInv'
<1> DEFINE f == task.frame
           g == runner.frame
           car == IF Seen(Boundary) THEN Values ELSE NoValues
           point == SessionPoint(Boundary, car)
           Holds(x, y) == /\ Seen(Boundary) => x = [frame |-> y, val |-> Values]
                          /\ Quiet(samples'["session"], y, point) = samples'["session"]
                          /\ Seen(Boundary) => Quiet(samples'["car"], y, car) = samples'["car"]
<1>0. f \in Nat /\ g \in Nat /\ g \in 0..Now /\ todo \subseteq 1..Now /\ Now \in Nat
  BY LenProperties DEF IInv, TaskInv, CursorInv, Now
<1>1. Chart(samples["session"]) /\ Chart(samples["car"])
  BY DEF CInv, ChartInv, Chart
<1>2. PICK e, d : /\ EventKeys(Previous, Boundary) = {} => ~e /\ ~d
                  /\ samples'["session"] = Sampled(samples["session"], f, point, e)
                  /\ samples'["car"] = IF Seen(Boundary) THEN Sampled(samples["car"], f, car, d) ELSE samples["car"]
  BY MetricsPoints
<1>3. Boundary' = Boundary
  BY FactsKept DEF Metrics, env
<1>3a. samples' = [session |-> samples'["session"], car |-> samples'["car"]]
  BY DEF Metrics, ProcessFrame
<1> HIDE DEF car, point, f, g
<1>4. /\ Chart(samples'["session"]) /\ Chart(samples'["car"])
      /\ Quiet(samples'["session"], f, point) = samples'["session"]
      /\ Seen(Boundary) => Quiet(samples'["car"], f, car) = samples'["car"]
  <2>1. /\ Chart(Sampled(samples["session"], f, point, e))
        /\ Quiet(Sampled(samples["session"], f, point, e), f, point) = Sampled(samples["session"], f, point, e)
    BY <1>0, <1>1, SampledAgain
  <2>2. /\ Chart(Sampled(samples["car"], f, car, d))
        /\ Quiet(Sampled(samples["car"], f, car, d), f, car) = Sampled(samples["car"], f, car, d)
    BY <1>0, <1>1, SampledAgain
  <2>3. CASE Seen(Boundary)
    <3>1. samples'["car"] = Sampled(samples["car"], f, car, d)
      BY <1>2, <2>3
    <3> QED
      BY <1>2, <2>1, <2>2, <3>1
  <2>4. CASE ~Seen(Boundary)
    <3>1. samples'["car"] = samples["car"]
      BY <1>2, <2>4
    <3> QED
      BY <1>1, <1>2, <2>1, <2>4, <3>1
  <2> QED
    BY <2>3, <2>4
<1>5. CASE f > g
  <2>1. /\ runner'.frame = f
        /\ Seen(Boundary) => current' = [frame |-> f, val |-> Values]
        /\ Seen(Boundary) /\ ~seen'.ahead => Values' = Values
    BY <1>5, MetricsPasses, MetricsSettles DEF f, g
  <2>3. ~seen'.ahead => car = IF Seen(Boundary) THEN Values' ELSE NoValues
    BY <2>1 DEF car
  <2>4. ~seen'.ahead =>
          /\ Seen(Boundary) => current' = [frame |-> f, val |-> Values']
          /\ Quiet(samples'["session"], f, SessionPoint(Boundary, IF Seen(Boundary) THEN Values' ELSE NoValues)) = samples'["session"]
          /\ Seen(Boundary) => Quiet(samples'["car"], f, IF Seen(Boundary) THEN Values' ELSE NoValues) = samples'["car"]
    BY <1>4, <2>1, <2>3 DEF point
  <2> QED
    BY <1>3, <1>4, <1>3a, <2>1, <2>4 DEF ChartInv, Chart
<1>6. CASE ~(f > g)
  <2>1. /\ runner' = runner /\ seen' = seen /\ facts' = facts /\ gaps' = gaps /\ todo' = todo
        /\ Seen(runner.b) \/ runner.b = Boundary => current' = current
    BY <1>6, MetricsBehind DEF f, g
  <2>2. ASSUME g \in todo, runner.b = Boundary, ~seen.ahead
        PROVE  /\ Seen(Boundary) => current' = [frame |-> g, val |-> Values']
               /\ Quiet(samples'["session"], g, SessionPoint(Boundary, IF Seen(Boundary) THEN Values' ELSE NoValues)) = samples'["session"]
               /\ Seen(Boundary) => Quiet(samples'["car"], g, IF Seen(Boundary) THEN Values' ELSE NoValues) = samples'["car"]
    <3>1. /\ Seen(Boundary) => current = [frame |-> g, val |-> Values]
          /\ Quiet(samples["session"], g, point) = samples["session"]
          /\ Seen(Boundary) => Quiet(samples["car"], g, car) = samples["car"]
      BY <2>2 DEF CInv, ChartInv, g, point, car
    <3>2. current' = current
      BY <2>1, <2>2
    <3>3. Values' = Values
      BY <2>1, <3>2, ValuesKept
    <3>4. EventKeys(Previous, Boundary) = {}
      <4>1. Previous = Boundary
        BY <2>2, PreviousIsStored DEF IInv
      <4>2. Boundary # NoBoundary
        BY BoundarySomething DEF CInv
      <4> QED
        BY <4>1, <4>2 DEF EventKeys, Car
    <3>5. f <= g
      BY <1>0, <1>6
    <3>6. Quiet(samples'["session"], g, point) = samples'["session"]
      <4>1. Sampled(samples["session"], f, point, e) = Quiet(samples["session"], f, point)
        BY <1>2, <3>4, SampledQuietly
      <4>2. Quiet(Quiet(samples["session"], f, point), g, point) = Quiet(samples["session"], f, point)
        BY <1>0, <1>1, <3>1, <3>5, SampledEarlier
      <4> QED
        BY <1>2, <4>1, <4>2
    <3>7. ASSUME Seen(Boundary) PROVE Quiet(samples'["car"], g, car) = samples'["car"]
      <4>1. Sampled(samples["car"], f, car, d) = Quiet(samples["car"], f, car)
        BY <1>2, <3>4, SampledQuietly
      <4>2. Quiet(Quiet(samples["car"], f, car), g, car) = Quiet(samples["car"], f, car)
        BY <1>0, <1>1, <3>1, <3>5, <3>7, SampledEarlier
      <4>3. samples'["car"] = Sampled(samples["car"], f, car, d)
        BY <1>2, <3>7
      <4> QED
        BY <4>1, <4>2, <4>3
    <3> QED
      BY <3>1, <3>2, <3>3, <3>6, <3>7 DEF point, car
  <2> QED
    BY <1>3, <1>4, <1>3a, <2>1, <2>2 DEF ChartInv, Chart, g
<1> QED
  BY <1>5, <1>6

LEMMA MetricsCountInvariant ==
    ASSUME IInv, CInv, Metrics
    PROVE  CInv'
<1>1. LapsInv' /\ FlagsInv' /\ GapInv'
  BY EnvKept DEF CInv, Metrics
<1>2. CountInv'
  BY MetricsCounts, MetricsCountsKept
<1> QED
  BY <1>1, <1>2, MetricsTodo, MetricsCharts DEF CInv

-----------------------------------------------------------------------------
(* The other steps.                                                        *)

\* A change of the facts is none of the laps.
LEMMA ChangeKeepsLaps ==
    ASSUME LapsInv, FlagsInv, NEW f \in Nat \ {0}, NEW new \in Changes(f)
    PROVE  /\ new = [state |-> new.state, laps |-> facts.laps, pits |-> new.pits, flags |-> new.flags]
           /\ new.state \in States
           /\ \E p \in new.flags : p.to = None
           /\ \A p \in new.flags : p = [flag |-> p.flag, from |-> p.from, to |-> p.to] /\ p.flag \in {"GREEN", "CAUTION"}
<1>0. facts = [state |-> facts.state, laps |-> facts.laps, pits |-> facts.pits, flags |-> facts.flags] /\ facts.state \in States
  BY DEF LapsInv
<1>1. CASE \E s \in States : new = [facts EXCEPT !.state = s]
  BY <1>0, <1>1 DEF FlagsInv
<1>2. CASE new = Entered(f)
  BY <1>0, <1>2 DEF Entered, FlagsInv, States
<1>3. CASE new = Left(f)
  BY <1>0, <1>3 DEF Left, FlagsInv, States
<1>4. CASE new = Flagged(f)
  <2> DEFINE p == CurrentFlag
             next == IF p.flag = "GREEN" THEN "CAUTION" ELSE "GREEN"
  <2>1. p \in facts.flags /\ p.to = None
    BY DEF CurrentFlag, FlagsInv
  <2>2. new = [facts EXCEPT !.flags = (facts.flags \ {p}) \cup {[p EXCEPT !.to = f], [flag |-> next, from |-> f, to |-> None]}]
    BY <1>4, <1>0 DEF Flagged
  <2>3. p = [flag |-> p.flag, from |-> p.from, to |-> p.to] /\ p.flag \in {"GREEN", "CAUTION"} /\ next \in {"GREEN", "CAUTION"}
    BY <2>1 DEF FlagsInv
  <2>4. [p EXCEPT !.to = f] = [flag |-> p.flag, from |-> p.from, to |-> f]
    BY <2>3
  <2> HIDE DEF p, next
  <2>5. new = [state |-> facts.state, laps |-> facts.laps, pits |-> facts.pits,
               flags |-> (facts.flags \ {p}) \cup {[flag |-> p.flag, from |-> p.from, to |-> f], [flag |-> next, from |-> f, to |-> None]}]
    BY <1>0, <2>2, <2>4
  <2>6. /\ new.flags = (facts.flags \ {p}) \cup {[flag |-> p.flag, from |-> p.from, to |-> f], [flag |-> next, from |-> f, to |-> None]}
        /\ new = [state |-> new.state, laps |-> facts.laps, pits |-> new.pits, flags |-> new.flags] /\ new.state = facts.state
    BY <2>5
  <2>7. \A q \in new.flags : q = [flag |-> q.flag, from |-> q.from, to |-> q.to] /\ q.flag \in {"GREEN", "CAUTION"}
    <3>1. \A q \in facts.flags : q = [flag |-> q.flag, from |-> q.from, to |-> q.to] /\ q.flag \in {"GREEN", "CAUTION"}
      BY DEF FlagsInv
    <3> QED
      BY <2>3, <2>6, <3>1
  <2>8. \E q \in new.flags : q.to = None
    <3>1. [flag |-> next, from |-> f, to |-> None] \in new.flags
      BY <2>6
    <3> QED
      BY <3>1
  <2> QED
    BY <1>0, <2>6, <2>7, <2>8
<1>5. CASE \E x \in facts.flags \X (1..f) : x[2] < f /\ new = Learned(x[1], x[2], x[2] + 1)
  <2>1. PICK x \in facts.flags \X (1..f) : new = Learned(x[1], x[2], x[2] + 1)
    BY <1>5
  <2> DEFINE p == x[1]
             s == x[2]
             e == x[2] + 1
             mine == {[p EXCEPT !.to = s], [flag |-> "CAUTION", from |-> s, to |-> e]}
             rest == IF p.to = None THEN {[p EXCEPT !.from = e]} ELSE {}
  <2>2. p \in facts.flags /\ s \in 1..f /\ e \in Nat
    OBVIOUS
  <2>3. new = [facts EXCEPT !.flags = (facts.flags \ {p}) \cup mine \cup rest]
    BY <1>0, <2>1 DEF Learned
  <2>4. p = [flag |-> p.flag, from |-> p.from, to |-> p.to] /\ p.flag \in {"GREEN", "CAUTION"}
    BY <2>2 DEF FlagsInv
  <2> HIDE DEF p, s, e
  <2>5. /\ mine = {[flag |-> p.flag, from |-> p.from, to |-> s], [flag |-> "CAUTION", from |-> s, to |-> e]}
        /\ rest = IF p.to = None THEN {[flag |-> p.flag, from |-> e, to |-> p.to]} ELSE {}
    BY <2>4
  <2> HIDE DEF mine, rest
  <2>6. new.flags = (facts.flags \ {p}) \cup mine \cup rest
    BY <1>0, <2>3
  <2>7. \E q \in new.flags : q.to = None
    <3>1. PICK q \in facts.flags : q.to = None
      BY DEF FlagsInv
    <3>2. CASE q = p
      <4>1. [flag |-> p.flag, from |-> e, to |-> p.to] \in new.flags
        BY <2>5, <2>6, <3>1, <3>2
      <4> QED
        BY <3>1, <3>2, <4>1
    <3>3. CASE q # p
      BY <2>6, <3>1, <3>3
    <3> QED
      BY <3>2, <3>3
  <2>8. \A q \in new.flags : q = [flag |-> q.flag, from |-> q.from, to |-> q.to] /\ q.flag \in {"GREEN", "CAUTION"}
    <3>1. \A q \in facts.flags : q = [flag |-> q.flag, from |-> q.from, to |-> q.to] /\ q.flag \in {"GREEN", "CAUTION"}
      BY DEF FlagsInv
    <3>2. \A q \in mine : q = [flag |-> q.flag, from |-> q.from, to |-> q.to] /\ q.flag \in {"GREEN", "CAUTION"}
      BY <2>4, <2>5
    <3>3. \A q \in rest : q = [flag |-> q.flag, from |-> q.from, to |-> q.to] /\ q.flag \in {"GREEN", "CAUTION"}
      BY <2>4, <2>5
    <3> QED
      BY <2>6, <3>1, <3>2, <3>3
  <2> QED
    BY <1>0, <2>3, <2>7, <2>8
<1>6. \/ \E s \in States : new = [facts EXCEPT !.state = s]
      \/ new = Entered(f) \/ new = Left(f) \/ new = Flagged(f)
      \/ \E x \in facts.flags \X (1..f) : x[2] < f /\ new = Learned(x[1], x[2], x[2] + 1)
  <2>1. "ON_TRACK" \in States
    BY DEF States
  <2> QED
    BY <1>0, <2>1 DEF Changes, States
<1> QED
  BY <1>1, <1>2, <1>3, <1>4, <1>5, <1>6

\* The open gap.
LEMMA OpenGapIs ==
    ASSUME GapInv
    PROVE  /\ (\A h \in gaps : h.to # None) => OpenGap = None
           /\ \A h \in gaps : h.to = None => OpenGap = h.from /\ OpenGap # None
<1> DEFINE from == {h.from : h \in {h \in gaps : h.to = None}}
<1>1. OpenGap = Max({None} \cup from)
  BY DEF OpenGap
<1>2. ASSUME \A h \in gaps : h.to # None PROVE OpenGap = None
  <2>1. {None} \cup from = {0, 0}
    BY <1>2 DEF None
  <2> QED
    BY <1>1, <2>1, GreaterOfTwo DEF None
<1>3. ASSUME NEW h \in gaps, h.to = None PROVE OpenGap = h.from /\ OpenGap # None
  <2>1. h.from \in Nat \ {0}
    BY <1>3 DEF GapInv
  <2>2. from = {h.from}
    BY <1>3 DEF GapInv
  <2>3. {None} \cup from = {0, h.from}
    BY <2>2 DEF None
  <2>4. Max({0, h.from}) \in {0, h.from} /\ Max({0, h.from}) >= h.from
    BY <2>1, GreaterOfTwo
  <2> QED
    BY <1>1, <2>1, <2>3, <2>4 DEF None
<1> QED
  BY <1>2, <1>3

\* A step that commits no frame and evaluates none.
LEMMA QuietCounts ==
    ASSUME IInv, CInv, UNCHANGED <<frames, facts, tables, seen>>, todo' \subseteq todo,
           \/ gaps' = gaps
           \/ runner.frame \notin todo'
           \/ runner.b.gap # OpenGap'
    PROVE  LapsInv' /\ FlagsInv' /\ CountInv' /\ ChartInv'
<1>1. runner' = runner /\ current' = current /\ samples' = samples
  BY DEF tables
<1>2. LapsInv' /\ FlagsInv'
  BY DEF CInv, LapsInv, FlagsInv, Now
<1>3. CountInv'
  BY <1>1 DEF CInv, CountInv, Passed, Old
<1>4. ChartInv'
  <2>1. CASE gaps' = gaps
    BY <1>1, <2>1, FactsKept, ValuesKept DEF CInv, ChartInv
  <2>2. CASE runner.frame \notin todo' \/ runner.b # Boundary'
    BY <1>1, <2>2 DEF CInv, ChartInv
  <2>3. runner.b.gap # OpenGap' => runner.b # Boundary'
    BY DEF Boundary
  <2> QED
    BY <2>1, <2>2, <2>3
<1> QED
  BY <1>2, <1>3, <1>4

LEMMA CommitCounts ==
    ASSUME IInv, CInv, NEW n \in Nat, NEW new, new = facts \/ new \in Changes(Now + 1), CommitFacts(n, new)
    PROVE  CInv'
<1> DEFINE f == Now + 1
           R == [frame : Nat, state : States]
           more == [k \in 1..n |-> Lap(f, new.state)]
           m == Len(facts.laps)
<1>0. /\ frames \in Seq(Nat) /\ Now \in Nat /\ f \in Nat \ {0} /\ runner.frame \in 0..Now /\ todo \subseteq 1..Now
      /\ LapsInv /\ FlagsInv /\ GapInv /\ TodoInv /\ CountInv /\ ChartInv
  BY LenProperties DEF IInv, CInv, TaskInv, CursorInv, Now
<1>1. /\ frames' = Append(frames, f) /\ todo' = todo \cup {f} /\ UNCHANGED <<mem, tables, seen>>
      /\ task' = [task EXCEPT !.pc = "metrics", !.frame = f, !.live = TRUE]
      /\ facts' = [new EXCEPT !.laps = new.laps \o more]
      /\ gaps' = {IF h.to = None THEN [h EXCEPT !.to = f] ELSE h : h \in gaps}
      /\ net' = [net EXCEPT !.open = TRUE]
      /\ task.pc = "idle" /\ task.replay = {}
  BY DEF CommitFacts
<1>2. Now' = f
  BY <1>0, <1>1, AppendProperties DEF Now
<1>3. /\ new = [state |-> new.state, laps |-> facts.laps, pits |-> new.pits, flags |-> new.flags]
      /\ new.state \in States
      /\ \E p \in new.flags : p.to = None
      /\ \A p \in new.flags : p = [flag |-> p.flag, from |-> p.from, to |-> p.to] /\ p.flag \in {"GREEN", "CAUTION"}
  <2>1. CASE new = facts
    BY <1>0, <2>1 DEF LapsInv, FlagsInv
  <2>2. CASE new \in Changes(f)
    BY <1>0, <2>2, ChangeKeepsLaps
  <2> QED
    BY <2>1, <2>2
<1> HIDE DEF more
<1>4. facts' = [state |-> new.state, laps |-> facts.laps \o more, pits |-> new.pits, flags |-> new.flags]
  <2>1. facts' = [new EXCEPT !.laps = facts.laps \o more]
    <3>1. new.laps = facts.laps
      BY <1>3
    <3> QED
      BY <1>1, <3>1
  <2> QED
    BY <1>3, <2>1
<1>5. more \in Seq(R) /\ Len(more) = n /\ \A k \in 1..n : more[k].frame = f
  <2>1. more = [k \in 1..n |-> [frame |-> f, state |-> new.state]]
    BY DEF more, Lap
  <2>2. more \in [1..n -> R]
    BY <1>0, <1>3, <2>1
  <2>3. more \in Seq(R)
    BY <2>2, SeqDef
  <2>4. Len(more) = n
    BY <2>1, <2>3, LenProperties
  <2> QED
    BY <2>1, <2>3, <2>4
<1>6. /\ facts.laps \in Seq(R) /\ m \in Nat /\ DOMAIN facts.laps = 1..m
      /\ \A i \in 1..m : facts.laps[i].frame \in 1..Now
      /\ \A i, j \in 1..m : i < j => facts.laps[i].frame <= facts.laps[j].frame
  <2>1. facts.laps \in Seq(R)
    BY <1>0 DEF LapsInv
  <2>2. m \in Nat /\ DOMAIN facts.laps = 1..m
    BY <2>1, LenProperties
  <2> QED
    BY <1>0, <2>1, <2>2 DEF LapsInv
<1>7. /\ facts'.laps \in Seq(R) /\ DOMAIN facts'.laps = 1..(m + n)
      /\ \A i \in 1..(m + n) : facts'.laps[i] = IF i <= m THEN facts.laps[i] ELSE more[i - m]
  <2>1. facts'.laps = facts.laps \o more
    BY <1>4
  <2> HIDE DEF R
  <2>0. /\ facts.laps \o more \in Seq(R)
        /\ Len(facts.laps \o more) = Len(facts.laps) + Len(more)
        /\ \A i \in 1..(Len(facts.laps) + Len(more)) :
              (facts.laps \o more)[i] = IF i <= Len(facts.laps) THEN facts.laps[i] ELSE more[i - Len(facts.laps)]
    <3>1. facts.laps \in Seq(R) /\ more \in Seq(R)
      BY <1>5, <1>6
    <3> HIDE DEF m
    <3> QED
      BY <3>1, ConcatProperties
  <2>2. facts'.laps \in Seq(R) /\ Len(facts'.laps) = m + n
    BY <1>5, <2>0, <2>1
  <2>3. \A i \in 1..(m + n) : (facts.laps \o more)[i] = IF i <= m THEN facts.laps[i] ELSE more[i - m]
    BY <1>5, <2>0
  <2> QED
    BY <2>1, <2>2, <2>3, LenProperties
<1> HIDE DEF R, m, f
<1>8. ASSUME NEW i \in 1..(m + n) PROVE i \in 1..m \/ (i > m /\ facts'.laps[i].frame = f)
  BY <1>5, <1>6, <1>7
<1>9. ASSUME NEW i \in 1..m PROVE i \in 1..(m + n) /\ facts'.laps[i] = facts.laps[i]
  BY <1>6, <1>7
<1>10. LapsInv'
  <2>1. /\ facts' = [state |-> facts'.state, laps |-> facts'.laps, pits |-> facts'.pits, flags |-> facts'.flags]
        /\ facts'.state \in States
    BY <1>3, <1>4
  <2>2. ASSUME NEW i \in 1..(m + n) PROVE facts'.laps[i].frame \in 1..f
    <3>1. CASE i \in 1..m
      BY <1>0, <1>6, <1>9, <3>1 DEF f
    <3>2. CASE facts'.laps[i].frame = f
      BY <1>0, <3>2
    <3> QED
      BY <1>8, <3>1, <3>2
  <2>3. ASSUME NEW i \in 1..(m + n), NEW j \in 1..(m + n), i < j PROVE facts'.laps[i].frame <= facts'.laps[j].frame
    <3>1. CASE j \in 1..m
      <4>1. i \in 1..m
        BY <1>6, <2>3, <3>1
      <4> QED
        BY <1>6, <1>9, <2>3, <3>1, <4>1
    <3>2. CASE facts'.laps[j].frame = f
      BY <1>0, <2>2, <3>2
    <3> QED
      BY <1>8, <3>1, <3>2
  <2> QED
    BY <1>2, <1>7, <2>1, <2>2, <2>3 DEF LapsInv, R
<1>11. FlagsInv'
  BY <1>3, <1>4 DEF FlagsInv
<1>12. GapInv'
  <2>1. net = [open |-> net.open, run |-> net.run] /\ net.run \in Nat \ {0}
    BY <1>0 DEF GapInv
  <2>2. net' = [open |-> TRUE, run |-> net.run]
    BY <1>1, <2>1
  <2>3. frames' # <<>>
    BY <1>0, <1>1, AppendProperties
  <2>4. ASSUME NEW h \in gaps' PROVE h = [from |-> h.from, to |-> h.to] /\ h.to # None
    <3>1. PICK q \in gaps : h = IF q.to = None THEN [q EXCEPT !.to = f] ELSE q
      BY <1>1
    <3>2. q = [from |-> q.from, to |-> q.to]
      BY <1>0 DEF GapInv
    <3>3. f # None
      BY <1>0 DEF None
    <3>4. CASE q.to = None
      <4>1. h = [from |-> q.from, to |-> f]
        BY <3>1, <3>2, <3>4
      <4> QED
        BY <3>3, <4>1
    <3> QED
      BY <3>1, <3>2, <3>4
  <2> QED
    BY <2>1, <2>2, <2>3, <2>4 DEF GapInv
<1>13. runner' = runner /\ current' = current /\ samples' = samples /\ seen' = seen
  BY <1>1 DEF tables
<1>14. runner.frame \notin todo' /\ runner.frame < f
  <2>1. runner.frame \notin todo
    BY <1>0, <1>1 DEF TodoInv
  <2>2. runner.frame < f
    BY <1>0 DEF f
  <2> QED
    BY <1>0, <1>1, <2>1, <2>2
<1>15. TodoInv'
  <2>1. task'.pc = "metrics" /\ task'.frame = f /\ task'.replay = {}
    BY <1>1 DEF IInv, TaskInv
  <2> QED
    BY <1>0, <1>1, <1>13, <1>14, <2>1 DEF TodoInv
<1>16. Passed' = Passed
  <2>1. ASSUME NEW i \in 1..(m + n), facts'.laps[i].frame <= runner.frame PROVE i \in 1..m
    <3>1. facts'.laps[i].frame # f
      BY <1>0, <1>14, <2>1
    <3> QED
      BY <1>8, <3>1
  <2> QED
    BY <1>6, <1>7, <1>9, <1>13, <2>1 DEF Passed, Old
<1>17. CountInv'
  <2>1. ASSUME seen.clean \subseteq Passed, NEW x
        PROVE  {i \in seen.clean : facts'.laps[i].frame >= x} = {i \in seen.clean : facts.laps[i].frame >= x}
    <3>1. \A i \in Passed : facts'.laps[i] = facts.laps[i]
      BY <1>6, <1>9 DEF Passed
    <3> QED
      BY <2>1, <3>1
  <2> QED
    BY <1>0, <1>13, <1>16, <2>1 DEF CountInv
<1>18. ChartInv'
  BY <1>0, <1>13, <1>14 DEF ChartInv
<1> QED
  BY <1>10, <1>11, <1>12, <1>15, <1>17, <1>18 DEF CInv

\* The steps of the task that commit and evaluate nothing.
LEMMA TaskCounts ==
    ASSUME IInv, CInv, Replay \/ MetricsFault \/ MarkProcessed \/ Disconnect \/ Crash
    PROVE  CInv'
<1>0. /\ task = [pc |-> task.pc, frame |-> task.frame, live |-> task.live, replay |-> task.replay]
      /\ LapsInv /\ FlagsInv /\ GapInv /\ TodoInv /\ runner.frame \in Nat
  BY LenProperties DEF IInv, CInv, TaskInv, CursorInv, Now
<1>1. UNCHANGED <<frames, facts, gaps, tables, seen>> /\ todo' \subseteq todo
  BY DEF Replay, MetricsFault, MarkProcessed, Disconnect, Crash, env
<1>2. LapsInv' /\ FlagsInv' /\ CountInv' /\ ChartInv'
  BY <1>1, QuietCounts
<1>3. net' = net \/ net' = [net EXCEPT !.open = FALSE]
  BY DEF Replay, MetricsFault, MarkProcessed, Disconnect, Crash, env
<1>4. GapInv'
  <2>1. net' = net \/ net' = [open |-> FALSE, run |-> net.run]
    BY <1>0, <1>3 DEF GapInv
  <2> QED
    BY <1>0, <1>1, <2>1 DEF GapInv
<1>5. /\ runner' = runner /\ facts' = facts /\ seen' = seen /\ Stint' = Stint /\ OpenGap' = OpenGap
      /\ ((\A i \in DOMAIN facts.laps : Old(i)) => \A i \in DOMAIN facts'.laps : Old(i)')
  BY <1>1, FactsKept DEF tables, Old
<1>6. ASSUME task'.replay \subseteq todo',
             task'.pc \in {"metrics", "mark"} => task'.frame \in todo' \ task'.replay,
             task'.pc = "metrics" => ~task'.live,
             runner.frame \in todo' =>
               task'.pc = "down" \/ runner.frame \in task'.replay \/ (task'.pc \in {"metrics", "mark"} /\ task'.frame = runner.frame)
      PROVE  TodoInv'
  BY <1>0, <1>1, <1>5, <1>6 DEF TodoInv
<1>7. TodoInv'
  <2>1. CASE Replay
    <3>1. PICK f \in task.replay : task' = [pc |-> "metrics", frame |-> f, live |-> FALSE, replay |-> task.replay \ {f}]
      BY <2>1 DEF Replay
    <3>2. todo' = todo /\ task.pc = "idle"
      BY <2>1 DEF Replay
    <3> QED
      BY <1>0, <1>6, <3>1, <3>2 DEF TodoInv
  <2>2. CASE Crash \/ (MetricsFault /\ ~task.live)
    <3>1. task' = NoTask /\ todo' = todo
      BY <2>2 DEF Crash, MetricsFault
    <3>2. task' = [pc |-> "down", frame |-> None, live |-> FALSE, replay |-> {}]
      BY <3>1 DEF NoTask
    <3> QED
      BY <1>6, <3>1, <3>2
  <2>3. CASE MetricsFault /\ task.live
    <3>1. task' = Idle({}) /\ todo' = todo /\ task.pc = "metrics"
      BY <2>3 DEF MetricsFault
    <3>2. task' = [pc |-> "idle", frame |-> None, live |-> FALSE, replay |-> {}]
      BY <3>1 DEF Idle, NoTask
    <3>3. runner.frame \notin todo
      <4>1. task.frame \in Nat /\ runner.frame < task.frame /\ task.replay = {}
        BY <1>0, <2>3, <3>1, LenProperties DEF TodoInv, IInv, TaskInv, Now
      <4>2. task.frame # runner.frame
        BY <1>0, <4>1
      <4> QED
        BY <1>0, <3>1, <4>1, <4>2 DEF TodoInv
    <3> QED
      BY <1>6, <3>1, <3>2, <3>3
  <2>4. CASE MarkProcessed
    <3>1. task' = Idle(task.replay) /\ todo' = todo \ {task.frame} /\ task.pc = "mark"
      BY <2>4 DEF MarkProcessed
    <3>2. task' = [pc |-> "idle", frame |-> None, live |-> FALSE, replay |-> task.replay]
      BY <3>1 DEF Idle, NoTask
    <3> QED
      BY <1>0, <1>6, <3>1, <3>2 DEF TodoInv
  <2>5. CASE Disconnect
    <3>1. task' = task /\ todo' = todo /\ task.pc = "idle"
      BY <2>5 DEF Disconnect
    <3> QED
      BY <1>0, <1>6, <3>1 DEF TodoInv
  <2> QED
    BY <2>1, <2>2, <2>3, <2>4, <2>5
<1> QED
  BY <1>2, <1>4, <1>7 DEF CInv

\* What is said of an open gap, for the next state too.
OpenGapNamed == \A h \in gaps : h.to = None => OpenGap = h.from /\ OpenGap # None
LEMMA OpenGapOpen == GapInv => OpenGapNamed
BY OpenGapIs DEF OpenGapNamed

\* The steps that open a gap.
LEMMA GapCounts ==
    ASSUME IInv, CInv, RecordGap \/ Restart
    PROVE  CInv'
<1> DEFINE Opened(x) == gaps' = gaps \cup {[from |-> x, to |-> None]} /\ OpenGap = None /\ x \in Nat \ {0}
<1>0. /\ LapsInv /\ FlagsInv /\ GapInv /\ TodoInv /\ runner.frame \in Nat /\ Now \in Nat /\ frames \in Seq(Nat)
  BY LenProperties DEF IInv, CInv, TaskInv, CursorInv, Now
<1>1. UNCHANGED <<frames, facts, todo, tables, seen>> /\ runner' = runner /\ facts' = facts /\ seen' = seen
  BY DEF RecordGap, Restart, tables
<1>2. frames # <<>> => Now \in Nat \ {0}
  BY <1>0, EmptySeq, LenProperties DEF Now
<1>3. /\ net' = [open |-> net'.open, run |-> net'.run] /\ net'.run \in Nat \ {0} /\ (net'.open => frames # <<>>)
  <2>1. CASE RecordGap
    BY <1>0, <2>1 DEF RecordGap, GapInv
  <2>2. CASE Restart
    <3>1. net' = [open |-> FALSE, run |-> Max({1, Now})]
      BY <2>2 DEF Restart
    <3>2. Max({1, Now}) \in Nat \ {0}
      BY <1>0, GreaterOfTwo
    <3> QED
      BY <3>1, <3>2
  <2> QED
    BY <2>1, <2>2
<1>4. gaps' = gaps \/ \E x : Opened(x)
  <2>1. CASE RecordGap
    <3>1. Opened(Now)
      BY <1>2, <2>1 DEF RecordGap
    <3> QED
      BY <3>1
  <2>2. CASE Restart
    <3>1. ASSUME OpenGap = None PROVE Opened(IF net.open THEN Now ELSE net.run)
      BY <1>0, <1>2, <2>2, <3>1 DEF Restart, GapInv
    <3> QED
      BY <2>2, <3>1 DEF Restart
  <2> QED
    BY <2>1, <2>2
<1>5. GapInv'
  <2>1. CASE gaps' = gaps
    BY <1>0, <1>1, <1>3, <2>1 DEF GapInv
  <2>2. CASE \E x : Opened(x)
    <3>1. PICK x : Opened(x)
      BY <2>2
    <3>2. \A h \in gaps : h.to # None
      BY <1>0, <3>1, OpenGapIs
    <3> QED
      BY <1>0, <1>1, <1>3, <3>1, <3>2 DEF GapInv
  <2> QED
    BY <1>4, <2>1, <2>2
<1>6. gaps' = gaps \/ (OpenGap = None /\ OpenGap' # None)
  <2>1. ASSUME NEW x, Opened(x) PROVE OpenGap' # None
    <3>1. OpenGapNamed'
      BY <1>5, OpenGapOpen, PTL
    <3>2. [from |-> x, to |-> None] \in gaps'
      BY <2>1
    <3> QED
      BY <3>1, <3>2 DEF OpenGapNamed
  <2> QED
    BY <1>4, <2>1
<1>7. ASSUME RecordGap PROVE runner.frame \notin todo
  BY <1>0, <1>7 DEF RecordGap, TodoInv
<1>8. runner.frame \in todo => runner.b.gap \in {None, OpenGap'}
  BY <1>0, <1>6 DEF TodoInv, OpenGap
<1>9. LapsInv' /\ FlagsInv' /\ CountInv' /\ ChartInv'
  <2>1. gaps' = gaps \/ runner.frame \notin todo' \/ runner.b.gap # OpenGap'
    <3>1. ASSUME runner.frame \in todo, gaps' # gaps PROVE runner.b.gap = None /\ OpenGap' # None
      BY <1>0, <1>6, <3>1 DEF TodoInv
    <3> QED
      BY <1>1, <3>1
  <2> QED
    BY <1>1, <2>1, QuietCounts
<1>10. Stint' = Stint /\ ((\A i \in DOMAIN facts.laps : Old(i)) => \A i \in DOMAIN facts'.laps : Old(i)')
  BY <1>1 DEF Stint, Old
<1>11. TodoInv'
  <2>1. CASE RecordGap
    <3>1. task' = task /\ task.pc = "idle" /\ task.replay = {}
      BY <2>1 DEF RecordGap
    <3> QED
      BY <1>0, <1>1, <1>7, <2>1, <3>1 DEF TodoInv
  <2>2. CASE Restart
    <3>1. task' = [pc |-> "idle", frame |-> None, live |-> FALSE, replay |-> todo]
      BY <2>2 DEF Restart, Idle, NoTask
    <3> QED
      BY <1>0, <1>1, <1>8, <1>10, <3>1 DEF TodoInv
  <2> QED
    BY <2>1, <2>2
<1> QED
  BY <1>5, <1>9, <1>11 DEF CInv

LEMMA InitCounts == Init => CInv
<1> SUFFICES ASSUME Init PROVE CInv
  OBVIOUS
<1>0. /\ facts = [state |-> "none", laps |-> <<>>, pits |-> <<>>, flags |-> {[flag |-> "GREEN", from |-> 1, to |-> None]}]
      /\ gaps = {} /\ todo = {} /\ net = [open |-> FALSE, run |-> 1]
      /\ task = [pc |-> "idle", frame |-> None, live |-> FALSE, replay |-> {}]
      /\ runner = [frame |-> None, b |-> NoBoundary]
      /\ current = [frame |-> None, val |-> [observed |-> 0, clean |-> 0, stint |-> 0]]
      /\ samples = [session |-> {}, car |-> {}]
      /\ seen = [clean |-> {}, revised |-> FALSE, ahead |-> FALSE]
  BY DEF Init, Idle, NoTask, NoValues
<1>1. facts.laps = <<>> /\ DOMAIN facts.laps = {}
  BY <1>0
<1>2. LapsInv
  BY <1>0, <1>1, EmptySeq DEF LapsInv, States
<1>3. FlagsInv /\ GapInv /\ TodoInv
  <2>1. FlagsInv
    <3> DEFINE p0 == [flag |-> "GREEN", from |-> 1, to |-> None]
    <3>1. facts.flags = {p0}
      BY <1>0
    <3>2. p0.to = None /\ p0 = [flag |-> p0.flag, from |-> p0.from, to |-> p0.to] /\ p0.flag \in {"GREEN", "CAUTION"}
      OBVIOUS
    <3> HIDE DEF p0
    <3> QED
      BY <3>1, <3>2 DEF FlagsInv
  <2>2. GapInv
    BY <1>0 DEF GapInv
  <2>3. runner.frame = None
    BY <1>0
  <2>4. TodoInv
    BY <1>0, <2>3 DEF TodoInv
  <2> QED
    BY <2>1, <2>2, <2>4
<1>4. CountInv
  <2>1. Passed = {} /\ {i \in {} : facts.laps[i].frame >= runner.b.pit[2]} = {} /\ Cardinality({}) = 0
    BY <1>1, FS_EmptySet DEF Passed
  <2>2. current.frame = 0 /\ runner.frame = 0 /\ seen.clean = {}
    BY <1>0 DEF None
  <2>3. /\ current.val \in [observed : Nat, clean : Nat, stint : Nat]
        /\ current.val.observed = 0 /\ current.val.clean = 0 /\ current.val.stint = 0
    BY <1>0
  <2> QED
    BY <2>1, <2>2, <2>3 DEF CountInv
<1>5. ChartInv
  BY <1>0 DEF ChartInv, None
<1> QED
  BY <1>2, <1>3, <1>4, <1>5 DEF CInv

LEMMA StepCounts == IInv /\ CInv /\ [Next]_vars => CInv'
<1> SUFFICES ASSUME IInv, CInv, [Next]_vars PROVE CInv'
  OBVIOUS
<1>1. CASE \E n \in 0..2 : Frame(n) \/ FrameWithChange(n)
  <2>1. PICK n \in 0..2 : Frame(n) \/ FrameWithChange(n)
    BY <1>1
  <2>2. n \in Nat
    OBVIOUS
  <2>3. \E new : (new = facts \/ new \in Changes(Now + 1)) /\ CommitFacts(n, new)
    BY <2>1 DEF Frame, FrameWithChange
  <2> QED
    BY <2>2, <2>3, CommitCounts
<1>2. CASE Metrics
  BY <1>2, MetricsCountInvariant
<1>3. CASE Replay \/ MetricsFault \/ MarkProcessed \/ Disconnect \/ Crash
  BY <1>3, TaskCounts
<1>4. CASE RecordGap \/ Restart
  BY <1>4, GapCounts
<1>5. CASE UNCHANGED vars
  <2>1. UNCHANGED <<env, task, todo, tables, seen>> /\ UNCHANGED <<frames, facts, gaps, net, runner, current, samples>>
    BY <1>5 DEF vars, env, tables
  <2>2. LapsInv' /\ FlagsInv' /\ CountInv' /\ ChartInv'
    BY <2>1, QuietCounts
  <2>3. GapInv'
    BY <2>1 DEF CInv, GapInv
  <2>4. TodoInv'
    BY <2>1 DEF CInv, TodoInv, Stint, OpenGap, Old
  <2> QED
    BY <2>2, <2>3, <2>4 DEF CInv
<1> QED
  BY <1>1, <1>2, <1>3, <1>4, <1>5 DEF Next

THEOREM CountInvariance == Spec => [](IInv /\ CInv)
BY InitInvariant, StepInvariant, InitCounts, StepCounts, PTL DEF Spec

\* A bounded tail and the stored counts give what the whole history gives, for any number of
\* frames, laps, changes and failures and any length of the tail.
THEOREM CountsTheorem == Spec => []CountsWhole
<1>1. IInv /\ CInv => CountsWhole
  <2> SUFFICES ASSUME IInv, CInv, current.frame = runner.frame, ~ seen.ahead
               PROVE  /\ current.val.observed = Cardinality({i \in DOMAIN facts.laps : facts.laps[i].frame <= runner.frame})
                      /\ ~ seen.revised => current.val.clean = Cardinality(seen.clean)
                      /\ ~ seen.revised /\ task.pc = "mark" /\ task.frame = runner.frame =>
                           current.val.stint = Cardinality({i \in seen.clean : facts.laps[i].frame >= Stint})
    BY DEF CountsWhole
  <2>1. CountInv /\ TodoInv
    BY DEF CInv
  <2>2. current.val.observed = Cardinality({i \in DOMAIN facts.laps : facts.laps[i].frame <= runner.frame})
    BY <2>1 DEF CountInv, Passed, Old
  <2>3. ASSUME ~seen.revised, task.pc = "mark", task.frame = runner.frame
        PROVE  current.val.stint = Cardinality({i \in seen.clean : facts.laps[i].frame >= Stint})
    <3>1. runner.b.pit = <<facts.pits, Stint>>
      BY <2>1, <2>3 DEF TodoInv
    <3>2. runner.b.pit[2] = Stint
      BY <3>1
    <3> QED
      BY <2>1, <2>3, <3>2 DEF CountInv
  <2> QED
    BY <2>1, <2>2, <2>3 DEF CountInv
<1> QED
  BY <1>1, CountInvariance, PTL

\* A frame that is evaluated again, or after a later one, moves no cursor and changes no
\* outbox row, no keyframe and, unless the cursor's boundary state has not seen the car and
\* the heat has, no current row; the frame at the cursor changes no tick, and no chart if the
\* heat is as the cursor saw it and its counts hold no lap of a later frame.
THEOREM RetryTheorem == Spec => RetryIsNoOp
<1>1. ASSUME IInv, CInv, [Next]_vars
      PROVE  [(task.pc = "metrics" /\ task'.pc = "mark" /\ task.frame <= runner.frame)
               => /\ UNCHANGED <<runner, playback, outbox>>
                  /\ Seen(runner.b) \/ runner.b = Boundary => UNCHANGED current
                  /\ runner.frame = task.frame => UNCHANGED ticks
                  /\ runner.b = Boundary /\ runner.frame = task.frame /\ ~ seen.ahead => UNCHANGED samples]_vars
  <2> SUFFICES ASSUME task.pc = "metrics", task'.pc = "mark", task.frame <= runner.frame
               PROVE  /\ UNCHANGED <<runner, playback, outbox>>
                      /\ Seen(runner.b) \/ runner.b = Boundary => UNCHANGED current
                      /\ runner.frame = task.frame => UNCHANGED ticks
                      /\ runner.b = Boundary /\ runner.frame = task.frame /\ ~ seen.ahead => UNCHANGED samples
    OBVIOUS
  <2>0. task.frame \in Nat /\ runner.frame \in Nat /\ current.frame \in Nat /\ Now \in Nat /\ task.frame # None
    BY <1>1, LenProperties DEF IInv, TaskInv, CursorInv, CurrentInv, Now
  <2>1. Metrics
    <3>1. task'.pc # task.pc
      OBVIOUS
    <3>2. ~UNCHANGED vars /\ ~Disconnect /\ ~RecordGap
      BY <3>1 DEF vars, Disconnect, RecordGap
    <3>3. /\ \A n \in 0..2 : ~Frame(n) /\ ~FrameWithChange(n)
          /\ ~Replay /\ ~MarkProcessed /\ ~Restart
      BY DEF Frame, FrameWithChange, CommitFacts, Replay, MarkProcessed, Restart
    <3>4. ~MetricsFault /\ ~Crash
      <4>1. NoTask.pc = "down" /\ Idle({}).pc = "idle"
        BY DEF NoTask, Idle
      <4> QED
        BY <4>1 DEF MetricsFault, Crash
    <3> QED
      BY <1>1, <3>2, <3>3, <3>4 DEF Next
  <2>2. UNCHANGED <<runner, playback, outbox>>
    BY <1>1, <2>0, <2>1, MetricsStays
  <2>3. ASSUME Seen(runner.b) \/ runner.b = Boundary PROVE current' = current
    BY <1>1, <2>0, <2>1, <2>3, MetricsBehind
  <2>6. ASSUME runner.frame = task.frame PROVE ticks' = ticks
    <3> DEFINE f == task.frame
               s == SecondOf(f)
    <3>1. ticks' = [ticks EXCEPT ![s] = Max({ticks[s], f})] /\ ticks = [t \in DOMAIN ticks |-> ticks[t]]
      BY <1>1, <2>1, MetricsWrites DEF IInv, SecondInv
    <3>2. ASSUME s \in DOMAIN ticks PROVE Max({ticks[s], f}) = ticks[s]
      <4>1. ticks[s] \in Nat /\ ticks[s] >= f
        BY <1>1, <2>0, <2>6, <3>2 DEF IInv, SecondInv
      <4>2. /\ Max({ticks[s], f}) \in {ticks[s], f} /\ Max({ticks[s], f}) >= ticks[s]
        BY <2>0, <4>1, GreaterOfTwo
      <4> QED
        BY <2>0, <4>1, <4>2
    <3> HIDE DEF f, s
    <3> QED
      BY <3>1, <3>2
  <2>7. ASSUME runner.b = Boundary, runner.frame = task.frame, ~ seen.ahead PROVE samples' = samples
    <3> DEFINE car == IF Seen(Boundary) THEN Values ELSE NoValues
               point == SessionPoint(Boundary, car)
    <3>1. runner.frame \in todo
      BY <1>1, <2>7 DEF CInv, TodoInv
    <3>2. /\ Quiet(samples["session"], runner.frame, point) = samples["session"]
          /\ Seen(Boundary) => Quiet(samples["car"], runner.frame, car) = samples["car"]
      BY <1>1, <2>7, <3>1 DEF CInv, ChartInv
    <3>3. EventKeys(Previous, Boundary) = {}
      <4>1. Previous = Boundary
        BY <1>1, <2>7, PreviousIsStored DEF IInv
      <4>2. Boundary # NoBoundary
        BY <1>1, BoundarySomething DEF CInv
      <4> QED
        BY <4>1, <4>2 DEF EventKeys, Car
    <3>4. PICK e, d : /\ EventKeys(Previous, Boundary) = {} => ~e /\ ~d
                      /\ samples'["session"] = Sampled(samples["session"], task.frame, point, e)
                      /\ samples'["car"] = IF Seen(Boundary) THEN Sampled(samples["car"], task.frame, car, d) ELSE samples["car"]
      BY <1>1, <2>1, MetricsPoints
    <3> HIDE DEF car, point
    <3>5. samples'["session"] = samples["session"]
      BY <2>7, <3>2, <3>3, <3>4, SampledQuietly
    <3>6. samples'["car"] = samples["car"]
      BY <2>7, <3>2, <3>3, <3>4, SampledQuietly
    <3>7. /\ samples' = [session |-> samples'["session"], car |-> samples'["car"]]
          /\ samples = [session |-> samples["session"], car |-> samples["car"]]
      BY <1>1, <2>1 DEF Metrics, ProcessFrame, CInv, ChartInv
    <3> QED
      BY <3>5, <3>6, <3>7
  <2> QED
    BY <2>2, <2>3, <2>6, <2>7
<1> QED
  BY <1>1, CountInvariance, PTL DEF Spec, RetryIsNoOp

=============================================================================
