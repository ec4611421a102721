----------------------------- MODULE MetricRunner -----------------------------
(***************************************************************************)
(* The metrics of one heat and one car, in a layout without LAPS: what     *)
(* TimingMetricRunner (metric_runner.py) makes of a frame whose facts are  *)
(* committed.  It loads the facts, with the whole history of laps or, when *)
(* nothing the old counts rest on has changed, with a bounded tail of it   *)
(* and the counts stored before (metric_store.py); it compares the heat    *)
(* with the boundary state of the last evaluation to find the events       *)
(* (metric_engine.py); and it writes the current values, the sparse chart, *)
(* the archive keyframes, the outbox and the boundary state in one         *)
(* transaction.                                                            *)
(*                                                                         *)
(* The facts are inputs here, abstracted from LapChronology, PitStints,    *)
(* FlagTimeline and the ingest store: they are committed frame by frame,   *)
(* in order.  The worker may die between any two transactions, and a       *)
(* metric transaction may raise; a frame that was not marked processed is  *)
(* replayed by the next run, after the restart gap is recorded.            *)
(***************************************************************************)
EXTENDS Integers, Sequences, SequencesExt, FiniteSets, FiniteSetsExt

CONSTANTS
  TailLaps,   \* METRIC_INPUT_TAIL_LAPS
  Second,     \* ticks per second: one chart point and one keyframe each
  Interval,   \* METRIC_SAMPLE_INTERVAL_US and PLAYBACK_SNAPSHOT_INTERVAL_US
  MaxFrames,  \* bound on the frames
  MaxLaps,    \* bound on the laps
  MaxChanges, \* bound on the frames that change something else
  MaxFailures \* bound on deaths of the worker, metric transactions that raise, and lost connections

ASSUME MetricRunnerAssumption ==
  /\ {TailLaps, Second, Interval} \subseteq Nat \ {0}
  /\ {MaxFrames, MaxLaps, MaxChanges, MaxFailures} \subseteq Nat

None == 0                      \* SQL NULL: times, ids and frames are positive

VARIABLES
  frames,   \* feed_frames: receive times, which increase
  facts,    \* [state, laps, flags, pits]: what the normalizer has committed
  gaps,     \* ingest_gaps: a set of [from, to]
  net,      \* [open, run]: a connection is open; when the ingest run began
  task,     \* [pc, frame, live, replay]: the session's run, "down" when there is none
  todo,     \* frames not marked processed
  mem,      \* self._previous: a boundary state, or NoBoundary
  ticks,    \* state_ticks: second -> frame, or None
  runner,   \* metric_runner_state: [frame, b]; no row has frame None
  current,  \* metric_current of the car: [frame, val]; no row has frame None
  samples,  \* metric_samples: scope -> set of [sec, frame, val]
  playback, \* playback_snapshots: set of [sec, frame, event]
  outbox,   \* stream_events: sequence of [frame, keys, b]
  seen,     \* history: [clean, revised, ahead], what the stored counts rest on
  budget    \* [changes, failures] left

env    == <<frames, facts, gaps, net>>
tables == <<ticks, runner, current, samples, playback, outbox>>
vars   == <<env, task, todo, mem, tables, seen, budget>>

Now == Len(frames)             \* one tick per frame: frame n is received at n
Overlaps(s, e, from, to) == from < e /\ (to = None \/ to > s)
-----------------------------------------------------------------------------
(* Facts: the confirmed LAST cells and what decides whether a lap is clean *)

GreenCovers(s, e) ==
  /\ s < e
  /\ \A p \in facts.flags : p.flag # "GREEN" => ~ Overlaps(s, e, p.from, p.to)
  /\ \A t \in s..(e - 1) : \E p \in facts.flags : p.from <= t /\ (p.to = None \/ t < p.to)

(* is_clean of lap i when the laps from number first on are loaded: the first
   of them has no predecessor to measure from. *)
IsClean(i, first) ==
  /\ i > first /\ facts.laps[i].state = "ON_TRACK"
  /\ LET s == facts.laps[i - 1].frame
         e == facts.laps[i].frame
     IN /\ \A k \in DOMAIN facts.pits :
             facts.pits[k].out # None => ~ Overlaps(s, e, facts.pits[k].in, facts.pits[k].out)
        /\ \A g \in gaps : ~ Overlaps(s, e, g.from, g.to)
        /\ GreenCovers(s, e)

CurrentFlag == CHOOSE p \in facts.flags : p.to = None
OpenGap     == Max({None} \cup {g.from : g \in {g \in gaps : g.to = None}})
Stint       == Max({None} \cup {facts.pits[k].out : k \in DOMAIN facts.pits})   \* start of the open stint

(* build_boundary_state *)
Boundary == [flag |-> [flag |-> CurrentFlag.flag, from |-> CurrentFlag.from],
             gap |-> OpenGap, state |-> facts.state, lap |-> Len(facts.laps),
             pit |-> <<facts.pits, Stint>>]
NoBoundary == [flag |-> [flag |-> "none", from |-> None], gap |-> None, state |-> "none",
               lap |-> 0, pit |-> <<<<>>, None>>]
Car == {"state", "lap", "pit"}
Seen(b) == b.state # "none"

(* detect_event_boundaries *)
EventKeys(prior, b) ==
  IF prior = NoBoundary THEN {"initial"}
  ELSE {d \in {"flag", "gap"} : prior[d] # b[d]}
       \cup (IF Seen(prior) # Seen(b) THEN {"roster"} ELSE {d \in Car : prior[d] # b[d]})

(* _event_scopes: the car is ours, so that what happens to it happens to the session. *)
EventScopes(keys) ==
  (IF keys # {} THEN {"session"} ELSE {})
  \cup (IF keys \cap (Car \cup {"initial", "roster"}) # {} THEN {"car"} ELSE {})
-----------------------------------------------------------------------------
(* Loading: the whole history, or a tail and the stored counts *)

(* _checkpoint_dependencies_unchanged *)
DependenciesUnchanged ==
  /\ runner.frame # None
  /\ \A d \in {"flag", "gap", "state", "pit"} : runner.b[d] = Boundary[d]
  /\ Seen(Boundary) => current.frame # None

Old(i)  == facts.laps[i].frame <= runner.frame
NewLaps == Cardinality({i \in DOMAIN facts.laps : ~ Old(i)})

(* Mutant: as many new laps as the tail holds leave the first without a predecessor. *)
BoundedFull == DependenciesUnchanged /\ NewLaps <= TailLaps

Bounded == DependenciesUnchanged /\ NewLaps < TailLaps

FirstLap == IF Bounded THEN Max({1, Len(facts.laps) - TailLaps + 1}) ELSE 1

(* A count over the loaded laps P, with the stored count less the loaded laps
   that it already holds (_pace_with_prefix). *)
WithPrefix(P, stored) ==
  Cardinality(P) + (IF Bounded THEN Max({0, stored - Cardinality({i \in P : Old(i)})}) ELSE 0)

(* evaluate_heat_metrics, as far as the counts go: laps, clean laps, clean laps of the stint. *)
Values ==
  LET tail  == FirstLap..Len(facts.laps)
      clean == {i \in tail : IsClean(i, FirstLap)}
  IN [observed |-> WithPrefix(tail, current.val.observed),
      clean    |-> WithPrefix(clean, current.val.clean),
      stint    |-> WithPrefix({i \in clean : facts.laps[i].frame >= Stint}, current.val.stint)]

NoValues == [observed |-> 0, clean |-> 0, stint |-> 0]
-----------------------------------------------------------------------------
(* materialize_metric_samples, for frame f *)

SecondOf(f) == f \div Second
Bucket(f)   == f \div Interval
RowAt(rows, sec)     == {r \in rows : r.sec = sec}
RowBefore(rows, sec) == {r \in rows : r.sec < sec /\ \A q \in rows : q.sec < sec => q.sec <= r.sec}

Periodic(rows, f) == \A r \in RowBefore(rows, SecondOf(f)) : Bucket(f) > Bucket(r.frame)

(* The sparse chart of one scope: a changed value is kept at an event or in a new bucket,
   and the later frame of a second takes its point. *)
Sampled(rows, f, val, event) ==
  LET exact  == RowAt(rows, SecondOf(f))
      before == RowBefore(rows, SecondOf(f))
      same   == \/ \E r \in exact : r.val = val
                \/ exact = {} /\ \E r \in before : r.val = val
  IN IF same \/ ~ (event \/ Periodic(rows, f)) \/ \E r \in exact : f <= r.frame THEN rows
     ELSE (rows \ exact) \cup {[sec |-> SecondOf(f), frame |-> f, val |-> val]}

(* The archive keyframe of a second; an event in it stays marked. *)
Snapshotted(rows, f, event) ==
  LET exact == RowAt(rows, SecondOf(f))
  IN IF ~ (event \/ Periodic(rows, f)) \/ \E r \in exact : f <= r.frame THEN rows
     ELSE (rows \ exact) \cup {[sec |-> SecondOf(f), frame |-> f, event |-> event \/ \E r \in exact : r.event]}

PlaybackKeys == {"flag", "gap", "lap", "pit"}      \* _is_playback_boundary

(* _observation_rank: frames are ranked by receive time, and no row is before all of them. *)
Newer(row, f) == f > row.frame

(* Mutant: whatever is evaluated last is current. *)
RefreshedAlways(f, b, val) == IF Seen(b) THEN [frame |-> f, val |-> val] ELSE current

Refreshed(f, b, val) == IF Seen(b) /\ Newer(current, f) THEN [frame |-> f, val |-> val] ELSE current

(* Mutant: a new process does not look for the stored boundary state. *)
PreviousInMemory == mem

Previous == IF mem # NoBoundary THEN mem ELSE runner.b

(* History of the stored counts: the laps a full load calls clean, whether one that
   was counted before has changed its verdict since the last full load, and whether
   the frame was evaluated when laps of later frames were already committed. *)
CleanLaps == {i \in DOMAIN facts.laps : IsClean(i, 1)}
LapsAfter(f) == {i \in DOMAIN facts.laps : facts.laps[i].frame > f}

(* TimingMetricRunner.process_frame: read, evaluate, write. *)
ProcessFrame(f) ==
  LET b       == Boundary
      keys    == EventKeys(Previous, b)
      scopes  == EventScopes(keys)
      car     == IF Seen(b) THEN Values ELSE NoValues
      written == Newer(runner, f)
      revised == {i \in DOMAIN facts.laps : Old(i) /\ (i \in CleanLaps) # (i \in seen.clean)}
  IN /\ current' = Refreshed(f, b, car)
     /\ ticks' = [ticks EXCEPT ![SecondOf(f)] = Max({@, f})]
     /\ samples' = [session |-> Sampled(samples["session"], f, <<b.flag, b.gap, b.state, car>>, "session" \in scopes),
                    car |-> IF Seen(b) THEN Sampled(samples["car"], f, car, "car" \in scopes) ELSE samples["car"]]
     /\ IF written
          THEN /\ runner' = [frame |-> f, b |-> b] /\ mem' = b
               /\ outbox' = Append(outbox, [frame |-> f, keys |-> keys, b |-> b])
               /\ playback' = Snapshotted(playback, f, keys \cap PlaybackKeys # {})
               /\ seen' = [clean   |-> CleanLaps,
                           revised |-> Bounded /\ (seen.revised \/ revised # {}),
                           ahead   |-> LapsAfter(f) # {} \/ (Bounded /\ seen.ahead)]
          ELSE /\ mem' = Previous /\ UNCHANGED <<runner, outbox, playback, seen>>
-----------------------------------------------------------------------------
(* The provider and the normalizer: what a frame may change, and its laps *)

Entered(f) == [facts EXCEPT !.state = "IN_PIT", !.pits = Append(@, [in |-> f, out |-> None])]
Left(f)    == [facts EXCEPT !.state = "OUT_LAP", !.pits[Len(facts.pits)].out = f]
Flagged(f) ==
  LET p == CurrentFlag
      next == IF p.flag = "GREEN" THEN "CAUTION" ELSE "GREEN"
  IN [facts EXCEPT !.flags = (@ \ {p}) \cup {[p EXCEPT !.to = f], [flag |-> next, from |-> f, to |-> None]}]

(* Statistics tell of a caution the live flags missed.  It ends the green period
   it falls into; green follows it only where that period was the current one. *)
Learned(p, s, e) ==
  [facts EXCEPT !.flags = (@ \ {p}) \cup {[p EXCEPT !.to = s], [flag |-> "CAUTION", from |-> s, to |-> e]}
                          \cup (IF p.to = None THEN {[p EXCEPT !.from = e]} ELSE {})]

Changes(f) ==
  (CASE facts.state = "none"     -> {[facts EXCEPT !.state = "ON_TRACK"]}
     [] facts.state = "ON_TRACK" -> {Entered(f)}
     [] facts.state = "IN_PIT"   -> {Left(f)}
     [] facts.state = "OUT_LAP"  -> {[facts EXCEPT !.state = "ON_TRACK"]})
  \cup {Flagged(f)}
  \cup {Learned(x[1], x[2], x[2] + 1) :
          x \in {x \in facts.flags \X (1..f) : /\ x[1].flag = "GREEN" /\ x[1].from < x[2] /\ x[2] < f
                                               /\ x[1].to = None \/ x[2] < x[1].to}}

Lap(f, state) == [frame |-> f, state |-> state]

(* A frame is stored and its facts are committed: n LAST cells, and perhaps
   another change.  The first frame of a connection ends the open gap. *)
CommitFacts(n, new) ==
  LET f == Now + 1
  IN /\ task.pc = "idle" /\ task.replay = {} /\ f <= MaxFrames
     /\ net.open \/ OpenGap # None \/ frames = <<>>
     /\ n > 0 => new.state # "none" /\ Len(facts.laps) + n <= MaxLaps
     /\ frames' = Append(frames, f)
     /\ facts' = [new EXCEPT !.laps = @ \o [k \in 1..n |-> Lap(f, new.state)]]
     /\ gaps' = {IF g.to = None THEN [g EXCEPT !.to = f] ELSE g : g \in gaps}
     /\ net' = [net EXCEPT !.open = TRUE]
     /\ task' = [task EXCEPT !.pc = "metrics", !.frame = f, !.live = TRUE]
     /\ todo' = todo \cup {f}
     /\ UNCHANGED <<mem, tables, seen>>

Frame(n) == CommitFacts(n, facts) /\ UNCHANGED budget
FrameWithChange(n) ==
  /\ budget.changes > 0 /\ budget' = [budget EXCEPT !.changes = @ - 1]
  /\ \E new \in Changes(Now + 1) : CommitFacts(n, new)

(* Replay normalises the frames again, in id order, which changes no fact. *)
Replay ==
  /\ task.pc = "idle"
  /\ \E f \in task.replay :
       /\ \A g \in task.replay : f <= g
       /\ task' = [pc |-> "metrics", frame |-> f, live |-> FALSE, replay |-> task.replay \ {f}]
  /\ UNCHANGED <<env, todo, mem, tables, seen, budget>>

Metrics ==
  /\ task.pc = "metrics" /\ ProcessFrame(task.frame)
  /\ task' = [task EXCEPT !.pc = "mark"]
  /\ UNCHANGED <<env, todo, budget>>

Fail   == budget.failures > 0 /\ budget' = [budget EXCEPT !.failures = @ - 1]
NoTask == [pc |-> "down", frame |-> None, live |-> FALSE, replay |-> {}]
Idle(replay) == [NoTask EXCEPT !.pc = "idle", !.replay = replay]

(* The transaction raises and the frame stays unmarked.  A live frame costs its
   connection; in the replay the run ends, and the process starts another. *)
MetricsFault ==
  /\ task.pc = "metrics" /\ Fail
  /\ task' = IF task.live THEN Idle({}) ELSE NoTask
  /\ net' = IF task.live THEN [net EXCEPT !.open = FALSE] ELSE net
  /\ UNCHANGED <<frames, facts, gaps, todo, mem, tables, seen>>

MarkProcessed ==
  /\ task.pc = "mark" /\ task' = Idle(task.replay) /\ todo' = todo \ {task.frame}
  /\ UNCHANGED <<env, mem, tables, seen, budget>>

(* The connection is closed; its gap is recorded by a transaction of its own. *)
Disconnect ==
  /\ task.pc = "idle" /\ net.open /\ net' = [net EXCEPT !.open = FALSE] /\ Fail
  /\ UNCHANGED <<frames, facts, gaps, task, todo, mem, tables, seen>>

RecordGap ==
  /\ task.pc = "idle" /\ task.replay = {} /\ ~ net.open /\ frames # <<>> /\ OpenGap = None
  /\ gaps' = gaps \cup {[from |-> Now, to |-> None]}
  /\ UNCHANGED <<frames, facts, net, task, todo, mem, tables, seen, budget>>

Crash ==
  /\ task.pc # "down" /\ Fail
  /\ task' = NoTask /\ mem' = NoBoundary
  /\ UNCHANGED <<env, todo, tables, seen>>

(* start_run: the restart gap begins at the last frame of the open connection, or
   with the run when there is none; then the frames to replay are read. *)
Restart ==
  /\ task.pc = "down"
  /\ gaps' = IF OpenGap # None THEN gaps
             ELSE gaps \cup {[from |-> IF net.open THEN Now ELSE net.run, to |-> None]}
  /\ net' = [open |-> FALSE, run |-> Max({1, Now})]
  /\ task' = Idle(todo)
  /\ UNCHANGED <<frames, facts, todo, mem, tables, seen, budget>>

Init ==
  /\ frames = <<>> /\ gaps = {} /\ net = [open |-> FALSE, run |-> 1]
  /\ facts = [state |-> "none", laps |-> <<>>, pits |-> <<>>,
              flags |-> {[flag |-> "GREEN", from |-> 1, to |-> None]}]
  /\ task = Idle({}) /\ todo = {}
  /\ mem = NoBoundary /\ ticks = [t \in SecondOf(1)..SecondOf(MaxFrames) |-> None]
  /\ runner = [frame |-> None, b |-> NoBoundary] /\ current = [frame |-> None, val |-> NoValues]
  /\ samples = [session |-> {}, car |-> {}] /\ playback = {} /\ outbox = <<>>
  /\ seen = [clean |-> {}, revised |-> FALSE, ahead |-> FALSE]
  /\ budget = [changes |-> MaxChanges, failures |-> MaxFailures]

Next ==
  \/ \E n \in 0..2 : Frame(n) \/ FrameWithChange(n)
  \/ Replay \/ Metrics \/ MetricsFault \/ MarkProcessed
  \/ Disconnect \/ RecordGap \/ Crash \/ Restart

Spec == Init /\ [][Next]_vars
-----------------------------------------------------------------------------
(* Properties *)

OneRowPerSecond(rows) == \A q, r \in rows : q.sec = r.sec => q = r

(* The tables hold one row per second and scope; a second's tick is its last
   evaluated frame; and memory is never ahead of what is stored. *)
TypeOK ==
  /\ task.pc \in {"idle", "metrics", "mark", "down"} /\ todo \subseteq 1..Now
  /\ mem \in {NoBoundary, runner.b}
  /\ \A t \in DOMAIN ticks : ticks[t] # None => SecondOf(ticks[t]) = t /\ ticks[t] <= Now
  /\ OneRowPerSecond(samples["session"]) /\ OneRowPerSecond(samples["car"]) /\ OneRowPerSecond(playback)

(* The outbox tells every change of the heat once: its rows are of increasing
   frames, and each names exactly what differs from the row before, although the
   worker was restarted in between, a frame was tried again or its transaction
   raised. *)
EventsTellChanges ==
  /\ \A i \in DOMAIN outbox :
       LET prior == IF i = 1 THEN NoBoundary ELSE outbox[i - 1].b
       IN /\ outbox[i].keys = EventKeys(prior, outbox[i].b)
          /\ i > 1 => outbox[i - 1].frame < outbox[i].frame
  /\ runner.frame # None => Last(outbox).b = runner.b /\ Last(outbox).frame = runner.frame

(* Every event of the track or of our car can be found in the archive: the
   keyframe of its second is marked and not older than the event. *)
AnchorsKept ==
  \A i \in DOMAIN outbox : outbox[i].keys \cap PlaybackKeys # {} =>
    \E r \in playback : r.sec = SecondOf(outbox[i].frame) /\ r.event /\ r.frame >= outbox[i].frame

MetricsConsistent == TypeOK /\ EventsTellChanges /\ AnchorsKept

(* A bounded tail and the stored counts give what the whole history gives: every
   lap is counted once, and the clean ones are those that a full load would call
   clean.  Two things the bounded load does not notice, and which last until the
   next full load, are excepted: a verdict behind the cursor that is revised (a
   caution learned late that leaves the current flag alone, a restart gap that
   reaches back), and a cursor whose counts already hold laps of later frames
   (frames whose metrics raised are replayed after the facts of the next ones).  A
   frame whose facts raised is the third, and is left out of the model: its laps
   are written at its replay, behind the cursor. *)
CountsWhole ==
  current.frame = runner.frame /\ ~ seen.ahead =>
    /\ current.val.observed = Cardinality({i \in DOMAIN facts.laps : facts.laps[i].frame <= runner.frame})
    /\ ~ seen.revised => current.val.clean = Cardinality(seen.clean)
    /\ ~ seen.revised /\ task.pc = "mark" /\ task.frame = runner.frame =>
         current.val.stint = Cardinality({i \in seen.clean : facts.laps[i].frame >= Stint})

(* "Retrying the same event is a no-op in both materializations": a frame that is
   evaluated again, or after a later one, moves no cursor and changes no outbox row,
   no keyframe, and no value of a car that the cursor has seen or that is as the
   cursor saw it.  The frame at the cursor moves no tick, and if the heat is still as
   it was when the frame was evaluated, no chart either, whichever way its laps are
   loaded: excepted is a cursor whose counts already hold laps of later frames, which
   a bounded load counts once more. *)
RetryIsNoOp ==
  [][(task.pc = "metrics" /\ task'.pc = "mark" /\ task.frame <= runner.frame)
       => /\ UNCHANGED <<runner, playback, outbox>>
          /\ Seen(runner.b) \/ runner.b = Boundary => UNCHANGED current
          /\ runner.frame = task.frame => UNCHANGED ticks
          /\ runner.b = Boundary /\ runner.frame = task.frame /\ ~ seen.ahead => UNCHANGED samples]_vars
=============================================================================
