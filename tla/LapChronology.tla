---------------------------- MODULE LapChronology ----------------------------
(***************************************************************************)
(* The laps of one car in one heat, in a layout without a LAPS column:     *)
(* tracker passings become canonical boundaries and laps                   *)
(* (src/server/timing/canonical_laps.py), a passing also completes a row   *)
(* of laps, and every LAST cell of the result grid is classified once its  *)
(* frame is complete and attached to the one pending lap whose tracker     *)
(* duration it repeats (normalizer_writer.py).  An operator may rebuild    *)
(* the canonical rows from what was kept.                                  *)
(*                                                                         *)
(* The provider is the true crossings of the finish line, those of the     *)
(* formation laps before green included, and the messages it sends about   *)
(* them.  The network groups messages into frames and a disconnect loses   *)
(* the ones not received; a frame is one transaction, and a frame whose    *)
(* handler raises is rolled back and is never passed.                      *)
(***************************************************************************)
EXTENDS Integers, Sequences, SequencesExt, FiniteSets, FiniteSetsExt

CONSTANTS
  StartWindow, \* START_SIGNAL_WINDOW_US in ticks
  LastWindow,  \* LAST_MATCH_WINDOW_US in ticks
  MaxTime,     \* bound on the provider's clock
  MaxSent,     \* bound on the messages sent
  MaxFrame,    \* bound on the messages of one frame
  MaxRebuilds  \* bound on operator rebuilds

ASSUME LapChronologyAssumption ==
  /\ {StartWindow, LastWindow, MaxTime, MaxSent, MaxRebuilds} \subseteq Nat
  /\ MaxFrame \in Nat \ {0}

None == 0                       \* SQL NULL: times, durations and row numbers are positive

VARIABLES
  time,      \* the provider's clock
  started,   \* the heat has gone green
  crossings, \* the true crossings of the finish line: of the formation laps, or from the start on
  outbox,    \* messages sent on this connection and not received
  sent,      \* messages sent so far
  ready,     \* this connection has a schema baseline (r_i seen)
  failed,    \* a frame's handler raised: every later run replays that frame
  rebuilds,  \* rebuilds done
  db         \* the rows: [passings, bounds, claps, laps, cells, ledger, green, track]
             \* track: the longest stop distance of the other cars' passings

vars == <<time, started, crossings, outbox, sent, ready, failed, rebuilds, db>>

Track == 2                      \* the track length: stop distance of a start signal
Loop  == 1                      \* stop distance of a finish-loop passing

Abs(n) == IF n < 0 THEN -n ELSE n

-----------------------------------------------------------------------------
(* Canonical boundaries and laps *)

TrackLength(d) == Max({d.track} \cup {d.passings[i].stop : i \in DOMAIN d.passings})

StartSignal(d) ==
  \E i \in DOMAIN d.passings :
    LET p == d.passings[i]
    IN p.live /\ p.stop = TrackLength(d) /\ Abs(p.ts - d.green) <= StartWindow

Boundary(kind, ts, pass, at) == [kind |-> kind, ts |-> ts, pass |-> pass, at |-> at]

(* The boundary laps start from: the heat's green if a start signal supports
   it, else the first passing that was observed. *)
InitialBoundary(d, o) ==
  IF d.bounds # <<>> THEN d
  ELSE LET p == d.passings[o]
           b == IF d.green # None /\ StartSignal(d)
                  THEN Boundary("HEAT_START", d.green, None, p.at)
                  ELSE Boundary("COVERAGE_START", p.ts, o, p.at)
       IN [d EXCEPT !.bounds = <<b>>]

CoverageComplete(d) == d.bounds[1].kind = "HEAT_START"

(* The row of canonical_laps between the boundary prev and the passing p.  Its
   passings and sectors are left out. *)
CanonicalLap(d1, prev, p, o) ==
  LET ord == Len(d1.bounds)
  IN [num |-> IF CoverageComplete(d1) THEN ord ELSE None, ord |-> ord,
      dur |-> p.ts - prev.ts, last |-> None, at |-> p.at, pass |-> o]

(* record_tracker_passing: a passing over the whole track is the start signal
   and closes no lap; any other one after the last boundary closes a lap. *)
RecordPassing(d, o) ==
  LET p == d.passings[o]
      d1 == InitialBoundary(d, o)
      prev == Last(d1.bounds)
  IN IF p.stop = TrackLength(d) \/ prev.ts >= p.ts THEN d1
     ELSE [d1 EXCEPT !.bounds = Append(@, Boundary("MAIN_FINISH", p.ts, o, p.at)),
                     !.claps = Append(@, CanonicalLap(d1, prev, p, o))]

(* Mutant: a lap of full coverage is numbered from zero. *)
CompleteLapFromTrackerZero(d, clap) ==
  LET num == IF clap.num # None THEN clap.num - 1 ELSE clap.ord
  IN IF \E i \in DOMAIN d.laps : d.laps[i].num = num THEN d
     ELSE [d EXCEPT !.laps = Append(@, [num |-> num, pass |-> clap.pass, dur |-> None, cell |-> None])]

(* laps has UNIQUE(heat, participant, lap_number); the insert ignores a repeat. *)
CompleteLapFromTracker(d, clap) ==
  LET num == IF clap.num # None THEN clap.num ELSE clap.ord
  IN IF \E i \in DOMAIN d.laps : d.laps[i].num = num THEN d
     ELSE [d EXCEPT !.laps = Append(@, [num |-> num, pass |-> clap.pass, dur |-> None, cell |-> None])]

(* One t_p or t_i passing.  A passing already observed changes nothing, and
   the ones of a t_i snapshot complete no lap. *)
WritePassing(d, m, at) ==
  LET seen == \E i \in DOMAIN d.passings : d.passings[i].ts = m.ts /\ d.passings[i].stop = m.stop
      d1 == [d EXCEPT !.passings = Append(@, [ts |-> m.ts, stop |-> m.stop, live |-> m.h = "t_p", at |-> at])]
      d2 == RecordPassing(d1, Len(d1.passings))
  IN IF seen THEN d
     ELSE IF m.h = "t_i" THEN d1
     ELSE IF Len(d2.claps) = Len(d1.claps) THEN d2
     ELSE CompleteLapFromTracker(d2, Last(d2.claps))

WriteLast(d, m, at, anchored) ==
  IF m.val = None THEN d
  ELSE [d EXCEPT !.cells = Append(@, [val |-> m.val, h |-> m.h, at |-> at, refresh |-> m.refresh,
                                     ready |-> m.h = "r_c" /\ anchored])]

(* The messages of a frame in order; each r_c cell freezes whether an r_i of
   this connection came before it. *)
ApplyMessage(acc, m, at) ==
  [ready |-> acc.ready \/ m.h = "r_i",
   d |-> CASE m.h \in {"t_p", "t_i"} -> WritePassing(acc.d, m, at)
           [] m.h \in {"r_c", "r_i"} -> WriteLast(acc.d, m, at, acc.ready)
           [] m.h = "a_u" -> [acc.d EXCEPT !.green = m.ts]]

-----------------------------------------------------------------------------
(* After the messages: pair the one new lap with the one LAST of the frame *)

ReconcileTrackerLapSources(d, from) ==
  LET new == {i \in DOMAIN d.laps : d.laps[i].pass > Len(from.passings) /\ d.laps[i].dur = None}
      lasts == (Len(from.cells) + 1)..Len(d.cells)
  IN IF Cardinality(new) # 1 \/ Cardinality(lasts) # 1 THEN d
     ELSE LET i == CHOOSE x \in new : TRUE
              c == CHOOSE x \in lasts : TRUE
          IN [d EXCEPT !.laps[i].dur = d.cells[c].val, !.laps[i].cell = c]

(* match_last_cell: one pending lap with exactly this tracker duration. *)
Match(d, c) ==
  LET S == {l \in DOMAIN d.claps : /\ d.claps[l].last = None /\ d.claps[l].dur = d.cells[c].val
                                   /\ Abs(d.claps[l].at - d.cells[c].at) <= LastWindow}
  IN IF Cardinality(S) = 1 THEN CHOOSE l \in S : TRUE ELSE None

LinkedClap(d, c) ==
  LET S == {l \in DOMAIN d.claps : d.claps[l].last = c}
      cell == d.cells[c]
  IN IF S # {} THEN CHOOSE l \in S : TRUE
     ELSE IF cell.h = "r_c" /\ cell.ready /\ ~ cell.refresh THEN Match(d, c) ELSE None

LinkedLap(d, c) ==
  LET S == {i \in DOMAIN d.laps : d.laps[i].cell = c}
  IN IF S = {} THEN None ELSE CHOOSE i \in S : TRUE

Repeats(d, c) == c > 1 /\ d.cells[c - 1].val = d.cells[c].val

Reason(d, c, clap) ==
  LET cell == d.cells[c]
  IN IF cell.h = "r_i" THEN IF Repeats(d, c) THEN "SNAPSHOT_REPEAT" ELSE "SNAPSHOT_BASELINE"
     ELSE IF ~ cell.ready THEN "SCHEMA_BASELINE_MISSING"
     ELSE IF clap # None THEN "CANONICAL_TRACKER_DURATION_MATCH"
     ELSE IF LinkedLap(d, c) # None THEN "SOURCE_LAP_BOUNDARY"
     ELSE IF cell.refresh THEN IF Repeats(d, c) THEN "FULL_GRID_REFRESH_REPEAT" ELSE "FULL_GRID_NON_REPEAT"
     ELSE IF c = 1 THEN "DIRECT_FIRST_OBSERVATION"
     ELSE IF ~ Repeats(d, c) THEN "DIRECT_VALUE_CHANGED" ELSE "AMBIGUOUS_EQUAL_DURATION"

Confirmed == {"CANONICAL_TRACKER_DURATION_MATCH", "SOURCE_LAP_BOUNDARY",
              "DIRECT_FIRST_OBSERVATION", "DIRECT_VALUE_CHANGED"}

(* What attach_last_cell refuses: a lap that another cell has taken. *)
Conflict(d, c, clap) == clap # None /\ d.claps[clap].last \notin {None, c}

Attach(d, c, clap) == IF clap = None THEN d ELSE [d EXCEPT !.claps[clap].last = c]

(* Every cell is matched first, against the rows as the frame left them;
   then each is classified, attached and written to the ledger in turn. *)
FinalizeLastCells(d, from) ==
  LET cells == [k \in 1..(Len(d.cells) - Len(from.cells)) |-> Len(from.cells) + k]
      link == [c \in (Len(from.cells) + 1)..Len(d.cells) |-> LinkedClap(d, c)]
      One(acc, c) ==
        LET reason == Reason(d, c, link[c])
            clap == IF reason = "CANONICAL_TRACKER_DURATION_MATCH" THEN link[c] ELSE None
            row == [reason |-> reason, clap |-> clap,
                    lap |-> IF reason \in Confirmed THEN LinkedLap(d, c) ELSE None]
        IN IF acc.failed \/ Conflict(acc.d, c, clap) THEN [acc EXCEPT !.failed = TRUE]
           ELSE [acc EXCEPT !.d = [Attach(acc.d, c, clap) EXCEPT !.ledger = Append(@, row)]]
  IN FoldLeft(One, [d |-> d, failed |-> FALSE], cells)

-----------------------------------------------------------------------------
(* rebuild_canonical_heat: the canonical rows again, from kept facts only *)

(* Mutant: the rebuild skips the cells an earlier rebuild matched. *)
RebuildableUnmatched == {"SOURCE_LAP_BOUNDARY", "DIRECT_FIRST_OBSERVATION", "DIRECT_VALUE_CHANGED",
                         "AMBIGUOUS_EQUAL_DURATION"}

Rebuildable == {"SOURCE_LAP_BOUNDARY", "DIRECT_FIRST_OBSERVATION", "DIRECT_VALUE_CHANGED",
                "AMBIGUOUS_EQUAL_DURATION", "CANONICAL_TRACKER_DURATION_MATCH"}

RebuildCanonicalHeat(d) ==
  LET bare == [d EXCEPT !.bounds = <<>>, !.claps = <<>>]
      before(i, j) == d.passings[i].ts < d.passings[j].ts \/ (d.passings[i].ts = d.passings[j].ts /\ i < j)
      live == SetToSortSeq({i \in DOMAIN d.passings : d.passings[i].live}, before)
      timed == FoldLeft(RecordPassing, bare, live)
      Take(acc, c) == IF d.cells[c].h = "r_c" /\ d.ledger[c].reason \in Rebuildable
                        THEN Attach(acc, c, Match(acc, c)) ELSE acc
      linked == FoldLeft(Take, timed, [c \in DOMAIN d.cells |-> c])
      clap(c) == SelectInSeq(linked.claps, LAMBDA l : l.last = c)
  IN [linked EXCEPT !.ledger = [c \in DOMAIN @ |->
        [@[c] EXCEPT !.clap = clap(c), !.reason = IF clap(c) = None THEN @ ELSE "CANONICAL_TRACKER_DURATION_MATCH"]]]

-----------------------------------------------------------------------------
Init ==
  /\ time = 1 /\ started = FALSE /\ crossings = <<>> /\ outbox = <<>> /\ sent = 0 /\ ready = TRUE
  /\ failed = FALSE /\ rebuilds = 0
  /\ \E others \in {None, Track} :
       db = [passings |-> <<>>, bounds |-> <<>>, claps |-> <<>>, laps |-> <<>>,
             cells |-> <<>>, ledger |-> <<>>, green |-> None, track |-> others]

Passing(h, ts, stop) == [h |-> h, ts |-> ts, stop |-> stop]
LastCell(h, val, refresh) == [h |-> h, val |-> val, refresh |-> refresh]

Send(ms) ==
  /\ sent + Len(ms) <= MaxSent /\ sent' = sent + Len(ms)
  /\ outbox' = outbox \o ms

LastLap == IF Len(crossings) < 2 THEN None
           ELSE crossings[Len(crossings)] - crossings[Len(crossings) - 1]

(* When the car may cross the line next: the clock is that of its last crossing. *)
Moment == IF crossings = <<>> THEN {time} ELSE (time + 1)..MaxTime

(* The provider: the start, a finished lap, the same LAST cell once more.  Capture
   may begin on the formation laps, whose crossings are passings like any other;
   the first crossing of all has no lap behind it and so no LAST cell. *)
Start ==
  /\ ~ started /\ started' = TRUE
  /\ \E t \in Moment :
       /\ time' = t /\ crossings' = <<t>>
       /\ Send(<<Passing("t_p", t, Track), [h |-> "a_u", ts |-> t]>>)
  /\ UNCHANGED <<ready, failed, rebuilds, db>>

Finish(trackerFirst) ==
  /\ \E t \in Moment :
       LET pass == <<Passing("t_p", t, Loop)>>
           last == IF crossings = <<>> THEN <<>> ELSE <<LastCell("r_c", t - Last(crossings), FALSE)>>
       IN /\ time' = t /\ crossings' = Append(crossings, t)
          /\ Send(IF trackerFirst THEN pass \o last ELSE last \o pass)
  /\ UNCHANGED <<started, ready, failed, rebuilds, db>>

Repeat(refresh) ==
  /\ LastLap # None /\ Send(<<LastCell("r_c", LastLap, refresh)>>)
  /\ UNCHANGED <<time, started, crossings, ready, failed, rebuilds, db>>

(* A connection is lost with what it had not delivered; the next one begins
   with snapshots of the grid and of the tracker. *)
Reconnect ==
  /\ sent + 2 <= MaxSent /\ sent' = sent + 2
  /\ outbox' = <<LastCell("r_i", LastLap, FALSE)>>
               \o (IF Len(crossings) < 2 THEN <<>> ELSE <<Passing("t_i", Last(crossings), Loop)>>)
  /\ ready' = FALSE
  /\ UNCHANGED <<time, started, crossings, failed, rebuilds, db>>

(* process_frame on the first n messages *)
Receive(n) ==
  /\ ~ failed /\ n <= Len(outbox)
  /\ LET start == [ready |-> ready, d |-> db]
         applied == FoldLeft(LAMBDA acc, m : ApplyMessage(acc, m, time), start, SubSeq(outbox, 1, n))
         done == FinalizeLastCells(ReconcileTrackerLapSources(applied.d, db), db)
     IN /\ failed' = done.failed
        /\ db' = IF done.failed THEN db ELSE done.d
        /\ ready' = IF done.failed THEN ready ELSE applied.ready
        /\ outbox' = IF done.failed THEN outbox ELSE SubSeq(outbox, n + 1, Len(outbox))
  /\ UNCHANGED <<time, started, crossings, sent, rebuilds>>

Rebuild ==
  /\ rebuilds < MaxRebuilds /\ rebuilds' = rebuilds + 1
  /\ db' = RebuildCanonicalHeat(db)
  /\ UNCHANGED <<time, started, crossings, outbox, sent, ready, failed>>

Next ==
  \/ Start \/ Reconnect \/ Rebuild
  \/ \E b \in BOOLEAN : Finish(b) \/ Repeat(b)
  \/ \E n \in 1..MaxFrame : Receive(n)

Spec == Init /\ [][Next]_vars

-----------------------------------------------------------------------------
(* Times are positive, and a canonical lap never has a zero or negative
   duration (record_tracker_passing skips a passing not after its
   predecessor); every LAST cell of a committed frame is classified. *)
TypeOK ==
  /\ time \in 1..MaxTime /\ sent \in 0..MaxSent /\ rebuilds \in 0..MaxRebuilds
  /\ {started, ready, failed} \subseteq BOOLEAN
  /\ Len(db.ledger) = Len(db.cells)
  /\ \A l \in DOMAIN db.claps : db.claps[l].dur \in 1..MaxTime

(* Canonical laps tile the time from the initial boundary to the last finish,
   whatever was lost in between and however often the heat was rebuilt: one
   lap per pair of neighbouring boundaries, its duration their distance. *)
LapsTile ==
  /\ db.claps # <<>> => Len(db.bounds) = Len(db.claps) + 1
  /\ \A l \in DOMAIN db.claps :
       db.claps[l].ord = l /\ db.claps[l].dur = db.bounds[l + 1].ts - db.bounds[l].ts

(* A canonical lap and the ledger row of its LAST cell point at each other,
   and the cell repeats the tracker's duration: one lap never takes two
   cells, and a rebuild leaves no link to a row it deleted. *)
LinksAgree ==
  \A l \in DOMAIN db.claps, c \in DOMAIN db.cells :
    /\ db.claps[l].last = c <=> db.ledger[c].clap = l
    /\ db.claps[l].last = c => db.cells[c].val = db.claps[l].dur

(* canonical_lap_backfill.py:1 calls the rebuild idempotent: from any state a
   second rebuild changes no row, although the first rewrites the reasons the
   second one selects the cells by. *)
RebuildIdempotent ==
  LET once == RebuildCanonicalHeat(db) IN RebuildCanonicalHeat(once) = once

(* The canonical tables and the LAST ledger together: typed, tiled, linked, and
   what a rebuild makes of them is final. *)
ChronologyConsistent == TypeOK /\ LapsTile /\ LinksAgree /\ RebuildIdempotent

(* The rows of laps that were counted on the formation laps, before green. *)
Formation(d) == {i \in DOMAIN d.laps : d.passings[d.laps[i].pass].ts <= d.green}

(* A frame that closes a canonical lap also completes a row of laps for the same
   passing: its number is not taken already, so the insert does not ignore it.
   The one exception is a rebuild after formation laps were counted: it starts
   the canonical laps again at green, from number 1, while laps keeps the old
   numbers, so the next finishes are lost from laps (README, section 5). *)
FinishCompletesLap ==
  [][\A l \in DOMAIN db'.claps :
       l > Len(db.claps) /\ rebuilds' = rebuilds =>
         \/ \E i \in DOMAIN db'.laps : db'.laps[i].pass = db'.claps[l].pass
         \/ rebuilds > 0 /\ CoverageComplete(db') /\ Formation(db') # {}]_vars

(* match_last_cell (canonical_laps.py:560) returns "one unambiguous pending
   lap", so attaching it never conflicts: no frame is refused. *)
NeverFails == ~ failed
=============================================================================
