------------------------------ MODULE PitStints ------------------------------
(***************************************************************************)
(* The pit stops, tyre stints and grid-numbered laps of one car, in a      *)
(* layout whose result grid has LAPS, STATE, PIT and L-PIT columns         *)
(* (src/server/timing/normalizer_writer.py).  Each message updates the     *)
(* materialised row and completes laps at once; its pit facts are queued   *)
(* and applied when the frame is complete, in one transaction.             *)
(*                                                                         *)
(* The provider is the car itself and the cells that change when it moves; *)
(* a change may come in one message or in two.  The network groups         *)
(* messages into frames, a disconnect loses the ones not received, and the *)
(* next connection begins with an r_i of the whole row.                    *)
(***************************************************************************)
EXTENDS Integers, Sequences, SequencesExt, FiniteSets, FiniteSetsExt

CONSTANTS
  MaxTime,   \* bound on the clock
  MaxSent,   \* bound on the messages sent
  MaxFrame,  \* bound on the messages of one frame
  MaxDrops   \* bound on the disconnects

ASSUME PitStintsAssumption == {MaxTime, MaxSent, MaxFrame, MaxDrops} \subseteq Nat \ {0}

None == 0                      \* SQL NULL: times, counts of stops and lap numbers are positive

VARIABLES
  now,     \* the clock: the provider's and the receiver's
  car,     \* the row the provider shows: [state, pits, laps, lpit]
  late,    \* cells of the last change it has yet to show
  stops,   \* the true stops: [in, out] times, out = None while in the lane
  outbox,  \* messages sent on this connection and not received
  sent,    \* messages sent so far
  up,      \* the connection is up
  gaps,    \* ingest_gaps: [from, to]
  grid,    \* the reducer's row, NoRow before the first r_i
  db       \* [cur, pits, stints, laps]: participant_state_current, pit_stops, tire_stints, laps

vars == <<now, car, late, stops, outbox, sent, up, gaps, grid, db>>

NoCells == [c \in {} |-> None]
NoPit   == [k |-> "none", n |-> 0]
NoRow   == [state |-> "none", pits |-> 0, laps |-> 0, lpit |-> NoPit]   \* no row was seen yet
S(t)    == [k |-> "S", n |-> t]      \* L-PIT while in the lane: the instant of entry
L(n)    == [k |-> "L", n |-> n]      \* L-PIT after stop n: how long it took

-----------------------------------------------------------------------------
(* Laps of the grid *)

Done(d) == {n \in DOMAIN d.laps : d.laps[n].at # None}

(* The start of lap n's interval: the finish of the nearest earlier lap that
   has one (the SQL LAG over completed laps). *)
LapStart(d, n) ==
  LET earlier == {k \in Done(d) : k < n} IN IF earlier = {} THEN None ELSE d.laps[Max(earlier)].at

Overlaps(from, to, a, b) == from < b /\ (to = None \/ to > a)

CrossesPit(d, a, b) ==
  \E i \in DOMAIN d.pits : d.pits[i].done /\ Overlaps(d.pits[i].in, d.pits[i].out, a, b)

IsCleanLap(d, at, state) ==
  /\ at # None /\ state \notin {"IN_PIT", "OUT_LAP"}
  /\ Done(d) # {}
  /\ LET start == d.laps[Max(Done(d))].at
     IN /\ ~ CrossesPit(d, start, at)
        /\ \A i \in DOMAIN gaps : ~ Overlaps(gaps[i].from, gaps[i].to, start, at)

CompleteLapsFromGrid(d, prev, cur, state, at) ==
  LET row(n) == [at |-> IF n = cur THEN at ELSE None,
                 clean |-> n = cur /\ IsCleanLap(d, at, state)]
  IN [d EXCEPT !.laps = [n \in DOMAIN @ \cup ((prev + 1)..cur) |-> IF n \in DOMAIN @ THEN @[n] ELSE row(n)]]

(* Mutant: a later pit fact leaves the clean marks alone. *)
InvalidateCleanLapsForPitNever(d) == d

InvalidateCleanLapsForPit(d) ==
  LET hit(n) == n \in Done(d) /\ LapStart(d, n) # None /\ CrossesPit(d, LapStart(d, n), d.laps[n].at)
  IN [d EXCEPT !.laps = [n \in DOMAIN d.laps |-> [d.laps[n] EXCEPT !.clean = @ /\ ~ hit(n)]]]

-----------------------------------------------------------------------------
(* Tyre stints *)

Stint(at, lap) == [from |-> at, to |-> None, fromLap |-> lap, toLap |-> None, laps |-> 0]
Open(d)        == SelectLastInSeq(d.stints, LAMBDA s : s.to = None)
AtLeast(a, b)  == IF a < b THEN b ELSE a

EnsureTireStint(d, lap, at) ==
  IF Open(d) = 0 THEN [d EXCEPT !.stints = Append(@, Stint(at, lap))]
  ELSE [d EXCEPT !.stints[Open(d)].laps = AtLeast(@, lap - d.stints[Open(d)].fromLap)]

CompleteTireStint(d, lap, at) ==
  LET o == Open(d)
      s == d.stints[o]
      closed == [s EXCEPT !.to = at, !.toLap = lap, !.laps = AtLeast(@, lap - s.fromLap)]
  IN [d EXCEPT !.stints = Append([@ EXCEPT ![o] = closed], Stint(at, lap))]

-----------------------------------------------------------------------------
(* One message: the row, its laps, and the pit event it queues *)

Has(m, c) == c \in DOMAIN m.cells
Cell(m, c) == IF Has(m, c) THEN m.cells[c] ELSE NoRow[c]

(* Mutant: every L-PIT cell is a new fact. *)
PitTimeEventAlways(m, old) == IF Has(m, "lpit") THEN m.cells["lpit"] ELSE NoPit

(* An unchanged L-PIT of an r_i is what the screen shows, not a new fact. *)
PitTimeEvent(m, old) ==
  IF Has(m, "lpit") /\ (m.h = "r_c" \/ old = NoRow \/ m.cells["lpit"] # old.lpit)
    THEN m.cells["lpit"] ELSE NoPit

(* The materialised row: the message's cells over the last known ones. *)
CurrentRow(acc, m) == [c \in DOMAIN NoRow |-> IF Has(m, c) THEN m.cells[c] ELSE acc.row[c]]

(* A pit event is queued for a message with a STATE, PIT or L-PIT cell. *)
PitEvent(m, row, old) ==
  [state |-> Cell(m, "state"), pits |-> Cell(m, "pits"), lap |-> row.laps, time |-> PitTimeEvent(m, old), old |-> old]

Queued(acc, m) ==
  IF \E c \in {"state", "pits", "lpit"} : Has(m, c)
    THEN Append(acc.queue, PitEvent(m, CurrentRow(acc, m), acc.d.cur)) ELSE acc.queue

WriteRowState(acc, m, at) ==
  LET row == CurrentRow(acc, m)
      old == acc.d.cur
      d1 == [acc.d EXCEPT !.cur = row]
      d2 == IF old # NoRow /\ Has(m, "laps") /\ row.laps > old.laps
              THEN CompleteLapsFromGrid(d1, old.laps, row.laps, row.state, at) ELSE d1
  IN [row |-> row, d |-> EnsureTireStint(d2, row.laps, at), queue |-> Queued(acc, m)]

(* The messages of a frame, in their order. *)
WriteRows(start, ms, at) ==
  LET after[i \in 0..Len(ms)] == IF i = 0 THEN start ELSE WriteRowState(after[i - 1], ms[i], at)
  IN after[Len(ms)]

-----------------------------------------------------------------------------
(* The queued pit events, when the frame is complete *)

OpenPit(d) == SelectLastInSeq(d.pits, LAMBDA p : ~ p.done)
MaxStop(d) == Max({0} \cup {d.pits[i].num : i \in DOMAIN d.pits})

IsEntry(e) == e.state = "IN_PIT" /\ e.old # NoRow /\ e.old.state # "IN_PIT"

EnterPit(d, e, at) ==
  LET shown == IF e.pits # None THEN e.pits ELSE e.old.pits
      num == IF shown > MaxStop(d) THEN shown ELSE MaxStop(d) + 1
      entered == IF e.time.k = "S" /\ e.time.n # None THEN e.time.n ELSE at
  IN [d EXCEPT !.pits = Append(@, [num |-> num, in |-> entered, out |-> None, done |-> FALSE, stop |-> None])]

(* Mutant: the exit is written to every stop of the car. *)
LeavePitEvery(d, e, at) ==
  LET stop == IF e.time.k = "L" THEN e.time.n ELSE None
  IN [d EXCEPT !.pits = [i \in DOMAIN @ |->
        IF i = OpenPit(d) THEN [@[i] EXCEPT !.out = at, !.done = TRUE, !.stop = stop]
        ELSE IF @[i].done THEN [@[i] EXCEPT !.out = at] ELSE @[i]]]

LeavePit(d, e, at) ==
  [d EXCEPT !.pits[OpenPit(d)] =
     [@ EXCEPT !.out = at, !.done = TRUE, !.stop = IF e.time.k = "L" THEN e.time.n ELSE None]]

ExitsPit(d, e) == e.state \in {"ON_TRACK", "OUT_LAP"}

ReconcilePitAndTireStint(d, e, at) ==
  LET d1 == IF IsEntry(e) THEN EnterPit(d, e, at) ELSE d
      exits == ExitsPit(d, e) /\ OpenPit(d) # 0
      d2 == IF exits THEN CompleteTireStint(LeavePit(d1, e, at), e.lap, at)
                     ELSE EnsureTireStint(d1, e.lap, at)
  IN IF IsEntry(e) \/ exits THEN InvalidateCleanLapsForPit(d2) ELSE d2

(* The entry may take its instant from the frame's one L-PIT=S cell. *)
Timed(queue, e) ==
  LET entries == {i \in DOMAIN queue : queue[i].time.k = "S" /\ queue[i].time.n # None}
  IN IF IsEntry(e) /\ Cardinality(entries) = 1
       THEN [e EXCEPT !.time = queue[CHOOSE i \in entries : TRUE].time] ELSE e

ReconcileFramePitEvents(acc, at) ==
  LET after[i \in 0..Len(acc.queue)] ==
        IF i = 0 THEN acc.d
        ELSE ReconcilePitAndTireStint(after[i - 1], Timed(acc.queue, acc.queue[i]), at)
  IN after[Len(acc.queue)]

-----------------------------------------------------------------------------
Init ==
  /\ now = 1 /\ stops = <<>> /\ late = NoCells /\ sent = 1 /\ up = TRUE /\ gaps = <<>> /\ grid = NoRow
  /\ car \in [state : {"ON_TRACK", "IN_PIT"}, pits : {0}, laps : {0}, lpit : {NoPit}]
  /\ outbox = <<[h |-> "r_i", cells |-> car]>>
  /\ db = [cur |-> NoRow, pits |-> <<>>, stints |-> <<>>, laps |-> <<>>]

(* Some of the row's cells that changed are shown now, the others a message later. *)
Show(row, first, later) ==
  /\ sent < MaxSent /\ sent' = sent + 1
  /\ car' = [c \in DOMAIN car |-> IF c \in first THEN row[c] ELSE car[c]]
  /\ late' = [c \in later |-> row[c]]
  /\ outbox' = IF up THEN Append(outbox, [h |-> "r_c", cells |-> [c \in first |-> row[c]]]) ELSE outbox

ShowLate ==
  /\ late # NoCells /\ Show(late, DOMAIN late, {})
  /\ UNCHANGED <<now, stops, up, gaps, grid, db>>

Tick ==
  /\ now < MaxTime /\ now' = now + 1
  /\ UNCHANGED <<car, late, stops, outbox, sent, up, gaps, grid, db>>

InLane == car.state = "IN_PIT"

(* L-PIT shows the instant of entry, or still the stop before. *)
CarEnters(first, instant) ==
  /\ late = NoCells /\ car.state \in {"ON_TRACK", "OUT_LAP", "UNKNOWN"}
  /\ "state" \notin first => instant
  /\ stops' = Append(stops, [in |-> now, out |-> None])
  /\ LET changed == {"state", "pits"} \cup (IF instant THEN {"lpit"} ELSE {})
     IN Show([car EXCEPT !.state = "IN_PIT", !.pits = @ + 1, !.lpit = S(now)], first \cap changed, changed \ first)
  /\ UNCHANGED <<now, up, gaps, grid, db>>

CarLeaves(first, state) ==
  /\ late = NoCells /\ InLane
  /\ stops' = IF stops = <<>> THEN stops ELSE [stops EXCEPT ![Len(stops)].out = now]
  /\ Show([car EXCEPT !.state = state, !.lpit = IF stops = <<>> THEN NoPit ELSE L(Len(stops))],
          first, {"state", "lpit"} \ first)
  /\ UNCHANGED <<now, up, gaps, grid, db>>

(* A lap, on track or over the line in the pit lane. *)
CarLaps ==
  /\ late = NoCells /\ car.state # "FINISHED"
  /\ Show([car EXCEPT !.laps = @ + 1, !.state = "ON_TRACK"],
          {"laps"} \cup (IF car.state \in {"OUT_LAP", "UNKNOWN"} THEN {"state"} ELSE {}), {})
  /\ UNCHANGED <<now, stops, up, gaps, grid, db>>

(* A timer that means nothing, or the finish of the race. *)
CarShows(state) ==
  /\ late = NoCells /\ car.state = "ON_TRACK" /\ Show([car EXCEPT !.state = state], {"state"}, {})
  /\ UNCHANGED <<now, stops, up, gaps, grid, db>>

Drop ==
  /\ up /\ Len(gaps) < MaxDrops
  /\ up' = FALSE /\ outbox' = <<>>
  /\ gaps' = Append(gaps, [from |-> now, to |-> None])
  /\ UNCHANGED <<now, car, late, stops, sent, grid, db>>

Connect ==
  /\ ~ up /\ up' = TRUE
  /\ sent < MaxSent /\ sent' = sent + 1
  /\ outbox' = <<[h |-> "r_i", cells |-> car]>>
  /\ gaps' = [gaps EXCEPT ![Len(gaps)].to = now]
  /\ UNCHANGED <<now, car, late, stops, grid, db>>

(* process_frame on the first n messages *)
Receive(n) ==
  /\ n <= Len(outbox)
  /\ LET applied == WriteRows([row |-> grid, d |-> db, queue |-> <<>>], SubSeq(outbox, 1, n), now)
     IN /\ grid' = applied.row
        /\ db' = ReconcileFramePitEvents(applied, now)
        /\ outbox' = SubSeq(outbox, n + 1, Len(outbox))
  /\ UNCHANGED <<now, car, late, stops, sent, up, gaps>>

Next ==
  \/ Tick \/ ShowLate \/ CarLaps \/ Drop \/ Connect
  \/ \E first \in {{"state", "pits", "lpit"}, {"lpit"}, {"state", "lpit"}}, instant \in BOOLEAN :
       CarEnters(first, instant)
  \/ \E first \in {{"state", "lpit"}, {"state"}}, s \in {"ON_TRACK", "OUT_LAP"} : CarLeaves(first, s)
  \/ \E s \in {"UNKNOWN", "FINISHED"} : CarShows(s)
  \/ \E n \in 1..MaxFrame : Receive(n)

Spec == Init /\ [][Next]_vars

-----------------------------------------------------------------------------
(* A stop is completed exactly when it has an exit, and nothing leaves before
   it began; laps have increasing finish times. *)
TypeOK ==
  /\ now \in 1..MaxTime /\ sent \in 0..MaxSent /\ up \in BOOLEAN
  /\ \A i \in DOMAIN db.pits : db.pits[i].done <=> db.pits[i].out # None
  /\ \A i \in DOMAIN db.pits : db.pits[i].done => db.pits[i].in <= db.pits[i].out
  /\ \A k, n \in Done(db) : k < n => db.laps[k].at <= db.laps[n].at

(* "A completed pit closes the current tyre stint and opens a new one"
   (_reconcile_pit_and_tire_stint): the stints tile the time and the laps of
   the heat, only the last is open, and there is one per completed stop and
   one more, whatever was lost, split or grouped into frames. *)
StintsTile ==
  /\ \A i \in DOMAIN db.stints :
       LET s == db.stints[i]
       IN IF i = Len(db.stints) THEN s.to = None
          ELSE s.to = db.stints[i + 1].from /\ s.toLap = db.stints[i + 1].fromLap /\ s.from <= s.to
  /\ db.cur # NoRow =>
       Len(db.stints) = 1 + Cardinality({i \in DOMAIN db.pits : db.pits[i].done})

(* Stop numbers strictly increase in the order of the stops, although the
   provider's counter may be stale or ahead when an entry is recorded: a
   number is never taken twice (the insert would ignore the second stop). *)
StopsOrdered ==
  \A i, j \in DOMAIN db.pits : i < j => db.pits[i].num < db.pits[j].num

(* A lap marked clean overlaps no completed stop, also when the stop is known
   only after the lap: it entered before the lap's finish was received, or the
   exit came later in the frame (_invalidate_clean_laps_for_pit). *)
CleanAvoidsPit ==
  \A n \in DOMAIN db.laps :
    db.laps[n].clean => ~ CrossesPit(db, LapStart(db, n), db.laps[n].at)

(* "A previously materialized L-PIT display value is never reused as the
   duration of a later State/PIT transition": the L-PIT of one real stop is
   the duration of at most one recorded stop, reconnects included. *)
DurationOnce ==
  \A i, j \in DOMAIN db.pits :
    i # j /\ db.pits[i].stop # None => db.pits[i].stop # db.pits[j].stop

(* The ledger of stops and stints is typed, tiled and in order, and no L-PIT
   is counted twice. *)
PitLedgerConsistent == TypeOK /\ StintsTile /\ StopsOrdered /\ DurationOnce

(* A completed stop and a closed stint are history: no later frame changes or
   removes them. *)
HistoryFrozen ==
  [][/\ \A i \in DOMAIN db.pits : db.pits[i].done => i \in DOMAIN db'.pits /\ db'.pits[i] = db.pits[i]
     /\ \A i \in DOMAIN db.stints :
          db.stints[i].to # None => i \in DOMAIN db'.stints /\ db'.stints[i] = db.stints[i]]_vars
=============================================================================
