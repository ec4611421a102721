---------------------------- MODULE FlagTimeline ----------------------------
(***************************************************************************)
(* The track-flag timeline of one heat, as TimingNormalizer keeps it in    *)
(* track_flag_periods, track_flag_current and the clean marks of laps      *)
(* (src/server/timing/normalizer_writer.py).                               *)
(*                                                                         *)
(* Two sources tell the recorder about a flag.  A live h_h message says    *)
(* what the flag is now and is stamped with the receive time.  The         *)
(* Statistics history says later, in provider time, when each caution      *)
(* began and ended; it is converted with the median clock offset of the    *)
(* connection, and it moves the boundaries the live messages left.  The    *)
(* provider (race control and its clock) is modelled by the true history   *)
(* the messages are taken from; every message is applied as one step, the  *)
(* frame's write transaction.                                              *)
(***************************************************************************)
EXTENDS Integers, Sequences, SequencesExt, FiniteSetsExt

CONSTANTS
  Cautions,   \* caution flags: listed in the Statistics history
  Offsets,    \* median receive-minus-provider offsets a clock can report
  Window,     \* FLAG_RECONCILIATION_WINDOW_US, in ticks
  MaxTime,    \* bound on the provider's clock
  MaxMessages,\* bound on the messages received
  MaxLaps     \* bound on the laps of the one participant

ASSUME FlagTimelineAssumption ==
  /\ Cautions # {} /\ "GREEN" \notin Cautions /\ "FINISH" \notin Cautions
  /\ Offsets \subseteq Nat /\ Offsets # {}
  /\ Window \in Nat /\ MaxTime \in Nat /\ MaxMessages \in Nat /\ MaxLaps \in Nat

None  == -1                                   \* SQL NULL and Python None
Flags == Cautions \union {"GREEN", "FINISH"}

VARIABLES
  time,       \* the provider's clock
  truth,      \* the flags race control really showed: <<[flag, from]>>
  received,   \* messages received so far
  heatFlag,   \* self.heat["f"], the flag of the last h_i or h_h, "none" at first
  offset,     \* offset of this connection's calibrator, None before a sample
  statistics, \* self.statistics: the history as of a provider time, or None
  db          \* [periods, current, laps]: the rows of this heat

vars == <<time, truth, received, heatFlag, offset, statistics, db>>

-----------------------------------------------------------------------------
(* The rows.  A source key is unique per row: a row written for a message  *)
(* is named by its number, a synthesized one by what it was made from.     *)

Row(flag, start, src) ==
  [flag |-> flag, start |-> start, end |-> None, obs |-> start, src |-> src,
   calStart |-> None, calEnd |-> None, provStart |-> None, provEnd |-> None, key |-> None]

NoCurrent == [flag |-> "none", start |-> None, obs |-> None, src |-> <<>>]
Current(flag, start, obs, src) == [flag |-> flag, start |-> start, obs |-> obs, src |-> src]

FreshRow(d) == <<"row", Len(d.periods) + 1>>
Coalesce(a, b) == IF a # None THEN a ELSE b
Abs(n) == IF n < 0 THEN -n ELSE n
Observed(p) == Coalesce(p.obs, p.start)

(* INSERT OR IGNORE against UNIQUE(source_heat_id, source_key). *)
InsertIgnore(d, row) ==
  IF \E i \in DOMAIN d.periods : d.periods[i].src = row.src
    THEN d ELSE [d EXCEPT !.periods = Append(@, row)]

(* The row of S (a set of row numbers) closest to t, ties to the oldest; 0 if S is empty. *)
Nearest(d, S, t) ==
  LET closer(i, j) == LET a == Abs(Observed(d.periods[i]) - t)
                          b == Abs(Observed(d.periods[j]) - t)
                      IN a < b \/ (a = b /\ i <= j)
  IN IF S = {} THEN 0 ELSE CHOOSE i \in S : \A j \in S : closer(i, j)

-----------------------------------------------------------------------------
(* Live flags *)

WriteImmediateFlag(d, flag, t) ==
  IF d.current # NoCurrent /\ d.current.flag = flag THEN d
  ELSE LET closed == [i \in DOMAIN d.periods |->
                        IF d.current # NoCurrent /\ d.periods[i].end = None
                          THEN [d.periods[i] EXCEPT !.end = t] ELSE d.periods[i]]
       IN [d EXCEPT !.periods = Append(closed, Row(flag, t, FreshRow(d))),
                    !.current = Current(flag, t, t, FreshRow(d))]

-----------------------------------------------------------------------------
(* Statistics history *)

SetPeriodStart(d, i, at, ts) ==
  [d EXCEPT !.periods[i] = [@ EXCEPT !.start = at, !.calStart = at, !.provStart = ts],
            !.current = IF @.src = d.periods[i].src THEN [@ EXCEPT !.start = at] ELSE @]

SetPeriodEnd(d, i, at, ts) ==
  [d EXCEPT !.periods[i] = [@ EXCEPT !.end = at, !.calEnd = at, !.provEnd = ts]]

(* The row a boundary falls into, the latest to start; 0 when there is none. *)
Preceding(d, except, at) ==
  LET in(p) == p.start < at /\ (p.end = None \/ p.end > at) /\ p.calEnd = None
      S == {i \in DOMAIN d.periods \ {except} : in(d.periods[i])}
  IN IF S = {} THEN 0
     ELSE CHOOSE i \in S : \A j \in S : \/ d.periods[j].start < d.periods[i].start
                                        \/ d.periods[j].start = d.periods[i].start /\ j <= i

AlignPreceding(d, except, at, ts) ==
  LET i == Preceding(d, except, at)
  IN IF i = 0 THEN d ELSE SetPeriodEnd(d, i, at, ts)

(* The observed successor that an exact end is moved to. *)
Following(d, pid, at) ==
  Nearest(d, {i \in DOMAIN d.periods \ {pid} :
                LET p == d.periods[i]
                IN /\ p.flag # d.periods[pid].flag /\ p.calStart = None
                   /\ p.start >= at /\ Abs(Observed(p) - at) <= Window}, at)

SynthesizeFollowingCaution(d, preceding, c, at) ==  \* opens the caution's own flag again
  IF preceding = 0 \/ d.current = NoCurrent \/ d.current.src # d.periods[preceding].src
    THEN d
    ELSE LET src == <<"boundary", c.from, c.to, d.current.flag>>
         IN [InsertIgnore(d, [Row(c.flag, at, src) EXCEPT !.calStart = at, !.provStart = c.to])
               EXCEPT !.current = Current(@.flag, at, None, src)]

(* A long live status is split around a caution learned only from history. *)
SynthesizeFollowing(d, preceding, c, at) ==
  IF \/ preceding = 0 \/ d.current = NoCurrent
     \/ d.current.src # d.periods[preceding].src \/ d.current.flag = c.flag
    THEN d
    ELSE LET src == <<"boundary", c.from, c.to, d.current.flag>>
             row == [Row(d.current.flag, at, src) EXCEPT
                       !.obs = None, !.calStart = at, !.provStart = c.to]
         IN [InsertIgnore(d, row) EXCEPT !.current = Current(@.flag, at, None, src)]

ReconcileTimeline(d, pid, c) ==
  LET p == d.periods[pid]
      preceding == IF p.calStart = None THEN 0 ELSE Preceding(d, pid, p.calStart)
      d1 == IF preceding = 0 THEN d ELSE SetPeriodEnd(d, preceding, p.calStart, c.from)
      next == Following(d1, pid, p.calEnd)
  IN IF p.calEnd = None \/ c.to = None THEN d1
     ELSE IF next # 0 THEN SetPeriodStart(d1, next, p.calEnd, c.to)
     ELSE SynthesizeFollowing(d1, preceding, c, p.calEnd)

(* A delayed open record does not reopen a flag a live message closed. *)
CloseIfSuperseded(d, pid, flag) ==
  LET p == d.periods[pid]
      at == Coalesce(d.current.obs, d.current.start)
  IN IF d.current = NoCurrent \/ d.current.flag = flag \/ p.end # None \/ at < p.start
       THEN d ELSE [d EXCEPT !.periods[pid].end = at]

(* Laps whose whole interval (end of the lap before to its own) p touches. *)
Touched(laps, p) ==
  {n \in DOMAIN laps : n > 1 /\ laps[n].at > p.start /\ (p.end = None \/ laps[n - 1].at < p.end)}

InvalidateForCautionClosed(d, pid) ==               \* skips a caution that is still open
  LET p == d.periods[pid]
  IN [d EXCEPT !.laps = [n \in DOMAIN @ |->
        IF p.flag # "GREEN" /\ p.end # None /\ n \in Touched(d.laps, p)
          THEN [@[n] EXCEPT !.clean = FALSE] ELSE @[n]]]

InvalidateForCaution(d, pid) ==
  LET p == d.periods[pid]
  IN [d EXCEPT !.laps = [n \in DOMAIN @ |->
        IF p.flag # "GREEN" /\ n \in Touched(d.laps, p) THEN [@[n] EXCEPT !.clean = FALSE] ELSE @[n]]]

(* The row of a caution: the one with its key, else the nearest live one. *)
CautionRow(d, c, s, t) ==
  LET keyed == {i \in DOMAIN d.periods : d.periods[i].key = c.from}
      live  == {i \in DOMAIN d.periods :
                  LET p == d.periods[i]
                  IN p.flag = c.flag /\ p.key = None /\ Abs(Observed(p) - Coalesce(s, t)) <= Window}
  IN IF keyed # {} THEN CHOOSE i \in keyed : TRUE ELSE Nearest(d, live, Coalesce(s, t))

WriteCautionRowFirst(d, c, s, e, t) ==              \* keeps the boundary resolved first
  LET i == CautionRow(d, c, s, t)
      new == [Row(c.flag, Coalesce(s, t), FreshRow(d)) EXCEPT
                !.end = e, !.obs = t, !.calStart = s, !.calEnd = e,
                !.provStart = c.from, !.provEnd = c.to, !.key = c.from]
  IN IF i = 0 THEN [d EXCEPT !.periods = Append(@, new)]
     ELSE [d EXCEPT !.periods[i] =
             [@ EXCEPT !.end = Coalesce(e, @), !.calStart = Coalesce(@, s), !.calEnd = Coalesce(e, @),
                       !.provStart = c.from, !.provEnd = Coalesce(c.to, @), !.key = c.from]]

WriteCautionRow(d, c, s, e, t) ==
  LET i == CautionRow(d, c, s, t)
      new == [Row(c.flag, Coalesce(s, t), FreshRow(d)) EXCEPT
                !.end = e, !.obs = t, !.calStart = s, !.calEnd = e,
                !.provStart = c.from, !.provEnd = c.to, !.key = c.from]
  IN IF i = 0 THEN [d EXCEPT !.periods = Append(@, new)]
     ELSE [d EXCEPT !.periods[i] =
             [@ EXCEPT !.start = Coalesce(s, @), !.end = Coalesce(e, @),
                       !.calStart = Coalesce(s, @), !.calEnd = Coalesce(e, @),
                       !.provStart = c.from, !.provEnd = Coalesce(c.to, @), !.key = c.from]]

WriteCaution(d, c, off, t) ==
  LET cal(ts) == IF off = None \/ ts = None THEN None ELSE ts + off
      s == cal(c.from)
      e == cal(c.to)
      d1 == WriteCautionRow(d, c, s, e, t)
      pid == LET i == CautionRow(d, c, s, t) IN IF i = 0 THEN Len(d1.periods) ELSE i
      d2 == IF d1.current.flag = c.flag /\ e = None
              THEN [d1 EXCEPT !.current.start = Coalesce(s, @)] ELSE d1
  IN InvalidateForCaution(ReconcileTimeline(CloseIfSuperseded(d2, pid, c.flag), pid, c), pid)

(* The first row, if green, starts at the heat's green flag. *)
ReconcileInitialGreen(d, ts, off) ==
  LET S == {i \in DOMAIN d.periods : \A j \in DOMAIN d.periods :
              \/ d.periods[i].start < d.periods[j].start
              \/ d.periods[i].start = d.periods[j].start /\ i <= j}
      first == CHOOSE i \in S : TRUE
      p == d.periods[first]
  IN IF \/ ts = None \/ off = None \/ S = {}
        \/ p.flag # "GREEN" \/ p.start <= ts + off \/ p.calStart # None
       THEN d ELSE SetPeriodStart(d, first, ts + off, ts)

(* The finish time of Statistics is the exact start of the FINISH row. *)
ReconcileFinish(d, ts, off, t) ==
  LET at == ts + off
      own == {i \in DOMAIN d.periods : d.current.flag = "FINISH" /\ d.periods[i].src = d.current.src}
      near == {i \in DOMAIN d.periods : d.periods[i].flag = "FINISH"
                                        /\ Abs(Observed(d.periods[i]) - at) <= Window}
      i == IF own # {} THEN CHOOSE x \in own : TRUE ELSE Nearest(d, near, at)
      src == <<"finish", ts>>
      row == [Row("FINISH", at, src) EXCEPT !.obs = t, !.calStart = at, !.provStart = ts]
  IN IF ts = None \/ off = None THEN d
     ELSE IF i # 0
       THEN LET d1 == AlignPreceding(d, i, Coalesce(d.periods[i].calStart, at),
                                           Coalesce(d.periods[i].provStart, ts))
            IN IF d.periods[i].calStart # None THEN d1
               ELSE SetPeriodStart(d1, i, at, Coalesce(d.periods[i].provStart, ts))
       ELSE [InsertIgnore(AlignPreceding(d, 0, at, ts), row)
               EXCEPT !.current = Current("FINISH", at, t, src)]

(* Both sides of one provider boundary get one instant.  The loop reads the
   rows as they were before it. *)
ReconcileAdjacencies(d) ==
  LET before(i, j) == \/ d.periods[i].start < d.periods[j].start
                      \/ d.periods[i].start = d.periods[j].start /\ i < j
      rows == SetToSortSeq(DOMAIN d.periods, before)
      Boundary(l, r) ==
        IF (r.flag = "FINISH" \/ r.key # None) /\ r.calStart # None THEN r.calStart
        ELSE IF l.key # None THEN l.calEnd ELSE None
      Join(acc, k) ==
        LET l == d.periods[rows[k]]
            r == d.periods[rows[k + 1]]
            at == Boundary(l, r)
        IN IF \/ l.provEnd = None \/ l.provEnd # r.provStart \/ at = None \/ at < l.start
             THEN acc
             ELSE [acc EXCEPT
                     !.periods[rows[k]] = [@ EXCEPT !.end = at, !.calEnd = at],
                     !.periods[rows[k + 1]] = [@ EXCEPT !.start = at, !.calStart = at],
                     !.current = IF @.src = r.src THEN [@ EXCEPT !.start = at] ELSE @]
  IN FoldLeft(Join, d, [k \in 1..(Len(rows) - 1) |-> k])

(* What the provider's Statistics tab holds at a time: the cautions in order,
   the heat's green time and its finish time, None until they happened. *)
Began(s)   == SelectSeq(truth, LAMBDA x : x.from <= s)
History(s) ==
  LET tr == Began(s)
      upto(i) == IF i < Len(tr) THEN tr[i + 1].from ELSE None
      all == [i \in DOMAIN tr |-> [flag |-> tr[i].flag, from |-> tr[i].from, to |-> upto(i)]]
  IN SelectSeq(all, LAMBDA c : c.flag \in Cautions)
FirstOf(flag, s) ==
  LET S == {i \in DOMAIN Began(s) : truth[i].flag = flag}
  IN IF S = {} THEN None ELSE truth[Min(S)].from

WriteStatistics(d, s, off, t) ==
  LET d1 == FoldLeft(LAMBDA acc, c : WriteCaution(acc, c, off, t), d, History(s))
      d2 == ReconcileInitialGreen(d1, FirstOf("GREEN", s), off)
  IN ReconcileAdjacencies(ReconcileFinish(d2, FirstOf("FINISH", s), off, t))

-----------------------------------------------------------------------------
(* Laps of the one participant *)

IsCleanLap(d, at, other) ==
  /\ d.current.flag = "GREEN" /\ d.laps # <<>> /\ other
  /\ \A i \in DOMAIN d.periods :
       LET p == d.periods[i]
       IN ~ (p.flag # "GREEN" /\ p.start < at /\ (p.end = None \/ p.end > Last(d.laps).at))

-----------------------------------------------------------------------------
Init ==
  /\ time = 1 /\ truth = <<>> /\ received = 0
  /\ heatFlag = "none" /\ offset = None /\ statistics = None
  /\ db = [periods |-> <<>>, current |-> NoCurrent, laps |-> <<>>]

(* Race control: time passes, or the flag changes.  A heat ends with FINISH. *)
Tick ==
  /\ time < MaxTime /\ time' = time + 1
  /\ UNCHANGED <<truth, received, heatFlag, offset, statistics, db>>

ShowFlag(flag) ==
  /\ \/ truth = <<>> /\ flag = "GREEN"
     \/ /\ truth # <<>> /\ Last(truth).flag \notin {flag, "FINISH"}
        /\ Last(truth).from < time
  /\ truth' = Append(truth, [flag |-> flag, from |-> time])
  /\ UNCHANGED <<time, received, heatFlag, offset, statistics, db>>

Receive == received < MaxMessages /\ received' = received + 1

(* h_i or h_h with a flag: written only when it differs from the last one. *)
LiveFlag ==
  /\ Receive /\ truth # <<>>
  /\ heatFlag' = Last(truth).flag
  /\ db' = IF heatFlag = Last(truth).flag THEN db
           ELSE WriteImmediateFlag(db, Last(truth).flag, time)
  /\ UNCHANGED <<time, truth, offset, statistics>>

(* a_i or a_u: the history as the provider had it at some time, never older
   than what this recorder already merged. *)
Statistics(s) ==
  /\ Receive /\ truth # <<>> /\ s <= time /\ s >= Coalesce(statistics, 1)
  /\ statistics' = s
  /\ db' = WriteStatistics(db, s, offset, time)
  /\ UNCHANGED <<time, truth, heatFlag, offset>>

(* a_r *)
StatisticsReset ==
  /\ Receive /\ statistics # None /\ statistics' = None
  /\ UNCHANGED <<time, truth, heatFlag, offset, db>>

(* s_i or s_t: a new median; the merged history is written again with it. *)
ServerClock(o) ==
  /\ Receive /\ offset # o /\ offset' = o
  /\ db' = IF statistics = None THEN db ELSE WriteStatistics(db, statistics, o, time)
  /\ UNCHANGED <<time, truth, heatFlag, statistics>>

(* A new connection has a calibrator of its own. *)
Reconnect ==
  /\ offset # None /\ offset' = None
  /\ UNCHANGED <<time, truth, received, heatFlag, statistics, db>>

(* A lap of the participant ends; pits and gaps decide the rest of its mark. *)
CompleteLap(other) ==
  /\ Receive /\ Len(db.laps) < MaxLaps
  /\ db.laps # <<>> => Last(db.laps).at < time
  /\ db' = [db EXCEPT !.laps = Append(@, [at |-> time, clean |-> IsCleanLap(db, time, other)])]
  /\ UNCHANGED <<time, truth, heatFlag, offset, statistics>>

Next ==
  \/ Tick \/ LiveFlag \/ StatisticsReset \/ Reconnect
  \/ \E flag \in Flags : ShowFlag(flag)
  \/ \E s \in 1..MaxTime : Statistics(s)
  \/ \E o \in Offsets : ServerClock(o)
  \/ \E other \in BOOLEAN : CompleteLap(other)

Spec == Init /\ [][Next]_vars

-----------------------------------------------------------------------------
(* Properties *)

Opt(S) == S \union {None}
Times  == 1..(MaxTime + Max(Offsets))

(* Every stored boundary is an instant of the race or NULL: a Statistics    *)
(* time that is not set yet never becomes an instant.                       *)
TypeOK ==
  /\ time \in 1..MaxTime /\ received \in 0..MaxMessages
  /\ heatFlag \in Flags \union {"none"} /\ offset \in Opt(Offsets) /\ statistics \in Opt(1..MaxTime)
  /\ \A i \in DOMAIN db.periods :
       LET p == db.periods[i]
       IN /\ p.flag \in Flags /\ p.start \in Times
          /\ \A x \in {p.end, p.obs, p.calStart, p.calEnd, p.provStart, p.provEnd, p.key} : x \in Opt(Times)

(* A lap that is still marked clean is touched by no recorded caution,      *)
(* however late the caution was learned and however its boundaries moved.   *)
NoCleanLapUnderCaution ==
  \A n \in DOMAIN db.laps : db.laps[n].clean =>
    \A i \in DOMAIN db.periods :
      db.periods[i].flag \in Cautions => n \notin Touched(db.laps, db.periods[i])

(* track_flag_current always names a row of the timeline, and that row has  *)
(* its flag, through every split and every finish written from Statistics.  *)
CurrentHasRow ==
  db.current # NoCurrent =>
    \E i \in DOMAIN db.periods :
      db.periods[i].src = db.current.src /\ db.periods[i].flag = db.current.flag

(* The rows the flag reducers leave are typed and the current flag is one   *)
(* of them.                                                                 *)
TimelineConsistent == TypeOK /\ CurrentHasRow

(* Once a history is written with a calibrated clock, each of its cautions  *)
(* has one row, which starts at the provider's start exactly and ends at    *)
(* the provider's end, resolved with this median or with the one a          *)
(* neighbouring row was given before.                                       *)
Exact(p, c, off) == /\ p.start = c.from + off
                    /\ c.to # None => p.end - c.to \in Offsets
HistoryApplied ==
  [][(offset' # None /\ statistics' # None /\ <<offset, statistics>>' # <<offset, statistics>>) =>
       \A k \in DOMAIN History(statistics') :
         LET c == History(statistics')[k]
             rows == {i \in DOMAIN db'.periods : db'.periods[i].key = c.from}
         IN \E i \in rows : rows = {i} /\ Exact(db'.periods[i], c, offset')]_vars
=============================================================================
