--------------------------- MODULE PitStintsProofs ---------------------------
(***************************************************************************)
(* For all bounds on time, messages, frames and disconnects: the ledger of *)
(* pit stops and tyre stints is in order and tiles the heat, no L-PIT is   *)
(* counted twice, a clean lap overlaps no stop, and history is frozen.     *)
(***************************************************************************)
EXTENDS PitStints, FiniteSetTheorems, SequenceTheorems, WellFoundedInduction, TLAPS

Cols   == {"state", "pits", "laps", "lpit"}
States == {"none", "ON_TRACK", "IN_PIT", "OUT_LAP", "UNKNOWN", "FINISHED"}
LPits  == [k : {"none", "S", "L"}, n : Nat]
Rows   == [state : States, pits : Nat, laps : Nat, lpit : LPits]

\* Some cells of a row, and the messages that carry them.
CellMaps == {[c \in D |-> r[c]] : r \in Rows, D \in SUBSET Cols}
Messages == [h : {"r_i", "r_c"}, cells : CellMaps]

Stops  == [num : Nat, in : Nat, out : Nat, done : BOOLEAN, stop : Nat]
Stints == [from : Nat, to : Nat, fromLap : Nat, toLap : Nat, laps : Nat]
Laps   == UNION {[D -> [at : Nat, clean : BOOLEAN]] : D \in SUBSET (Nat \ {0})}
Events == [state : States, pits : Nat, lap : Nat, time : LPits, old : Rows]

Tables == [cur : Rows, pits : Seq(Stops), stints : Seq(Stints), laps : Laps]

-----------------------------------------------------------------------------
(* What holds of the tables at time t, whatever the provider sends.        *)

PitsInv(d, t) ==
    /\ \A i \in DOMAIN d.pits : d.pits[i].done <=> d.pits[i].out # None
    /\ \A i \in DOMAIN d.pits : d.pits[i].in <= t
    /\ \A i \in DOMAIN d.pits : d.pits[i].done => d.pits[i].in <= d.pits[i].out
    /\ \A i, j \in DOMAIN d.pits : i < j => d.pits[i].num < d.pits[j].num

LapsInv(d, t) ==
    /\ DOMAIN d.laps \subseteq 1..d.cur.laps
    /\ \A n \in DOMAIN d.laps : d.laps[n].at <= t
    /\ \A k, n \in Done(d) : k < n => d.laps[k].at <= d.laps[n].at

\* A clean lap has a finish and a start, and no stop between them.
CleanInv(d) ==
    \A n \in DOMAIN d.laps : d.laps[n].clean =>
        /\ n \in Done(d) /\ {k \in Done(d) : k < n} # {}
        /\ ~ CrossesPit(d, LapStart(d, n), d.laps[n].at)

Completed(d) == {i \in DOMAIN d.pits : d.pits[i].done}

StintsInv(d, t) ==
    /\ \A i \in DOMAIN d.stints : d.stints[i].from <= t
    /\ \A i \in DOMAIN d.stints :
         LET s == d.stints[i]
         IN IF i = Len(d.stints) THEN s.to = None
            ELSE s.to # None /\ s.to = d.stints[i + 1].from /\ s.toLap = d.stints[i + 1].fromLap /\ s.from <= s.to
    /\ IF d.stints = <<>> THEN Completed(d) = {} ELSE Len(d.stints) = 1 + Cardinality(Completed(d))

TablesInv(d, t) == d \in Tables /\ PitsInv(d, t) /\ LapsInv(d, t) /\ CleanInv(d) /\ StintsInv(d, t)

\* What is done in d is still there in e.
Kept(d, e) ==
    /\ \A i \in DOMAIN d.pits : d.pits[i].done => i \in DOMAIN e.pits /\ e.pits[i] = d.pits[i]
    /\ \A i \in DOMAIN d.stints : d.stints[i].to # None => i \in DOMAIN e.stints /\ e.stints[i] = d.stints[i]

-----------------------------------------------------------------------------
(* Lemmas about numbers and maxima.                                        *)

\* The natural numbers are well founded.
LEMMA LeastOfNaturals ==
    ASSUME NEW T \in SUBSET Nat, T # {}
    PROVE  \E x \in T : \A y \in T : x <= y
<1> DEFINE R == OpToRel(<, Nat)
<1>1. IsWellFoundedOn(R, Nat)
  BY NatLessThanWellFounded
<1>2. \A x, y \in Nat : y < x => <<y, x>> \in R
  BY DEF OpToRel
<1> HIDE DEF R
<1>3. PICK x \in T : \A y \in T : ~(<<y, x>> \in R)
  BY <1>1, WFMin
<1>4. \A y \in T : ~(y < x)
  BY <1>2, <1>3
<1> QED
  BY <1>4

\* What holds of 0, and of i when it holds of i - 1, holds up to n.
LEMMA UpTo ==
    ASSUME NEW n \in Nat, NEW Good, 0 \in Good, \A i \in 1..n : i - 1 \in Good => i \in Good
    PROVE  0..n \subseteq Good
<1> DEFINE Bad == (0..n) \ Good
<1> SUFFICES ASSUME Bad # {} PROVE FALSE
  OBVIOUS
<1>1. PICK x \in Bad : \A y \in Bad : x <= y
  <2>1. Bad \in SUBSET Nat
    OBVIOUS
  <2> HIDE DEF Bad
  <2> QED
    BY <2>1, LeastOfNaturals
<1>2. x \in 1..n /\ x - 1 \in 0..n
  BY <1>1
<1>3. x - 1 \in Good
  BY <1>1, <1>2
<1> QED
  BY <1>1, <1>2, <1>3

\* A non-empty bounded set of naturals has a maximum, and Max is it.
LEMMA MaxBounded ==
    ASSUME NEW n \in Nat, NEW T \in SUBSET (0..n), T # {}
    PROVE  Max(T) \in T /\ \A x \in T : x <= Max(T)
<1> DEFINE U == {n - x : x \in T}
<1>0. U \in SUBSET Nat /\ U # {}
  <2>1. \A x \in T : x \in 0..n /\ n - x \in Nat
    OBVIOUS
  <2> QED
    BY <2>1
<1>1. PICK u \in U : \A y \in U : u <= y
  <2> HIDE DEF U
  <2> QED
    BY <1>0, LeastOfNaturals
<1>2. PICK m \in T : u = n - m
  BY <1>1
<1>3. \A x \in T : m >= x
  BY <1>1, <1>2
<1>4. Max(T) \in T /\ \A y \in T : Max(T) >= y
  BY <1>3 DEF Max
<1> QED
  BY <1>4

-----------------------------------------------------------------------------
(* The loops over the messages of a frame and over its pit events.         *)

\* The states that the loop over the messages goes through.
LEMMA WriteRowsRun ==
    ASSUME NEW ms, Len(ms) \in Nat, NEW start, NEW at
    PROVE  \E A : /\ A = [i \in 0..Len(ms) |-> IF i = 0 THEN start ELSE WriteRowState(A[i - 1], ms[i], at)]
                  /\ WriteRows(start, ms, at) = A[Len(ms)]
<1> DEFINE Run(g, m) == g = [i \in 0..m |-> IF i = 0 THEN start ELSE WriteRowState(g[i - 1], ms[i], at)]
           Good == {m \in Nat : \E g : Run(g, m)}
<1>1. 0 \in Good
  <2>1. Run([i \in 0..0 |-> start], 0)
    OBVIOUS
  <2> QED
    BY <2>1
<1>2. ASSUME NEW m \in 1..Len(ms), m - 1 \in Good PROVE m \in Good
  <2>1. PICK g : Run(g, m - 1)
    BY <1>2
  <2> DEFINE h == [i \in 0..m |-> IF i < m THEN g[i] ELSE WriteRowState(g[m - 1], ms[m], at)]
  <2>2. \A i \in 0..m : h[i] = IF i = 0 THEN start ELSE WriteRowState(h[i - 1], ms[i], at)
    <3>1. ASSUME NEW i \in 0..m, i < m, i # 0 PROVE h[i] = WriteRowState(h[i - 1], ms[i], at)
      <4>0. i - 1 \in 0..m /\ i - 1 < m
        BY <3>1
      <4>1. h[i] = g[i] /\ h[i - 1] = g[i - 1]
        BY <3>1, <4>0
      <4>2. i \in 0..(m - 1) /\ i # 0
        BY <3>1
      <4>3. g[i] = WriteRowState(g[i - 1], ms[i], at)
        BY <2>1, <4>2
      <4> QED
        BY <3>1, <4>1, <4>3
    <3>2. h[0] = start
      BY <2>1
    <3>3. h[m] = WriteRowState(h[m - 1], ms[m], at)
      OBVIOUS
    <3> QED
      BY <3>1, <3>2, <3>3
  <2>3. Run(h, m)
    BY <2>2
  <2> HIDE DEF h, Run
  <2> QED
    BY <2>3
<1>3. Len(ms) \in Good
  <2> HIDE DEF Good
  <2>1. 0..Len(ms) \subseteq Good
    BY <1>1, <1>2, UpTo
  <2> QED
    BY <2>1
<1>4. PICK g : Run(g, Len(ms))
  BY <1>3
<1> DEFINE A == CHOOSE f : Run(f, Len(ms))
<1>5. Run(A, Len(ms))
  BY <1>4
<1>6. WriteRows(start, ms, at) = A[Len(ms)]
  BY DEF WriteRows
<1> QED
  BY <1>5, <1>6

\* The states that the loop over the events goes through.
LEMMA ReconcileRun ==
    ASSUME NEW acc, Len(acc.queue) \in Nat, NEW at
    PROVE  \E A : /\ A = [i \in 0..Len(acc.queue) |->
                            IF i = 0 THEN acc.d
                            ELSE ReconcilePitAndTireStint(A[i - 1], Timed(acc.queue, acc.queue[i]), at)]
                  /\ ReconcileFramePitEvents(acc, at) = A[Len(acc.queue)]
<1> DEFINE Run(g, m) == g = [i \in 0..m |->
                            IF i = 0 THEN acc.d ELSE ReconcilePitAndTireStint(g[i - 1], Timed(acc.queue, acc.queue[i]), at)]
           Good == {m \in Nat : \E g : Run(g, m)}
<1>1. 0 \in Good
  <2>1. Run([i \in 0..0 |-> acc.d], 0)
    OBVIOUS
  <2> QED
    BY <2>1
<1>2. ASSUME NEW m \in 1..Len(acc.queue), m - 1 \in Good PROVE m \in Good
  <2>1. PICK g : Run(g, m - 1)
    BY <1>2
  <2> DEFINE h == [i \in 0..m |-> IF i < m THEN g[i] ELSE ReconcilePitAndTireStint(g[m - 1], Timed(acc.queue, acc.queue[m]), at)]
  <2>2. \A i \in 0..m : h[i] = IF i = 0 THEN acc.d ELSE ReconcilePitAndTireStint(h[i - 1], Timed(acc.queue, acc.queue[i]), at)
    <3>1. ASSUME NEW i \in 0..m, i < m, i # 0 PROVE h[i] = ReconcilePitAndTireStint(h[i - 1], Timed(acc.queue, acc.queue[i]), at)
      <4>0. i - 1 \in 0..m /\ i - 1 < m
        BY <3>1
      <4>1. h[i] = g[i] /\ h[i - 1] = g[i - 1]
        BY <3>1, <4>0
      <4>2. i \in 0..(m - 1) /\ i # 0
        BY <3>1
      <4>3. g[i] = ReconcilePitAndTireStint(g[i - 1], Timed(acc.queue, acc.queue[i]), at)
        BY <2>1, <4>2
      <4> QED
        BY <3>1, <4>1, <4>3
    <3>2. h[0] = acc.d
      BY <2>1
    <3>3. h[m] = ReconcilePitAndTireStint(h[m - 1], Timed(acc.queue, acc.queue[m]), at)
      OBVIOUS
    <3> QED
      BY <3>1, <3>2, <3>3
  <2>3. Run(h, m)
    BY <2>2
  <2> HIDE DEF h, Run
  <2> QED
    BY <2>3
<1>3. Len(acc.queue) \in Good
  <2> HIDE DEF Good
  <2>1. 0..Len(acc.queue) \subseteq Good
    BY <1>1, <1>2, UpTo
  <2> QED
    BY <2>1
<1>4. PICK g : Run(g, Len(acc.queue))
  BY <1>3
<1> DEFINE A == CHOOSE f : Run(f, Len(acc.queue))
<1>5. Run(A, Len(acc.queue))
  BY <1>4
<1>6. ReconcileFramePitEvents(acc, at) = A[Len(acc.queue)]
  BY DEF ReconcileFramePitEvents
<1> QED
  BY <1>5, <1>6

-----------------------------------------------------------------------------
(* The tables.                                                             *)

\* An update of one table leaves the others.
LEMMA OneTable ==
    ASSUME NEW d \in Tables
    PROVE  /\ \A x \in Rows : LET e == [d EXCEPT !.cur = x]
                              IN e \in Tables /\ e.cur = x /\ e.pits = d.pits /\ e.stints = d.stints /\ e.laps = d.laps
           /\ \A x \in Seq(Stops) : LET e == [d EXCEPT !.pits = x]
                              IN e \in Tables /\ e.cur = d.cur /\ e.pits = x /\ e.stints = d.stints /\ e.laps = d.laps
           /\ \A x \in Seq(Stints) : LET e == [d EXCEPT !.stints = x]
                              IN e \in Tables /\ e.cur = d.cur /\ e.pits = d.pits /\ e.stints = x /\ e.laps = d.laps
           /\ \A x \in Laps : LET e == [d EXCEPT !.laps = x]
                              IN e \in Tables /\ e.cur = d.cur /\ e.pits = d.pits /\ e.stints = d.stints /\ e.laps = x
  BY DEF Tables

\* A part of the invariant depends on its tables only.
LEMMA SameTables ==
    ASSUME NEW d, NEW e, NEW t, e.pits = d.pits
    PROVE  /\ PitsInv(d, t) => PitsInv(e, t)
           /\ Completed(e) = Completed(d)
           /\ e.laps = d.laps => /\ CleanInv(d) => CleanInv(e)
                                 /\ e.cur = d.cur /\ LapsInv(d, t) => LapsInv(e, t)
           /\ e.stints = d.stints => (StintsInv(d, t) => StintsInv(e, t))
<1>1. Completed(e) = Completed(d) /\ (PitsInv(d, t) => PitsInv(e, t))
  BY DEF PitsInv, Completed
<1>2. ASSUME e.laps = d.laps PROVE /\ CleanInv(d) => CleanInv(e)
                                   /\ e.cur = d.cur /\ LapsInv(d, t) => LapsInv(e, t)
  <2>1. Done(e) = Done(d)
    BY <1>2 DEF Done
  <2>2. \A n : LapStart(e, n) = LapStart(d, n)
    BY <1>2, <2>1 DEF LapStart
  <2>3. \A a, b : CrossesPit(e, a, b) <=> CrossesPit(d, a, b)
    BY DEF CrossesPit
  <2> QED
    BY <1>2, <2>1, <2>2, <2>3 DEF CleanInv, LapsInv
<1>3. e.stints = d.stints /\ StintsInv(d, t) => StintsInv(e, t)
  BY <1>1 DEF StintsInv
<1> QED
  BY <1>1, <1>2, <1>3

\* The open stint is the last one.
LEMMA OpenIsLast ==
    ASSUME NEW d, d.stints \in Seq(Stints), NEW t, StintsInv(d, t)
    PROVE  Open(d) = Len(d.stints)
<1> DEFINE I == {i \in 1..Len(d.stints) : d.stints[i].to = None}
<1>0. Len(d.stints) \in Nat /\ DOMAIN d.stints = 1..Len(d.stints)
  OBVIOUS
<1>1. Open(d) = IF I # {} THEN Max(I) ELSE 0
  BY DEF Open, SelectLastInSeq
<1>2. CASE Len(d.stints) = 0
  BY <1>1, <1>2
<1>3. CASE Len(d.stints) # 0
  <2>1. Len(d.stints) \in I
    BY <1>0, <1>3 DEF StintsInv
  <2>2. Max(I) \in I /\ \A x \in I : x <= Max(I)
    <3>1. I \in SUBSET (0..Len(d.stints))
      BY <1>0
    <3> HIDE DEF I
    <3> QED
      BY <1>0, <2>1, <3>1, MaxBounded
  <2>3. Len(d.stints) <= Max(I) /\ Max(I) <= Len(d.stints)
    BY <1>0, <2>1, <2>2
  <2> QED
    BY <1>0, <1>1, <2>1, <2>2, <2>3
<1> QED
  BY <1>2, <1>3

\* An open stop, when there is one.
LEMMA OpenPitSound ==
    ASSUME NEW d, d.pits \in Seq(Stops), OpenPit(d) # 0
    PROVE  OpenPit(d) \in DOMAIN d.pits /\ ~ d.pits[OpenPit(d)].done
<1> DEFINE I == {i \in 1..Len(d.pits) : ~ d.pits[i].done}
<1>0. Len(d.pits) \in Nat /\ DOMAIN d.pits = 1..Len(d.pits)
  OBVIOUS
<1>1. OpenPit(d) = IF I # {} THEN Max(I) ELSE 0
  BY DEF OpenPit, SelectLastInSeq
<1>2. I # {} /\ OpenPit(d) = Max(I)
  BY <1>1
<1>3. Max(I) \in I
  <2>1. I \in SUBSET (0..Len(d.pits))
    BY <1>0
  <2> HIDE DEF I
  <2> QED
    BY <1>0, <1>2, <2>1, MaxBounded
<1> QED
  BY <1>0, <1>2, <1>3

\* _ensure_tire_stint opens the first stint or counts a lap more.
LEMMA EnsureTireStintSound ==
    ASSUME NEW at \in Nat, NEW d \in Tables, StintsInv(d, at), NEW lap \in Nat
    PROVE  LET e == EnsureTireStint(d, lap, at)
           IN /\ e \in Tables /\ e.cur = d.cur /\ e.pits = d.pits /\ e.laps = d.laps
              /\ e.stints # <<>> /\ StintsInv(e, at) /\ Kept(d, e)
<1> DEFINE e == EnsureTireStint(d, lap, at)
           o == Len(d.stints)
<1>0. d.stints \in Seq(Stints) /\ Open(d) = o /\ o \in Nat /\ DOMAIN d.stints = 1..o
  BY OpenIsLast DEF Tables
<1>1. CASE o = 0
  <2> DEFINE x == Append(d.stints, Stint(at, lap))
  <2>1. e = [d EXCEPT !.stints = x]
    BY <1>0, <1>1 DEF EnsureTireStint
  <2>2. x \in Seq(Stints) /\ Len(x) = 1 /\ DOMAIN x = 1..1 /\ x[1] = Stint(at, lap) /\ d.stints = <<>> /\ x # <<>>
    BY <1>0, <1>1 DEF Stint, Stints, None
  <2> HIDE DEF e, x
  <2>3. e \in Tables /\ e.cur = d.cur /\ e.pits = d.pits /\ e.stints = x /\ e.laps = d.laps
    BY <2>1, <2>2, OneTable
  <2>4. Completed(e) = {}
    BY <2>2, <2>3, SameTables DEF StintsInv
  <2>5. StintsInv(e, at)
    BY <2>2, <2>3, <2>4, FS_EmptySet DEF StintsInv, Stint
  <2>6. Kept(d, e)
    BY <1>0, <1>1, <2>3 DEF Kept
  <2> QED
    BY <2>2, <2>3, <2>5, <2>6 DEF e
<1>2. CASE o # 0
  <2> DEFINE s == d.stints[o]
             n == AtLeast(s.laps, lap - s.fromLap)
             x == [d.stints EXCEPT ![o] = [s EXCEPT !.laps = n]]
  <2>0. o \in 1..o /\ s \in Stints
    BY <1>0, <1>2
  <2>1. e = [d EXCEPT !.stints = x]
    BY <1>0, <1>2, <2>0 DEF EnsureTireStint, Tables
  <2>2. n \in Nat
    BY <2>0 DEF AtLeast, Stints
  <2>3. [s EXCEPT !.laps = n] \in Stints /\ [s EXCEPT !.laps = n].from = s.from
        /\ [s EXCEPT !.laps = n].to = s.to /\ [s EXCEPT !.laps = n].fromLap = s.fromLap
    BY <2>0, <2>2 DEF Stints
  <2>4. x \in Seq(Stints) /\ Len(x) = o /\ DOMAIN x = 1..o
    BY <1>0, <2>0, <2>3
  <2>5. \A i \in 1..o : x[i].from = d.stints[i].from /\ x[i].to = d.stints[i].to /\ x[i].fromLap = d.stints[i].fromLap
    BY <1>0, <2>0, <2>3
  <2>6. \A i \in 1..o : i # o => x[i] = d.stints[i]
    BY <1>0
  <2> HIDE DEF e, x, n
  <2>7. e \in Tables /\ e.cur = d.cur /\ e.pits = d.pits /\ e.stints = x /\ e.laps = d.laps
    BY <2>1, <2>4, OneTable
  <2>8. Completed(e) = Completed(d)
    BY <2>7, SameTables
  <2>9. x # <<>> /\ d.stints # <<>>
    BY <1>0, <1>2, <2>4
  <2>10. StintsInv(e, at)
    <3>1. \A i \in 1..o : i # o => i + 1 \in 1..o
      BY <1>0
    <3>2. \A i \in 1..o : x[i].from <= at
      BY <1>0, <2>5 DEF StintsInv
    <3>3. \A i \in 1..o : IF i = o THEN x[i].to = None
             ELSE x[i].to # None /\ x[i].to = x[i + 1].from /\ x[i].toLap = x[i + 1].fromLap /\ x[i].from <= x[i].to
      BY <1>0, <2>5, <2>6, <3>1 DEF StintsInv
    <3> QED
      BY <1>0, <2>4, <2>7, <2>8, <2>9, <3>2, <3>3 DEF StintsInv
  <2>11. Kept(d, e)
    <3>1. s.to = None
      BY <1>0, <2>0 DEF StintsInv
    <3> QED
      BY <1>0, <2>4, <2>6, <2>7, <3>1 DEF Kept
  <2> QED
    BY <2>7, <2>9, <2>10, <2>11 DEF e
<1> QED
  BY <1>0, <1>1, <1>2

\* _complete_tire_stint closes the open stint where the next begins, for one more
\* completed stop.
LEMMA CompleteTireStintSound ==
    ASSUME NEW at \in Nat \ {0}, NEW d \in Tables, NEW b, StintsInv(b, at), b.stints # <<>>, b.stints = d.stints,
           Cardinality(Completed(b)) \in Nat, Cardinality(Completed(d)) = Cardinality(Completed(b)) + 1, NEW lap \in Nat
    PROVE  LET e == CompleteTireStint(d, lap, at)
           IN /\ e \in Tables /\ e.cur = d.cur /\ e.pits = d.pits /\ e.laps = d.laps
              /\ e.stints # <<>> /\ StintsInv(e, at)
              /\ \A i \in DOMAIN d.stints : d.stints[i].to # None => i \in DOMAIN e.stints /\ e.stints[i] = d.stints[i]
<1> DEFINE e == CompleteTireStint(d, lap, at)
           o == Len(d.stints)
           s == d.stints[o]
           n == AtLeast(s.laps, lap - s.fromLap)
           c == [s EXCEPT !.to = at, !.toLap = lap, !.laps = n]
           y == [d.stints EXCEPT ![o] = c]
           x == Append(y, Stint(at, lap))
<1>0. b.stints \in Seq(Stints) /\ d.stints \in Seq(Stints) /\ o \in Nat /\ DOMAIN d.stints = 1..o /\ o \in 1..o /\ s \in Stints
  BY DEF Tables
<1>1. Open(d) = o
  BY <1>0, OpenIsLast DEF Open
<1>2. e = [d EXCEPT !.stints = x]
  BY <1>1 DEF CompleteTireStint
<1>3. c \in Stints /\ c.to = at /\ c.toLap = lap /\ c.from = s.from
  <2>1. n \in Nat
    <3>1. s.laps \in Nat /\ s.fromLap \in Nat
      BY <1>0 DEF Stints
    <3>2. lap - s.fromLap \in Int
      BY <3>1
    <3> HIDE DEF s
    <3> QED
      BY <3>1, <3>2 DEF AtLeast
  <2> HIDE DEF n, s
  <2> QED
    BY <1>0, <2>1 DEF Stints
<1>4. Stint(at, lap) \in Stints
  BY DEF Stint, Stints, None
<1>5. y \in Seq(Stints) /\ Len(y) = o /\ y[o] = c /\ \A i \in 1..o : i # o => y[i] = d.stints[i]
  BY <1>0, <1>3
<1> HIDE DEF c, y, n
<1>6. /\ x \in Seq(Stints) /\ Len(x) = o + 1 /\ DOMAIN x = 1..(o + 1) /\ x[o + 1] = Stint(at, lap) /\ x[o] = c
      /\ \A i \in 1..o : i # o => x[i] = d.stints[i]
  BY <1>0, <1>4, <1>5
<1> HIDE DEF e, x
<1>7. e \in Tables /\ e.cur = d.cur /\ e.pits = d.pits /\ e.stints = x /\ e.laps = d.laps
  BY <1>2, <1>6, OneTable
<1>8. Completed(e) = Completed(d)
  BY <1>7, SameTables
<1>9. StintsInv(e, at)
  <2>1. \A i \in 1..o : d.stints[i].from <= at
    BY <1>0 DEF StintsInv
  <2>2. ASSUME NEW i \in 1..(o + 1) PROVE x[i].from <= at
    <3>1. CASE i = o + 1
      BY <1>6, <3>1 DEF Stint
    <3>2. CASE i = o
      BY <1>0, <1>3, <1>6, <2>1, <3>2
    <3>3. CASE i # o /\ i # o + 1
      <4>1. i \in 1..o
        BY <1>0, <3>3
      <4> QED
        BY <1>6, <2>1, <3>3, <4>1
    <3> QED
      BY <3>1, <3>2, <3>3
  <2>3. ASSUME NEW i \in 1..(o + 1)
        PROVE  IF i = o + 1 THEN x[i].to = None
               ELSE x[i].to # None /\ x[i].to = x[i + 1].from /\ x[i].toLap = x[i + 1].fromLap /\ x[i].from <= x[i].to
    <3>1. CASE i = o + 1
      BY <1>6, <3>1 DEF Stint
    <3>2. CASE i = o
      BY <1>0, <1>3, <1>6, <2>1, <3>2 DEF Stint, None
    <3>3. CASE i < o
      <4>1. i \in 1..o /\ i + 1 \in 1..o /\ i # o
        BY <1>0, <3>3
      <4>2. LET q == d.stints[i]
            IN q.to # None /\ q.to = d.stints[i + 1].from /\ q.toLap = d.stints[i + 1].fromLap /\ q.from <= q.to
        BY <1>0, <4>1 DEF StintsInv
      <4>3. x[i] = d.stints[i] /\ x[i + 1].from = d.stints[i + 1].from /\ x[i + 1].fromLap = d.stints[i + 1].fromLap
        <5>1. c.fromLap = s.fromLap
          BY <1>0 DEF c, Stints
        <5> QED
          BY <1>0, <1>3, <1>6, <4>1, <5>1
      <4> QED
        BY <1>0, <4>1, <4>2, <4>3
    <3> QED
      BY <1>0, <3>1, <3>2, <3>3
  <2>4. Len(b.stints) = 1 + Cardinality(Completed(b)) /\ x # <<>>
    BY <1>0, <1>6 DEF StintsInv
  <2>5. Len(x) = 1 + Cardinality(Completed(e))
    BY <1>0, <1>6, <1>8, <2>4
  <2> QED
    BY <1>6, <1>7, <2>2, <2>3, <2>4, <2>5 DEF StintsInv
<1>10. \A i \in DOMAIN d.stints : d.stints[i].to # None => i \in DOMAIN e.stints /\ e.stints[i] = d.stints[i]
  <2>1. s.to = None
    BY <1>0 DEF StintsInv
  <2> QED
    BY <1>0, <1>6, <1>7, <2>1
<1> QED
  BY <1>6, <1>7, <1>9, <1>10 DEF e

\* A lap with an earlier finish starts at one.
LEMMA StartOfLap ==
    ASSUME NEW d \in Tables, NEW m \in Nat, DOMAIN d.laps \subseteq 1..m, NEW n, {k \in Done(d) : k < n} # {}
    PROVE  LET p == Max({k \in Done(d) : k < n})
           IN p \in Done(d) /\ p < n /\ LapStart(d, n) = d.laps[p].at /\ LapStart(d, n) # None
<1> DEFINE earlier == {k \in Done(d) : k < n}
<1>1. earlier \in SUBSET (0..m) /\ earlier # {}
  BY DEF Done
<1>2. LapStart(d, n) = d.laps[Max(earlier)].at
  BY DEF LapStart
<1>3. Max(earlier) \in earlier
  <2> HIDE DEF earlier
  <2> QED
    BY <1>1, MaxBounded
<1>4. Max(earlier) \in Done(d) /\ Max(earlier) < n
  BY <1>3
<1> QED
  BY <1>2, <1>4 DEF Done

\* _complete_laps_from_grid gives the laps that were jumped over no finish, and marks
\* the last one clean only when nothing completed crosses it.
LEMMA CompleteLapsSound ==
    ASSUME NEW at \in Nat \ {0}, NEW d \in Tables, NEW prev \in Nat, prev < d.cur.laps, NEW state,
           DOMAIN d.laps \subseteq 1..prev, \A n \in DOMAIN d.laps : d.laps[n].at <= at,
           \A k, n \in Done(d) : k < n => d.laps[k].at <= d.laps[n].at, CleanInv(d)
    PROVE  LET e == CompleteLapsFromGrid(d, prev, d.cur.laps, state, at)
           IN /\ e \in Tables /\ e.cur = d.cur /\ e.pits = d.pits /\ e.stints = d.stints
              /\ LapsInv(e, at) /\ CleanInv(e)
<1> DEFINE cur == d.cur.laps
           e == CompleteLapsFromGrid(d, prev, cur, state, at)
           row(n) == [at |-> IF n = cur THEN at ELSE None, clean |-> n = cur /\ IsCleanLap(d, at, state)]
           x == [n \in DOMAIN d.laps \cup ((prev + 1)..cur) |-> IF n \in DOMAIN d.laps THEN d.laps[n] ELSE row(n)]
<1>0. cur \in Nat /\ d.laps \in Laps
  BY DEF Tables, Rows
<1>1. e = [d EXCEPT !.laps = x]
  BY DEF CompleteLapsFromGrid
<1>2. x \in Laps
  <2>1. \A n \in (prev + 1)..cur : row(n) \in [at : Nat, clean : BOOLEAN]
    BY DEF None
  <2>2. PICK D \in SUBSET (Nat \ {0}) : d.laps \in [D -> [at : Nat, clean : BOOLEAN]]
    BY <1>0 DEF Laps
  <2> DEFINE E == D \cup ((prev + 1)..cur)
  <2> HIDE DEF row
  <2>3. x \in [E -> [at : Nat, clean : BOOLEAN]]
    BY <2>1, <2>2
  <2>4. E \in SUBSET (Nat \ {0})
    <3>1. \A n \in (prev + 1)..cur : n \in Nat \ {0}
      BY <1>0
    <3> QED
      BY <3>1
  <2> QED
    BY <2>3, <2>4 DEF Laps
<1>3. e \in Tables /\ e.cur = d.cur /\ e.pits = d.pits /\ e.stints = d.stints /\ e.laps = x
  <2> HIDE DEF e, x
  <2> QED
    BY <1>1, <1>2, OneTable
<1>4. DOMAIN x = DOMAIN d.laps \cup ((prev + 1)..cur) /\ \A n \in DOMAIN d.laps : n \in 1..prev /\ x[n] = d.laps[n]
  OBVIOUS
<1>5. \A n \in (prev + 1)..cur : /\ n \notin DOMAIN d.laps
                                 /\ x[n].at = IF n = cur THEN at ELSE None
                                 /\ x[n].clean = (n = cur /\ IsCleanLap(d, at, state))
  BY <1>4
<1>6. cur \in (prev + 1)..cur
  BY <1>0
<1> HIDE DEF e, x, row
<1>7. Done(e) = Done(d) \cup {cur} /\ \A n \in Done(d) : n \in DOMAIN d.laps /\ n \in 1..prev
  BY <1>3, <1>4, <1>5, <1>6 DEF Done, None
<1>8. LapsInv(e, at)
  <2>1. DOMAIN x \subseteq 1..cur
    BY <1>0, <1>4
  <2>2. \A n \in DOMAIN x : x[n].at <= at
    BY <1>0, <1>4, <1>5 DEF None
  <2>3. ASSUME NEW k \in Done(e), NEW n \in Done(e), k < n PROVE x[k].at <= x[n].at
    <3>1. k \in Done(d)
      BY <1>0, <1>7, <2>3
    <3>2. CASE n \in Done(d)
      BY <1>4, <1>7, <2>3, <3>1, <3>2
    <3>3. CASE n = cur
      BY <1>4, <1>5, <1>6, <1>7, <3>1, <3>3
    <3> QED
      BY <1>7, <3>2, <3>3
  <2> QED
    BY <1>3, <2>1, <2>2, <2>3 DEF LapsInv
<1>9. \A a, b : CrossesPit(e, a, b) <=> CrossesPit(d, a, b)
  BY <1>3 DEF CrossesPit
<1>10. ASSUME NEW n \in DOMAIN e.laps, e.laps[n].clean
       PROVE  /\ n \in Done(e) /\ {k \in Done(e) : k < n} # {}
              /\ ~ CrossesPit(e, LapStart(e, n), e.laps[n].at)
  <2>1. CASE n \in DOMAIN d.laps
    <3>1. /\ n \in Done(d) /\ {k \in Done(d) : k < n} # {}
          /\ ~ CrossesPit(d, LapStart(d, n), d.laps[n].at)
      BY <1>3, <1>4, <1>10, <2>1 DEF CleanInv
    <3>2. {k \in Done(e) : k < n} = {k \in Done(d) : k < n}
      BY <1>0, <1>4, <1>7, <2>1
    <3>3. Max({k \in Done(d) : k < n}) \in Done(d)
      BY <3>1, StartOfLap
    <3>4. LapStart(e, n) = LapStart(d, n)
      BY <1>3, <1>4, <1>7, <3>1, <3>2, <3>3 DEF LapStart
    <3> QED
      BY <1>3, <1>4, <1>7, <1>9, <2>1, <3>1, <3>2, <3>4
  <2>2. CASE n \notin DOMAIN d.laps
    <3>1. n = cur /\ IsCleanLap(d, at, state)
      BY <1>3, <1>4, <1>5, <1>10, <2>2
    <3>2. Done(d) # {} /\ ~ CrossesPit(d, d.laps[Max(Done(d))].at, at)
      BY <3>1 DEF IsCleanLap
    <3>3. {k \in Done(e) : k < cur} = Done(d) /\ {k \in Done(d) : k < cur} = Done(d)
      BY <1>0, <1>7
    <3>4. Max(Done(d)) \in Done(d)
      BY <3>2, <3>3, StartOfLap
    <3>5. LapStart(e, cur) = d.laps[Max(Done(d))].at
      BY <1>3, <1>4, <1>7, <3>2, <3>3, <3>4 DEF LapStart
    <3> QED
      BY <1>3, <1>5, <1>6, <1>7, <1>9, <3>1, <3>2, <3>3, <3>5
  <2> QED
    BY <2>1, <2>2
<1> QED
  BY <1>3, <1>8, <1>10 DEF CleanInv, e

\* _invalidate_clean_laps_for_pit leaves no clean mark on a lap that a stop crosses.
LEMMA InvalidateSound ==
    ASSUME NEW d \in Tables, NEW t, LapsInv(d, t),
           \A n \in DOMAIN d.laps : d.laps[n].clean => n \in Done(d) /\ {k \in Done(d) : k < n} # {}
    PROVE  LET e == InvalidateCleanLapsForPit(d)
           IN /\ e \in Tables /\ e.cur = d.cur /\ e.pits = d.pits /\ e.stints = d.stints
              /\ LapsInv(e, t) /\ CleanInv(e)
<1> DEFINE e == InvalidateCleanLapsForPit(d)
           hit(n) == n \in Done(d) /\ LapStart(d, n) # None /\ CrossesPit(d, LapStart(d, n), d.laps[n].at)
           x == [n \in DOMAIN d.laps |-> [d.laps[n] EXCEPT !.clean = @ /\ ~ hit(n)]]
<1>0. d.laps \in Laps /\ d.cur.laps \in Nat
  BY DEF Tables, Rows
<1>1. e = [d EXCEPT !.laps = x]
  BY DEF InvalidateCleanLapsForPit
<1>2. PICK D \in SUBSET (Nat \ {0}) : d.laps \in [D -> [at : Nat, clean : BOOLEAN]]
  BY <1>0 DEF Laps
<1> HIDE DEF hit
<1>3. x \in [D -> [at : Nat, clean : BOOLEAN]]
  BY <1>2
<1>4. x \in Laps
  BY <1>3 DEF Laps
<1>5. DOMAIN x = DOMAIN d.laps /\ \A n \in DOMAIN d.laps : x[n].at = d.laps[n].at
  BY <1>2
<1>6. \A n \in DOMAIN d.laps : x[n].clean => d.laps[n].clean /\ ~ hit(n)
  BY <1>2
<1> HIDE DEF e, x
<1>7. e \in Tables /\ e.cur = d.cur /\ e.pits = d.pits /\ e.stints = d.stints /\ e.laps = x
  BY <1>1, <1>4, OneTable
<1>8. Done(e) = Done(d)
  BY <1>5, <1>7 DEF Done
<1>9. LapsInv(e, t)
  BY <1>5, <1>7, <1>8 DEF LapsInv, Done
<1>10. \A a, b : CrossesPit(e, a, b) <=> CrossesPit(d, a, b)
  BY <1>7 DEF CrossesPit
<1>11. ASSUME NEW n \in DOMAIN e.laps, e.laps[n].clean
       PROVE  /\ n \in Done(e) /\ {k \in Done(e) : k < n} # {}
              /\ ~ CrossesPit(e, LapStart(e, n), e.laps[n].at)
  <2>1. n \in Done(d) /\ {k \in Done(d) : k < n} # {} /\ ~ hit(n)
    BY <1>5, <1>6, <1>7, <1>11
  <2>2. LET p == Max({k \in Done(d) : k < n})
        IN p \in Done(d) /\ LapStart(d, n) = d.laps[p].at /\ LapStart(d, n) # None
    BY <1>0, <2>1, StartOfLap DEF LapsInv
  <2>3. LapStart(e, n) = LapStart(d, n)
    BY <1>5, <1>7, <1>8, <2>1, <2>2 DEF LapStart, Done
  <2> QED
    BY <1>5, <1>7, <1>8, <1>10, <1>11, <2>1, <2>2, <2>3 DEF hit
<1> QED
  BY <1>7, <1>9, <1>11 DEF CleanInv, e

\* The rows of the table of stops.
LEMMA StopType ==
    ASSUME NEW d \in Tables, NEW i \in DOMAIN d.pits
    PROVE  d.pits[i] \in Stops /\ d.pits[i].num \in Nat /\ d.pits[i].in \in Nat /\ d.pits[i].out \in Nat /\ d.pits[i].stop \in Nat
<1>1. d.pits[i] \in Stops
  BY DEF Tables
<1> QED
  BY <1>1 DEF Stops

\* MaxStop bounds the numbers of the stops.
LEMMA MaxStopBounds ==
    ASSUME NEW d \in Tables, NEW t, PitsInv(d, t)
    PROVE  MaxStop(d) \in Nat /\ \A i \in DOMAIN d.pits : d.pits[i].num <= MaxStop(d)
<1> DEFINE T == {0} \cup {d.pits[i].num : i \in DOMAIN d.pits}
           last == d.pits[Len(d.pits)].num
           n == IF d.pits = <<>> THEN 0 ELSE last
<1>1. d.pits \in Seq(Stops) /\ Len(d.pits) \in Nat /\ DOMAIN d.pits = 1..Len(d.pits)
  BY DEF Tables
<1>2. \A i \in DOMAIN d.pits : d.pits[i].num \in Nat
  BY StopType
<1>3. \A i \in DOMAIN d.pits : Len(d.pits) \in DOMAIN d.pits /\ d.pits # <<>> /\ d.pits[i].num <= last
  BY <1>1, <1>2 DEF PitsInv
<1>4. n \in Nat
  BY <1>1, <1>2
<1>5. T \in SUBSET (0..n) /\ T # {}
  <2>1. \A i \in DOMAIN d.pits : d.pits[i].num \in 0..n
    BY <1>2, <1>3, <1>4
  <2>2. 0 \in 0..n
    BY <1>4
  <2> QED
    BY <2>1, <2>2
<1>6. Max(T) \in T /\ \A x \in T : x <= Max(T)
  <2> HIDE DEF T, n
  <2> QED
    BY <1>4, <1>5, MaxBounded
<1> QED
  BY <1>2, <1>6 DEF MaxStop

\* An entry is a new stop after all others, not completed.
LEMMA EnterPitSound ==
    ASSUME NEW at \in Nat, NEW d \in Tables, PitsInv(d, at), NEW v \in Events, v.time.k = "S" => v.time.n <= at
    PROVE  LET e == EnterPit(d, v, at)
           IN /\ e \in Tables /\ e.cur = d.cur /\ e.stints = d.stints /\ e.laps = d.laps
              /\ PitsInv(e, at) /\ Completed(e) = Completed(d)
              /\ Len(e.pits) = Len(d.pits) + 1 /\ e.pits[Len(d.pits) + 1].stop = None
              /\ \A i \in DOMAIN d.pits : e.pits[i] = d.pits[i]
<1> DEFINE e == EnterPit(d, v, at)
           shown == IF v.pits # None THEN v.pits ELSE v.old.pits
           num == IF shown > MaxStop(d) THEN shown ELSE MaxStop(d) + 1
           entered == IF v.time.k = "S" /\ v.time.n # None THEN v.time.n ELSE at
           p == [num |-> num, in |-> entered, out |-> None, done |-> FALSE, stop |-> None]
           x == Append(d.pits, p)
           o == Len(d.pits)
<1>1. d.pits \in Seq(Stops) /\ o \in Nat /\ DOMAIN d.pits = 1..o
  BY DEF Tables
<1>2. e = [d EXCEPT !.pits = x]
  BY DEF EnterPit
<1>3. MaxStop(d) \in Nat /\ \A i \in DOMAIN d.pits : d.pits[i].num <= MaxStop(d)
  BY MaxStopBounds
<1>4. shown \in Nat /\ entered \in Nat /\ entered <= at
  BY DEF Events, Rows, LPits
<1>5. num \in Nat /\ num > MaxStop(d)
  BY <1>3, <1>4
<1> HIDE DEF shown, entered, num
<1>6. p \in Stops /\ p.num = num /\ p.in = entered /\ p.out = None /\ p.stop = None /\ ~ p.done
  BY <1>4, <1>5 DEF Stops, None
<1> HIDE DEF p
<1>7. /\ x \in Seq(Stops) /\ Len(x) = o + 1 /\ DOMAIN x = 1..(o + 1) /\ x[o + 1] = p
      /\ \A i \in 1..o : x[i] = d.pits[i]
  BY <1>1, <1>6
<1> HIDE DEF e, x
<1>8. e \in Tables /\ e.cur = d.cur /\ e.pits = x /\ e.stints = d.stints /\ e.laps = d.laps
  BY <1>2, <1>7, OneTable
<1>9. PitsInv(e, at)
  <2>1. ASSUME NEW i \in 1..(o + 1) PROVE x[i].done <=> x[i].out # None
    <3>1. CASE i = o + 1
      BY <1>6, <1>7, <3>1
    <3>2. CASE i \in 1..o
      BY <1>1, <1>7, <3>2 DEF PitsInv
    <3> QED
      BY <1>1, <3>1, <3>2
  <2>2. \A i \in 1..(o + 1) : x[i].in <= at
    BY <1>1, <1>4, <1>6, <1>7 DEF PitsInv
  <2>3. \A i \in 1..(o + 1) : x[i].done => x[i].in <= x[i].out
    BY <1>1, <1>6, <1>7 DEF PitsInv
  <2>4. ASSUME NEW i \in 1..(o + 1), NEW j \in 1..(o + 1), i < j PROVE x[i].num < x[j].num
    <3>0. i \in 1..o
      BY <1>1, <2>4
    <3>1. i \in 1..o /\ x[i].num <= MaxStop(d) /\ x[i].num \in Nat
      BY <1>1, <1>3, <1>7, <3>0, StopType
    <3>2. CASE j = o + 1
      BY <1>3, <1>5, <1>6, <1>7, <3>1, <3>2
    <3>3. CASE j \in 1..o
      BY <1>1, <1>7, <2>4, <3>1, <3>3 DEF PitsInv
    <3> QED
      BY <1>1, <3>2, <3>3
  <2> QED
    BY <1>7, <1>8, <2>1, <2>2, <2>3, <2>4 DEF PitsInv
<1>10. Completed(e) = Completed(d)
  BY <1>1, <1>6, <1>7, <1>8 DEF Completed
<1> QED
  BY <1>1, <1>6, <1>7, <1>8, <1>9, <1>10 DEF e

\* An exit completes the open stop and no other.
LEMMA LeavePitSound ==
    ASSUME NEW at \in Nat \ {0}, NEW d \in Tables, PitsInv(d, at), OpenPit(d) # 0, NEW v \in Events
    PROVE  LET e == LeavePit(d, v, at)
               p == OpenPit(d)
           IN /\ e \in Tables /\ e.cur = d.cur /\ e.stints = d.stints /\ e.laps = d.laps
              /\ PitsInv(e, at) /\ Cardinality(Completed(d)) \in Nat
              /\ Cardinality(Completed(e)) = Cardinality(Completed(d)) + 1
              /\ p \in DOMAIN d.pits /\ ~ d.pits[p].done /\ DOMAIN e.pits = DOMAIN d.pits
              /\ e.pits[p].stop = IF v.time.k = "L" THEN v.time.n ELSE None
              /\ \A i \in DOMAIN d.pits : i # p => e.pits[i] = d.pits[i]
<1> DEFINE e == LeavePit(d, v, at)
           p == OpenPit(d)
           stop == IF v.time.k = "L" THEN v.time.n ELSE None
           q == [d.pits[p] EXCEPT !.out = at, !.done = TRUE, !.stop = stop]
           x == [d.pits EXCEPT ![p] = q]
           o == Len(d.pits)
<1>1. d.pits \in Seq(Stops) /\ o \in Nat /\ DOMAIN d.pits = 1..o
  BY DEF Tables
<1>2. p \in DOMAIN d.pits /\ ~ d.pits[p].done /\ d.pits[p] \in Stops
  BY <1>1, OpenPitSound
<1>3. e = [d EXCEPT !.pits = x]
  BY DEF LeavePit
<1>4. stop \in Nat
  BY DEF Events, LPits, None
<1> HIDE DEF stop, p
<1>5. q \in Stops /\ q.out = at /\ q.done /\ q.stop = stop /\ q.num = d.pits[p].num /\ q.in = d.pits[p].in
  BY <1>2, <1>4 DEF Stops
<1> HIDE DEF q
<1>6. /\ x \in Seq(Stops) /\ Len(x) = o /\ DOMAIN x = 1..o /\ x[p] = q
      /\ \A i \in 1..o : i # p => x[i] = d.pits[i]
  BY <1>1, <1>2, <1>5
<1> HIDE DEF e, x
<1>7. e \in Tables /\ e.cur = d.cur /\ e.pits = x /\ e.stints = d.stints /\ e.laps = d.laps
  BY <1>3, <1>6, OneTable
<1>8. PitsInv(e, at)
  <2>1. \A i \in 1..o : x[i].num = d.pits[i].num /\ x[i].in = d.pits[i].in
    BY <1>1, <1>2, <1>5, <1>6
  <2>2. \A i \in 1..o : x[i].done <=> x[i].out # None
    BY <1>1, <1>2, <1>5, <1>6 DEF PitsInv, None
  <2>3. \A i \in 1..o : x[i].done => x[i].in <= x[i].out
    BY <1>1, <1>2, <1>5, <1>6, <2>1 DEF PitsInv
  <2> QED
    BY <1>1, <1>6, <1>7, <2>1, <2>2, <2>3 DEF PitsInv
<1>9. Completed(e) = Completed(d) \cup {p} /\ p \notin Completed(d)
  BY <1>1, <1>2, <1>5, <1>6, <1>7 DEF Completed
<1>10. IsFiniteSet(Completed(d))
  <2>1. IsFiniteSet(1..o) /\ Completed(d) \subseteq 1..o
    BY <1>1, FS_Interval DEF Completed
  <2> QED
    BY <2>1, FS_Subset
<1>11. Cardinality(Completed(d)) \in Nat /\ Cardinality(Completed(e)) = Cardinality(Completed(d)) + 1
  BY <1>9, <1>10, FS_AddElement, FS_CardinalityType
<1> QED
  BY <1>1, <1>2, <1>5, <1>6, <1>7, <1>8, <1>11 DEF e, p, stop

\* Where a recorded duration comes from: the tables before, or the L-PIT of the event,
\* for one stop.
FromTime(d, e, time) ==
    \E p : \A i \in DOMAIN e.pits : e.pits[i].stop # None =>
        \/ i \in DOMAIN d.pits /\ e.pits[i].stop = d.pits[i].stop
        \/ i = p /\ time = L(e.pits[i].stop)

\* One queued event: an entry, an exit or neither.
LEMMA ReconcileSound ==
    ASSUME NEW at \in Nat \ {0}, NEW d, TablesInv(d, at), d.stints # <<>>,
           NEW v \in Events, v.time.k = "S" => v.time.n <= at
    PROVE  LET e == ReconcilePitAndTireStint(d, v, at)
           IN TablesInv(e, at) /\ e.cur = d.cur /\ e.stints # <<>> /\ Kept(d, e) /\ FromTime(d, e, v.time)
<1> DEFINE e == ReconcilePitAndTireStint(d, v, at)
           exits == ExitsPit(d, v) /\ OpenPit(d) # 0
           Base(f) == \A n \in DOMAIN f.laps : f.laps[n].clean => n \in Done(f) /\ {k \in Done(f) : k < n} # {}
<1>0. d \in Tables /\ PitsInv(d, at) /\ LapsInv(d, at) /\ CleanInv(d) /\ StintsInv(d, at) /\ Base(d) /\ v.lap \in Nat
  BY DEF TablesInv, CleanInv, Events
<1>1. ~ (IsEntry(v) /\ exits)
  BY DEF IsEntry, ExitsPit
<1>2. CASE ~ IsEntry(v) /\ ~ exits
  <2>1. e = EnsureTireStint(d, v.lap, at)
    BY <1>2 DEF ReconcilePitAndTireStint
  <2> HIDE DEF e
  <2>2. /\ e \in Tables /\ e.cur = d.cur /\ e.pits = d.pits /\ e.laps = d.laps
        /\ e.stints # <<>> /\ StintsInv(e, at) /\ Kept(d, e)
    BY <1>0, <2>1, EnsureTireStintSound
  <2>3. PitsInv(e, at) /\ CleanInv(e) /\ LapsInv(e, at)
    BY <1>0, <2>2, SameTables
  <2>4. FromTime(d, e, v.time)
    BY <2>2 DEF FromTime
  <2> QED
    BY <2>2, <2>3, <2>4 DEF TablesInv, e
<1>3. CASE IsEntry(v)
  <2> DEFINE a == EnterPit(d, v, at)
             b == EnsureTireStint(a, v.lap, at)
  <2>1. e = InvalidateCleanLapsForPit(b)
    BY <1>1, <1>3 DEF ReconcilePitAndTireStint
  <2> HIDE DEF e
  <2>2. /\ a \in Tables /\ a.cur = d.cur /\ a.stints = d.stints /\ a.laps = d.laps
        /\ PitsInv(a, at) /\ Completed(a) = Completed(d)
        /\ Len(a.pits) = Len(d.pits) + 1 /\ a.pits[Len(d.pits) + 1].stop = None
        /\ \A i \in DOMAIN d.pits : a.pits[i] = d.pits[i]
    BY <1>0, EnterPitSound
  <2> HIDE DEF a
  <2>3. StintsInv(a, at)
    BY <1>0, <2>2 DEF StintsInv
  <2>4. /\ b \in Tables /\ b.cur = a.cur /\ b.pits = a.pits /\ b.laps = a.laps
        /\ b.stints # <<>> /\ StintsInv(b, at) /\ Kept(a, b)
    BY <1>0, <2>2, <2>3, EnsureTireStintSound
  <2> HIDE DEF b
  <2>5. Base(b) /\ LapsInv(b, at)
    BY <1>0, <2>2, <2>4 DEF LapsInv, Done
  <2>6. /\ e \in Tables /\ e.cur = b.cur /\ e.pits = b.pits /\ e.stints = b.stints
        /\ LapsInv(e, at) /\ CleanInv(e)
    BY <2>1, <2>4, <2>5, InvalidateSound
  <2>7. PitsInv(e, at) /\ StintsInv(e, at)
    BY <2>2, <2>4, <2>6, SameTables
  <2>8. /\ Len(d.pits) \in Nat /\ DOMAIN d.pits = 1..Len(d.pits) /\ DOMAIN e.pits = 1..(Len(d.pits) + 1)
        /\ e.pits = a.pits
    BY <1>0, <2>2, <2>4, <2>6 DEF Tables
  <2>9. Kept(d, e)
    BY <2>2, <2>4, <2>6, <2>8 DEF Kept
  <2>10. FromTime(d, e, v.time)
    <3>1. \A i \in DOMAIN e.pits : e.pits[i].stop # None => i \in DOMAIN d.pits /\ e.pits[i].stop = d.pits[i].stop
      BY <2>2, <2>8
    <3> QED
      BY <3>1 DEF FromTime
  <2> QED
    BY <2>2, <2>4, <2>6, <2>7, <2>9, <2>10 DEF TablesInv, e
<1>4. CASE exits
  <2> DEFINE a == LeavePit(d, v, at)
             b == CompleteTireStint(a, v.lap, at)
             p == OpenPit(d)
  <2>1. e = InvalidateCleanLapsForPit(b)
    BY <1>1, <1>4 DEF ReconcilePitAndTireStint
  <2> HIDE DEF e
  <2>2. /\ a \in Tables /\ a.cur = d.cur /\ a.stints = d.stints /\ a.laps = d.laps
        /\ PitsInv(a, at) /\ Cardinality(Completed(d)) \in Nat
        /\ Cardinality(Completed(a)) = Cardinality(Completed(d)) + 1
        /\ p \in DOMAIN d.pits /\ ~ d.pits[p].done /\ DOMAIN a.pits = DOMAIN d.pits
        /\ a.pits[p].stop = IF v.time.k = "L" THEN v.time.n ELSE None
        /\ \A i \in DOMAIN d.pits : i # p => a.pits[i] = d.pits[i]
    BY <1>0, <1>4, LeavePitSound
  <2> HIDE DEF a, p
  <2>3. /\ b \in Tables /\ b.cur = a.cur /\ b.pits = a.pits /\ b.laps = a.laps
        /\ b.stints # <<>> /\ StintsInv(b, at)
        /\ \A i \in DOMAIN a.stints : a.stints[i].to # None => i \in DOMAIN b.stints /\ b.stints[i] = a.stints[i]
    BY <1>0, <2>2, CompleteTireStintSound
  <2> HIDE DEF b
  <2>4. Base(b) /\ LapsInv(b, at)
    BY <1>0, <2>2, <2>3 DEF LapsInv, Done
  <2>5. /\ e \in Tables /\ e.cur = b.cur /\ e.pits = b.pits /\ e.stints = b.stints
        /\ LapsInv(e, at) /\ CleanInv(e)
    BY <2>1, <2>3, <2>4, InvalidateSound
  <2>6. PitsInv(e, at) /\ StintsInv(e, at)
    BY <2>2, <2>3, <2>5, SameTables
  <2>7. e.pits = a.pits /\ e.stints = b.stints /\ a.stints = d.stints
    BY <2>2, <2>3, <2>5
  <2>8. Kept(d, e)
    BY <2>2, <2>3, <2>7 DEF Kept
  <2>9. FromTime(d, e, v.time)
    <3>1. v.time.k = "L" => v.time = L(v.time.n)
      BY DEF Events, LPits, L
    <3>2. \A i \in DOMAIN e.pits : e.pits[i].stop # None =>
            \/ i \in DOMAIN d.pits /\ e.pits[i].stop = d.pits[i].stop
            \/ i = p /\ v.time = L(e.pits[i].stop)
      BY <2>2, <2>7, <3>1
    <3> QED
      BY <3>2 DEF FromTime
  <2> QED
    BY <2>2, <2>3, <2>5, <2>6, <2>8, <2>9 DEF TablesInv, e
<1> QED
  BY <1>2, <1>3, <1>4

-----------------------------------------------------------------------------
(* One message.                                                            *)

\* The cells of a message.
LEMMA CellType ==
    ASSUME NEW m \in Messages
    PROVE  /\ m.h \in {"r_i", "r_c"}
           /\ Has(m, "state") => m.cells["state"] \in States
           /\ Has(m, "pits") => m.cells["pits"] \in Nat
           /\ Has(m, "laps") => m.cells["laps"] \in Nat
           /\ Has(m, "lpit") => m.cells["lpit"] \in LPits
<1>1. PICK r \in Rows, D \in SUBSET Cols : m.cells = [c \in D |-> r[c]]
  BY DEF Messages, CellMaps
<1>2. \A c : Has(m, c) => c \in D /\ m.cells[c] = r[c]
  BY <1>1 DEF Has
<1>3. r.state \in States /\ r.pits \in Nat /\ r.laps \in Nat /\ r.lpit \in LPits
  BY DEF Rows
<1> QED
  BY <1>2, <1>3 DEF Messages

\* The materialised row has the message's cells, and the last known ones.
LEMMA CurrentRowType ==
    ASSUME NEW m \in Messages, NEW acc, acc.row \in Rows
    PROVE  /\ CurrentRow(acc, m) \in Rows
           /\ CurrentRow(acc, m).laps = IF Has(m, "laps") THEN m.cells["laps"] ELSE acc.row.laps
           /\ CurrentRow(acc, m).lpit = IF Has(m, "lpit") THEN m.cells["lpit"] ELSE acc.row.lpit
<1> DEFINE row == CurrentRow(acc, m)
           of(c) == IF Has(m, c) THEN m.cells[c] ELSE acc.row[c]
           new == [state |-> of("state"), pits |-> of("pits"), laps |-> of("laps"), lpit |-> of("lpit")]
<1>1. DOMAIN NoRow = Cols
  BY DEF NoRow, Cols
<1>2. row = [c \in Cols |-> of(c)]
  BY <1>1 DEF CurrentRow
<1>3. of("state") \in States /\ of("pits") \in Nat /\ of("laps") \in Nat /\ of("lpit") \in LPits
  BY CellType DEF Rows
<1> HIDE DEF of
<1>4. DOMAIN new = Cols /\ new["state"] = of("state") /\ new["pits"] = of("pits") /\ new["laps"] = of("laps") /\ new["lpit"] = of("lpit")
  BY DEF Cols
<1>5. new = [c \in Cols |-> of(c)]
  <2>1. new = [c \in DOMAIN new |-> new[c]]
    OBVIOUS
  <2>2. \A c \in Cols : new[c] = of(c)
    BY <1>4 DEF Cols
  <2> HIDE DEF new
  <2> QED
    BY <1>4, <2>1, <2>2
<1>6. row = new
  BY <1>2, <1>5
<1>7. row \in Rows /\ row.laps = of("laps") /\ row.lpit = of("lpit")
  BY <1>3, <1>6 DEF Rows
<1> QED
  BY <1>7 DEF of

\* The event a message queues: its time is the L-PIT it brings, when that is a fact.
LEMMA PitEventType ==
    ASSUME NEW m \in Messages, NEW row \in Rows, NEW old \in Rows
    PROVE  LET v == PitEvent(m, row, old)
           IN /\ v \in Events /\ v.time = PitTimeEvent(m, old)
              /\ v.time # NoPit => /\ Has(m, "lpit") /\ v.time = m.cells["lpit"]
                                   /\ (m.h = "r_c" \/ old = NoRow \/ v.time # old.lpit)
<1>1. PitTimeEvent(m, old) \in LPits
  BY CellType DEF PitTimeEvent, NoPit, LPits
<1>2. Cell(m, "state") \in States
  <2>1. NoRow["state"] = "none"
    BY DEF NoRow
  <2>2. "none" \in States
    BY DEF States
  <2> QED
    BY <2>1, <2>2, CellType DEF Cell
<1>3. Cell(m, "pits") \in Nat
  BY CellType DEF Cell, NoRow
<1>4. row.laps \in Nat
  BY DEF Rows
<1>5. PitEvent(m, row, old) \in Events /\ PitEvent(m, row, old).time = PitTimeEvent(m, old)
  BY <1>1, <1>2, <1>3, <1>4 DEF PitEvent, Events
<1>6. PitTimeEvent(m, old) # NoPit => /\ Has(m, "lpit") /\ PitTimeEvent(m, old) = m.cells["lpit"]
                                       /\ (m.h = "r_c" \/ old = NoRow \/ m.cells["lpit"] # old.lpit)
  BY DEF PitTimeEvent
<1> DEFINE v == PitEvent(m, row, old)
<1> HIDE DEF v
<1>7. v.time # NoPit => /\ Has(m, "lpit") /\ v.time = m.cells["lpit"]
                        /\ (m.h = "r_c" \/ old = NoRow \/ v.time # old.lpit)
  BY <1>5, <1>6 DEF v
<1> QED
  BY <1>5, <1>7 DEF v

\* One message: the row, the laps it completes and the stint; stops are left alone.
LEMMA WriteRowStateSound ==
    ASSUME NEW at \in Nat \ {0}, NEW acc, TablesInv(acc.d, at), acc.row = acc.d.cur, acc.queue \in Seq(Events),
           NEW m \in Messages, Has(m, "laps") => acc.row.laps <= m.cells["laps"]
    PROVE  LET w == WriteRowState(acc, m, at)
           IN /\ w.row = CurrentRow(acc, m) /\ w.row = w.d.cur /\ TablesInv(w.d, at)
              /\ w.d.stints # <<>> /\ w.d.pits = acc.d.pits /\ Kept(acc.d, w.d)
              /\ w.queue = Queued(acc, m) /\ w.queue \in Seq(Events)
<1> DEFINE w == WriteRowState(acc, m, at)
           d == acc.d
           row == CurrentRow(acc, m)
           a == [d EXCEPT !.cur = row]
           completes == d.cur # NoRow /\ Has(m, "laps") /\ row.laps > d.cur.laps
           b == IF completes THEN CompleteLapsFromGrid(a, d.cur.laps, row.laps, row.state, at) ELSE a
           e == EnsureTireStint(b, row.laps, at)
<1>0. d \in Tables /\ PitsInv(d, at) /\ LapsInv(d, at) /\ CleanInv(d) /\ StintsInv(d, at) /\ d.cur \in Rows /\ acc.row \in Rows
  BY DEF TablesInv, Tables
<1>1. w = [row |-> row, d |-> e, queue |-> Queued(acc, m)]
  BY DEF WriteRowState
<1>2. row \in Rows /\ row.laps \in Nat /\ d.cur.laps \in Nat /\ d.cur.laps <= row.laps
  <2>1. row \in Rows /\ row.laps = IF Has(m, "laps") THEN m.cells["laps"] ELSE acc.row.laps
    BY <1>0, CurrentRowType
  <2>2. row.laps \in Nat /\ d.cur.laps \in Nat
    BY <1>0, <2>1 DEF Rows
  <2> HIDE DEF row
  <2> QED
    BY <2>1, <2>2
<1> HIDE DEF row
<1>3. a \in Tables /\ a.cur = row /\ a.pits = d.pits /\ a.stints = d.stints /\ a.laps = d.laps
  BY <1>0, <1>2, OneTable
<1> HIDE DEF a
<1>4. PitsInv(a, at) /\ CleanInv(a) /\ StintsInv(a, at)
  BY <1>0, <1>3, SameTables
<1>5. LapsInv(a, at)
  <2>1. Done(a) = Done(d)
    BY <1>3 DEF Done
  <2> QED
    BY <1>0, <1>2, <1>3, <2>1 DEF LapsInv
<1>6. b \in Tables /\ b.cur = row /\ b.pits = d.pits /\ b.stints = d.stints /\ LapsInv(b, at) /\ CleanInv(b)
  <2>1. CASE ~ completes
    BY <1>3, <1>4, <1>5, <2>1
  <2>2. CASE completes
    <3>1. DOMAIN a.laps \subseteq 1..d.cur.laps /\ d.cur.laps < a.cur.laps
      BY <1>0, <1>2, <1>3, <2>2 DEF LapsInv
    <3>2. LET c == CompleteLapsFromGrid(a, d.cur.laps, a.cur.laps, row.state, at)
          IN /\ c \in Tables /\ c.cur = a.cur /\ c.pits = a.pits /\ c.stints = a.stints
             /\ LapsInv(c, at) /\ CleanInv(c)
      <4>1. (\A n \in DOMAIN a.laps : a.laps[n].at <= at) /\ \A k, n \in Done(a) : k < n => a.laps[k].at <= a.laps[n].at
        BY <1>5 DEF LapsInv
      <4> QED
        BY <1>2, <1>3, <1>4, <3>1, <4>1, CompleteLapsSound
    <3>3. b = CompleteLapsFromGrid(a, d.cur.laps, a.cur.laps, row.state, at)
      BY <1>3, <2>2
    <3> HIDE DEF b
    <3> QED
      BY <1>3, <3>2, <3>3
  <2> QED
    BY <2>1, <2>2
<1> HIDE DEF b
<1>7. PitsInv(b, at) /\ StintsInv(b, at)
  BY <1>3, <1>4, <1>6, SameTables
<1>8. /\ e \in Tables /\ e.cur = b.cur /\ e.pits = b.pits /\ e.laps = b.laps
      /\ e.stints # <<>> /\ StintsInv(e, at) /\ Kept(b, e)
  BY <1>2, <1>6, <1>7, EnsureTireStintSound
<1> HIDE DEF e
<1>9. PitsInv(e, at) /\ CleanInv(e) /\ LapsInv(e, at)
  BY <1>6, <1>7, <1>8, SameTables
<1>10. Kept(d, e)
  BY <1>6, <1>8 DEF Kept
<1>11. Queued(acc, m) \in Seq(Events)
  <2>1. PitEvent(m, CurrentRow(acc, m), acc.d.cur) \in Events
    BY <1>0, <1>2, PitEventType DEF row
  <2> QED
    BY <2>1 DEF Queued
<1> QED
  BY <1>1, <1>6, <1>8, <1>9, <1>10, <1>11 DEF TablesInv, w, row

-----------------------------------------------------------------------------
(* The inductive invariant.                                                *)

Shows(i)  == Has(outbox[i], "lpit")
LpitOf(i) == outbox[i].cells["lpit"]
Lpits     == {LpitOf(i) : i \in {j \in DOMAIN outbox : Shows(j)}}

\* An L-PIT cell counted as the duration of a stop.
Recorded(v) == \E i \in DOMAIN db.pits : db.pits[i].stop # None /\ v = L(db.pits[i].stop)

\* The car is in the lane, or about to be shown there.
InStop == car.state = "IN_PIT" \/ "state" \in DOMAIN late

\* A duration shown is of a stop that has ended.
EndedOf(v, n, inStop) == v.k = "L" => v.n \in 1..n /\ (inStop => v.n < n)
Ended(v) == EndedOf(v, Len(stops), InStop)

ProviderInv ==
    /\ now \in 1..MaxTime /\ sent \in 0..MaxSent /\ up \in BOOLEAN
    /\ car \in Rows /\ late \in CellMaps /\ stops \in Seq([in : Nat, out : Nat])
    /\ outbox \in Seq(Messages) /\ (up \/ outbox = <<>>)
    /\ \A i \in DOMAIN outbox : outbox[i].h = "r_i" => i = 1

\* Lap counts arrive in order.
LapsOrder ==
    /\ "laps" \notin DOMAIN late /\ grid.laps <= car.laps
    /\ \A i \in DOMAIN outbox : Has(outbox[i], "laps") =>
         /\ grid.laps <= outbox[i].cells["laps"] /\ outbox[i].cells["laps"] <= car.laps
         /\ \A j \in DOMAIN outbox : i < j /\ Has(outbox[j], "laps") => outbox[i].cells["laps"] <= outbox[j].cells["laps"]

\* No instant of entry is in the future.
EntriesPast ==
    /\ car.lpit.k = "S" => car.lpit.n <= now
    /\ "lpit" \in DOMAIN late /\ late["lpit"].k = "S" => late["lpit"].n <= now
    /\ \A i \in DOMAIN outbox : Shows(i) /\ LpitOf(i).k = "S" => LpitOf(i).n <= now

\* The durations under way are all different, and of stops that have ended.
Distinct ==
    /\ Ended(car.lpit) /\ \A i \in DOMAIN db.pits : db.pits[i].stop # None => Ended(L(db.pits[i].stop))
    /\ "lpit" \in DOMAIN late => Ended(late["lpit"]) /\ (car.lpit.k = "L" => car.lpit # late["lpit"])
    /\ \A i \in DOMAIN outbox : Shows(i) =>
         /\ Ended(LpitOf(i))
         /\ LpitOf(i).k = "L" =>
              /\ "lpit" \in DOMAIN late => LpitOf(i) # late["lpit"]
              /\ \A j \in DOMAIN outbox : i < j /\ Shows(j) => LpitOf(i) # LpitOf(j) /\ LpitOf(i) # car.lpit

\* A duration already counted is not shown again as a fact.
Unrecorded ==
    /\ "lpit" \in DOMAIN late => ~ Recorded(late["lpit"])
    /\ Recorded(car.lpit) => grid.lpit = car.lpit /\ \A i \in DOMAIN outbox : Shows(i) => LpitOf(i) = car.lpit
    /\ \A i \in DOMAIN outbox : Shows(i) /\ Recorded(LpitOf(i)) => outbox[i].h = "r_i" /\ LpitOf(i) = grid.lpit

TablesNow ==
    /\ TablesInv(db, now) /\ DurationOnce /\ grid = db.cur
    /\ db.cur # NoRow => db.stints # <<>>

IInv == ProviderInv /\ LapsOrder /\ EntriesPast /\ Distinct /\ Unrecorded /\ TablesNow

-----------------------------------------------------------------------------
(* A frame.                                                                *)

\* After the first i messages of the outbox.
AtMessage(a, i) ==
    /\ a.row = a.d.cur /\ TablesInv(a.d, now) /\ a.queue \in Seq(Events)
    /\ a.d.pits = db.pits /\ Kept(db, a.d) /\ (i > 0 => a.d.stints # <<>>) /\ (i = 0 => a.row = grid)
    /\ a.row.laps <= car.laps
    /\ \A j \in DOMAIN outbox : j > i /\ Has(outbox[j], "laps") => a.row.laps <= outbox[j].cells["laps"]
    /\ a.row.lpit = grid.lpit \/ \E j \in 1..i : Shows(j) /\ a.row.lpit = LpitOf(j)
    /\ \A j \in 1..i : Shows(j) /\ (\A k \in 1..i : j < k => ~ Shows(k)) => a.row.lpit = LpitOf(j)

\* What the queue holds by then: durations not yet counted, each once.
AtQueue(queue, i) ==
    /\ \A q \in DOMAIN queue : queue[q].time.k = "S" => queue[q].time.n <= now
    /\ \A q \in DOMAIN queue : queue[q].time.k = "L" =>
         ~ Recorded(queue[q].time) /\ \E j \in 1..i : Shows(j) /\ LpitOf(j) = queue[q].time
    /\ \A q, r \in DOMAIN queue : q < r /\ queue[q].time.k = "L" => queue[q].time # queue[r].time

\* One message more.
LEMMA MessageStep ==
    ASSUME IInv, NEW i \in DOMAIN outbox, NEW a, AtMessage(a, i - 1), AtQueue(a.queue, i - 1)
    PROVE  AtMessage(WriteRowState(a, outbox[i], now), i) /\ AtQueue(WriteRowState(a, outbox[i], now).queue, i)
<1> DEFINE m == outbox[i]
           w == WriteRowState(a, m, now)
<1>0. /\ outbox \in Seq(Messages) /\ m \in Messages /\ now \in Nat \ {0} /\ DOMAIN outbox = 1..Len(outbox) /\ Len(outbox) \in Nat
      /\ i \in Nat \ {0} /\ car \in Rows /\ car.laps \in Nat
  BY DEF IInv, ProviderInv, Rows
<1>1. /\ a.row = a.d.cur /\ TablesInv(a.d, now) /\ a.queue \in Seq(Events) /\ a.d.cur \in Rows /\ a.row \in Rows
      /\ a.d.pits = db.pits /\ Kept(db, a.d)
  BY DEF AtMessage, TablesInv, Tables
<1>2. Has(m, "laps") => a.row.laps <= m.cells["laps"]
  BY <1>0 DEF AtMessage
<1>3. /\ w.row = CurrentRow(a, m) /\ w.row = w.d.cur /\ TablesInv(w.d, now)
      /\ w.d.stints # <<>> /\ w.d.pits = a.d.pits /\ Kept(a.d, w.d)
      /\ w.queue = Queued(a, m) /\ w.queue \in Seq(Events)
  BY <1>0, <1>1, <1>2, WriteRowStateSound
<1>4. /\ w.row.laps = IF Has(m, "laps") THEN m.cells["laps"] ELSE a.row.laps
      /\ w.row.lpit = IF Has(m, "lpit") THEN m.cells["lpit"] ELSE a.row.lpit
  <2>1. /\ CurrentRow(a, m).laps = IF Has(m, "laps") THEN m.cells["laps"] ELSE a.row.laps
        /\ CurrentRow(a, m).lpit = IF Has(m, "lpit") THEN m.cells["lpit"] ELSE a.row.lpit
    BY <1>0, <1>1, CurrentRowType
  <2> HIDE DEF w, m
  <2> QED
    BY <1>3, <2>1
<1> HIDE DEF w
<1>5. AtMessage(w, i)
  <2>1. Kept(db, w.d)
    BY <1>1, <1>3 DEF Kept
  <2>2. w.row.laps <= car.laps
    BY <1>0, <1>4 DEF IInv, LapsOrder, AtMessage
  <2>3. ASSUME NEW j \in DOMAIN outbox, j > i, Has(outbox[j], "laps") PROVE w.row.laps <= outbox[j].cells["laps"]
    BY <1>0, <1>4, <2>3 DEF IInv, LapsOrder, AtMessage
  <2>4. w.row.lpit = grid.lpit \/ \E j \in 1..i : Shows(j) /\ w.row.lpit = LpitOf(j)
    <3>1. CASE Has(m, "lpit")
      <4>1. i \in 1..i /\ Shows(i) /\ w.row.lpit = LpitOf(i)
        BY <1>0, <1>4, <3>1 DEF Shows, LpitOf
      <4> QED
        BY <4>1
    <3>2. CASE ~ Has(m, "lpit")
      BY <1>0, <1>4, <3>2 DEF AtMessage
    <3> QED
      BY <3>1, <3>2
  <2>5. ASSUME NEW j \in 1..i, Shows(j), \A k \in 1..i : j < k => ~ Shows(k) PROVE w.row.lpit = LpitOf(j)
    <3>1. CASE j = i
      BY <1>4, <2>5, <3>1 DEF Shows, LpitOf
    <3>2. CASE j < i
      <4>1. ~ Has(m, "lpit")
        BY <1>0, <2>5, <3>2 DEF Shows
      <4>2. j \in 1..(i - 1) /\ \A k \in 1..(i - 1) : j < k => ~ Shows(k)
        BY <1>0, <2>5, <3>2
      <4> QED
        BY <1>4, <2>5, <4>1, <4>2 DEF AtMessage
    <3> QED
      BY <1>0, <3>1, <3>2
  <2> QED
    BY <1>0, <1>1, <1>3, <2>1, <2>2, <2>3, <2>4, <2>5 DEF AtMessage
<1>6. AtQueue(w.queue, i)
  <2> DEFINE v == PitEvent(m, CurrentRow(a, m), a.d.cur)
  <2>1. /\ v \in Events /\ v.time = PitTimeEvent(m, a.d.cur)
        /\ v.time # NoPit => /\ Has(m, "lpit") /\ v.time = m.cells["lpit"]
                             /\ (m.h = "r_c" \/ a.d.cur = NoRow \/ v.time # a.d.cur.lpit)
    <3>1. CurrentRow(a, m) \in Rows
      BY <1>0, <1>1, CurrentRowType
    <3> QED
      BY <1>0, <1>1, <3>1, PitEventType
  <2> HIDE DEF v
  <2>2. v.time.k \in {"S", "L"} => Shows(i) /\ v.time = LpitOf(i)
    BY <2>1 DEF NoPit, Shows, LpitOf
  <2>3. v.time.k = "S" => v.time.n <= now
    BY <2>2 DEF IInv, EntriesPast
  <2>4. v.time.k = "L" => ~ Recorded(v.time)
    <3> SUFFICES ASSUME v.time.k = "L", Recorded(v.time) PROVE FALSE
      OBVIOUS
    <3>1. Shows(i) /\ v.time = LpitOf(i) /\ v.time # NoPit
      BY <2>2 DEF NoPit
    <3>2. m.h = "r_i" /\ v.time = grid.lpit
      BY <3>1 DEF IInv, Unrecorded
    <3>3. i = 1
      BY <3>2 DEF IInv, ProviderInv
    <3>4. a.d.cur = grid
      BY <1>1, <3>3 DEF AtMessage
    <3>5. grid # NoRow
      BY <3>1, <3>2 DEF NoRow
    <3> QED
      BY <2>1, <3>1, <3>2, <3>4, <3>5
  <2>5. \A q \in DOMAIN a.queue : a.queue[q].time.k = "L" =>
          ~ Recorded(a.queue[q].time) /\ \E j \in 1..(i - 1) : Shows(j) /\ LpitOf(j) = a.queue[q].time
    BY DEF AtQueue
  <2>6. CASE w.queue = a.queue
    <3>1. 1..(i - 1) \subseteq 1..i
      BY <1>0
    <3> QED
      BY <2>5, <2>6, <3>1 DEF AtQueue
  <2>7. CASE w.queue = Append(a.queue, v)
    <3> DEFINE l == Len(a.queue)
               x == w.queue
    <3>1. /\ l \in Nat /\ DOMAIN a.queue = 1..l /\ DOMAIN x = 1..(l + 1) /\ x[l + 1] = v
          /\ \A q \in 1..l : x[q] = a.queue[q]
      BY <1>1, <2>1, <2>7
    <3> HIDE DEF x, l
    <3>2. ASSUME NEW q \in DOMAIN x, x[q].time.k = "S" PROVE x[q].time.n <= now
      <4>1. CASE q = l + 1
        BY <2>3, <3>1, <3>2, <4>1
      <4>2. CASE q \in 1..l
        BY <3>1, <3>2, <4>2 DEF AtQueue
      <4> QED
        BY <3>1, <4>1, <4>2
    <3>3. ASSUME NEW q \in DOMAIN x, x[q].time.k = "L"
          PROVE  ~ Recorded(x[q].time) /\ \E j \in 1..i : Shows(j) /\ LpitOf(j) = x[q].time
      <4>1. CASE q = l + 1
        <5>1. i \in 1..i
          BY <1>0
        <5> QED
          BY <2>2, <2>4, <3>1, <3>3, <4>1, <5>1
      <4>2. CASE q \in 1..l
        <5>1. 1..(i - 1) \subseteq 1..i
          BY <1>0
        <5> QED
          BY <2>5, <3>1, <3>3, <4>2, <5>1
      <4> QED
        BY <3>1, <4>1, <4>2
    <3>4. ASSUME NEW q \in DOMAIN x, NEW r \in DOMAIN x, q < r, x[q].time.k = "L" PROVE x[q].time # x[r].time
      <4>0. q \in 1..l /\ x[q] = a.queue[q]
        BY <3>1, <3>4
      <4>1. CASE r = l + 1
        <5> SUFFICES ASSUME x[q].time = x[r].time PROVE FALSE
          OBVIOUS
        <5>1. v.time.k = "L" /\ v.time = x[q].time
          BY <3>1, <3>4, <4>1
        <5>2. Shows(i) /\ v.time = LpitOf(i)
          BY <2>2, <5>1
        <5>3. PICK j \in 1..(i - 1) : Shows(j) /\ LpitOf(j) = x[q].time
          BY <2>5, <3>1, <3>4, <4>0
        <5>4. j \in DOMAIN outbox /\ j < i
          BY <1>0
        <5>5. LpitOf(j) # LpitOf(i)
          BY <3>4, <5>2, <5>3, <5>4 DEF IInv, Distinct
        <5> QED
          BY <5>1, <5>2, <5>3, <5>5
      <4>2. CASE r \in 1..l
        BY <3>1, <3>4, <4>0, <4>2 DEF AtQueue
      <4> QED
        BY <3>1, <4>1, <4>2
    <3> QED
      BY <3>2, <3>3, <3>4 DEF AtQueue, x
  <2> QED
    BY <1>3, <2>6, <2>7 DEF Queued, v
<1> QED
  BY <1>5, <1>6 DEF w

\* The tables after the first k events of a queue, in a run from d.
AtEvent(queue, d, b, k) ==
    /\ TablesInv(b, now) /\ b.cur = d.cur /\ b.stints # <<>> /\ Kept(d, b)
    /\ \A i \in DOMAIN b.pits : b.pits[i].stop # None =>
         Recorded(L(b.pits[i].stop)) \/ \E q \in 1..k : q \in DOMAIN queue /\ queue[q].time = L(b.pits[i].stop)
    /\ \A i, j \in DOMAIN b.pits : i # j /\ b.pits[i].stop # None => b.pits[i].stop # b.pits[j].stop

\* An entry may take its instant from another event of the frame.
LEMMA TimedType ==
    ASSUME NEW queue \in Seq(Events), NEW v \in Events, NEW t \in Nat,
           \A q \in DOMAIN queue : queue[q].time.k = "S" => queue[q].time.n <= t, v.time.k = "S" => v.time.n <= t
    PROVE  LET u == Timed(queue, v)
           IN u \in Events /\ (u.time.k = "S" => u.time.n <= t) /\ (u.time.k = "L" => u.time = v.time)
<1> DEFINE entries == {i \in DOMAIN queue : queue[i].time.k = "S" /\ queue[i].time.n # None}
           c == CHOOSE i \in entries : TRUE
<1>1. CASE Timed(queue, v) = v
  BY <1>1
<1>2. CASE Timed(queue, v) # v
  <2>1. Cardinality(entries) = 1 /\ Timed(queue, v) = [v EXCEPT !.time = queue[c].time]
    BY <1>2 DEF Timed
  <2>2. entries # {}
    BY <2>1, FS_EmptySet
  <2>3. c \in entries
    BY <2>2
  <2>4. c \in DOMAIN queue /\ queue[c] \in Events /\ queue[c].time.k = "S"
    BY <2>3
  <2> HIDE DEF c
  <2>5. [v EXCEPT !.time = queue[c].time] \in Events /\ [v EXCEPT !.time = queue[c].time].time = queue[c].time
    BY <2>4 DEF Events
  <2> QED
    BY <2>1, <2>4, <2>5
<1> QED
  BY <1>1, <1>2

\* One event more.
LEMMA EventStep ==
    ASSUME now \in Nat \ {0}, NEW queue \in Seq(Events), NEW n, AtQueue(queue, n), NEW d, NEW b,
           NEW k \in DOMAIN queue, AtEvent(queue, d, b, k - 1)
    PROVE  AtEvent(queue, d, ReconcilePitAndTireStint(b, Timed(queue, queue[k]), now), k)
<1> DEFINE u == Timed(queue, queue[k])
           e == ReconcilePitAndTireStint(b, u, now)
<1>0. DOMAIN queue = 1..Len(queue) /\ Len(queue) \in Nat /\ k \in Nat \ {0} /\ queue[k] \in Events
  OBVIOUS
<1>1. u \in Events /\ (u.time.k = "S" => u.time.n <= now) /\ (u.time.k = "L" => u.time = queue[k].time)
  <2>1. \A q \in DOMAIN queue : queue[q].time.k = "S" => queue[q].time.n <= now
    BY DEF AtQueue
  <2> QED
    BY <1>0, <2>1, TimedType
<1> HIDE DEF u
<1>2. TablesInv(b, now) /\ b.stints # <<>>
  BY DEF AtEvent
<1>3. TablesInv(e, now) /\ e.cur = b.cur /\ e.stints # <<>> /\ Kept(b, e) /\ FromTime(b, e, u.time)
  BY <1>1, <1>2, ReconcileSound
<1> HIDE DEF e
<1>4. Kept(d, e)
  BY <1>3 DEF AtEvent, Kept
<1>5. PICK p : \A i \in DOMAIN e.pits : e.pits[i].stop # None =>
        \/ i \in DOMAIN b.pits /\ e.pits[i].stop = b.pits[i].stop
        \/ i = p /\ u.time = L(e.pits[i].stop)
  BY <1>3 DEF FromTime
<1>6. \A i \in DOMAIN e.pits : e.pits[i].stop # None /\ u.time = L(e.pits[i].stop) => queue[k].time = L(e.pits[i].stop) /\ queue[k].time.k = "L"
  BY <1>1 DEF L
<1>7. 1..(k - 1) \subseteq 1..k /\ k \in 1..k
  BY <1>0
<1>8. ASSUME NEW i \in DOMAIN e.pits, e.pits[i].stop # None
      PROVE  Recorded(L(e.pits[i].stop)) \/ \E q \in 1..k : q \in DOMAIN queue /\ queue[q].time = L(e.pits[i].stop)
  <2>1. CASE i \in DOMAIN b.pits /\ e.pits[i].stop = b.pits[i].stop
    BY <1>7, <1>8, <2>1 DEF AtEvent
  <2>2. CASE i = p /\ u.time = L(e.pits[i].stop)
    BY <1>6, <1>7, <1>8, <2>2
  <2> QED
    BY <1>5, <1>8, <2>1, <2>2
<1>9. ASSUME NEW i \in DOMAIN b.pits, b.pits[i].stop # None, queue[k].time = L(b.pits[i].stop) PROVE FALSE
  <2>1. queue[k].time.k = "L"
    BY <1>9 DEF L
  <2>2. ~ Recorded(L(b.pits[i].stop))
    BY <1>9, <2>1 DEF AtQueue
  <2>3. PICK q \in 1..(k - 1) : q \in DOMAIN queue /\ queue[q].time = L(b.pits[i].stop)
    BY <1>9, <2>2 DEF AtEvent
  <2>4. q < k /\ queue[q].time.k = "L"
    BY <1>0, <2>3 DEF L
  <2> QED
    BY <1>9, <2>3, <2>4 DEF AtQueue
<1>10. ASSUME NEW i \in DOMAIN e.pits, NEW j \in DOMAIN e.pits, i # j, e.pits[i].stop # None, e.pits[i].stop = e.pits[j].stop
       PROVE  FALSE
  <2>1. CASE i \in DOMAIN b.pits /\ e.pits[i].stop = b.pits[i].stop /\ j \in DOMAIN b.pits /\ e.pits[j].stop = b.pits[j].stop
    BY <1>10, <2>1 DEF AtEvent
  <2>2. CASE i \in DOMAIN b.pits /\ e.pits[i].stop = b.pits[i].stop /\ j = p /\ u.time = L(e.pits[j].stop)
    BY <1>6, <1>9, <1>10, <2>2
  <2>3. CASE j \in DOMAIN b.pits /\ e.pits[j].stop = b.pits[j].stop /\ i = p /\ u.time = L(e.pits[i].stop)
    BY <1>6, <1>9, <1>10, <2>3
  <2> QED
    BY <1>5, <1>10, <2>1, <2>2, <2>3
<1> QED
  BY <1>3, <1>4, <1>8, <1>10 DEF AtEvent, e, u

\* process_frame on the first n messages of the outbox: rows, then events.
LEMMA FrameSound ==
    ASSUME IInv, NEW n \in 1..MaxFrame, Receive(n)
    PROVE  \E a : /\ n \in DOMAIN outbox /\ AtMessage(a, n) /\ AtQueue(a.queue, n) /\ grid' = a.row
                  /\ AtEvent(a.queue, a.d, db', Len(a.queue))
<1> DEFINE ms == SubSeq(outbox, 1, n)
           start == [row |-> grid, d |-> db, queue |-> <<>>]
           applied == WriteRows(start, ms, now)
<1>0. n \in Nat \ {0} /\ n <= Len(outbox) /\ outbox \in Seq(Messages) /\ now \in Nat \ {0}
  BY PitStintsAssumption DEF Receive, IInv, ProviderInv
<1>1. Len(ms) = n /\ n \in DOMAIN outbox /\ DOMAIN outbox = 1..Len(outbox) /\ Len(outbox) \in Nat /\ \A i \in 1..n : ms[i] = outbox[i]
  BY <1>0
<1>2. grid' = applied.row /\ db' = ReconcileFramePitEvents(applied, now)
  BY DEF Receive
<1>3. AtMessage(start, 0) /\ AtQueue(start.queue, 0)
  <2>1. start.row = start.d.cur /\ TablesInv(start.d, now) /\ start.queue \in Seq(Events) /\ start.d.pits = db.pits /\ start.row = grid /\ DOMAIN start.queue = {}
    BY EmptySeq DEF IInv, TablesNow
  <2>2. Kept(db, start.d)
    BY DEF Kept
  <2>3. start.row.laps <= car.laps /\ \A j \in DOMAIN outbox : j > 0 /\ Has(outbox[j], "laps") => start.row.laps <= outbox[j].cells["laps"]
    BY <2>1 DEF IInv, LapsOrder
  <2> HIDE DEF start
  <2>4. AtMessage(start, 0)
    BY <2>1, <2>2, <2>3 DEF AtMessage
  <2>5. AtQueue(start.queue, 0)
    BY <2>1 DEF AtQueue
  <2> QED
    BY <2>4, <2>5
<1> HIDE DEF ms, start
<1>4. PICK A : /\ A = [i \in 0..Len(ms) |-> IF i = 0 THEN start ELSE WriteRowState(A[i - 1], ms[i], now)]
               /\ WriteRows(start, ms, now) = A[Len(ms)]
  <2>1. Len(ms) \in Nat
    BY <1>0, <1>1
  <2> QED
    BY <2>1, WriteRowsRun, Zenon
<1>5. A[0] = start /\ \A i \in 1..n : A[i] = WriteRowState(A[i - 1], outbox[i], now)
  <2>1. A[0] = start
    BY <1>0, <1>1, <1>4
  <2>2. ASSUME NEW i \in 1..n PROVE A[i] = WriteRowState(A[i - 1], outbox[i], now)
    <3>1. i \in 0..Len(ms) /\ i # 0 /\ ms[i] = outbox[i]
      BY <1>0, <1>1
    <3> QED
      BY <1>4, <3>1
  <2> QED
    BY <2>1, <2>2
<1>6. AtMessage(A[n], n) /\ AtQueue(A[n].queue, n)
  <2> DEFINE Good == {i \in 0..n : AtMessage(A[i], i) /\ AtQueue(A[i].queue, i)}
  <2>1. 0 \in Good
    BY <1>0, <1>3, <1>5
  <2>2. ASSUME NEW i \in 1..n, i - 1 \in Good PROVE i \in Good
    <3>1. i \in DOMAIN outbox /\ i \in 0..n
      BY <1>0, <1>1
    <3>2. AtMessage(A[i - 1], i - 1) /\ AtQueue(A[i - 1].queue, i - 1)
      BY <2>2
    <3> QED
      BY <1>5, <3>1, <3>2, MessageStep
  <2>3. 0..n \subseteq Good
    <3> HIDE DEF Good
    <3> QED
      BY <1>0, <2>1, <2>2, UpTo
  <2> QED
    BY <1>0, <2>3
<1> DEFINE a == A[n]
           queue == a.queue
<1>7. applied = a
  BY <1>1, <1>4
<1>8. queue \in Seq(Events) /\ Len(queue) \in Nat /\ DOMAIN queue = 1..Len(queue)
  BY <1>6 DEF AtMessage
<1> HIDE DEF a, applied
<1>9. PICK B : /\ B = [i \in 0..Len(a.queue) |->
                         IF i = 0 THEN a.d ELSE ReconcilePitAndTireStint(B[i - 1], Timed(a.queue, a.queue[i]), now)]
               /\ ReconcileFramePitEvents(a, now) = B[Len(a.queue)]
  BY <1>8, ReconcileRun
<1> DEFINE l == Len(queue)
<1>10. B[0] = a.d /\ \A i \in 1..l : B[i] = ReconcilePitAndTireStint(B[i - 1], Timed(queue, queue[i]), now)
  <2>1. B[0] = a.d
    BY <1>8, <1>9
  <2>2. ASSUME NEW i \in 1..l PROVE B[i] = ReconcilePitAndTireStint(B[i - 1], Timed(queue, queue[i]), now)
    <3>1. i \in 0..l /\ i # 0
      BY <1>8
    <3> QED
      BY <1>9, <3>1
  <2> QED
    BY <2>1, <2>2
<1>11. AtEvent(queue, a.d, B[0], 0)
  <2>1. TablesInv(a.d, now) /\ a.d.stints # <<>> /\ a.d.pits = db.pits
    BY <1>0, <1>6 DEF AtMessage, a
  <2>2. Kept(a.d, a.d)
    BY DEF Kept
  <2>3. \A i \in DOMAIN db.pits : db.pits[i].stop # None => Recorded(L(db.pits[i].stop))
    BY DEF Recorded
  <2>4. DurationOnce
    BY DEF IInv, TablesNow
  <2> QED
    BY <1>10, <2>1, <2>2, <2>3, <2>4 DEF AtEvent, DurationOnce
<1>12. AtEvent(queue, a.d, B[l], l)
  <2> DEFINE Good == {i \in 0..l : AtEvent(queue, a.d, B[i], i)}
  <2>1. 0 \in Good
    BY <1>8, <1>11
  <2>2. ASSUME NEW i \in 1..l, i - 1 \in Good PROVE i \in Good
    <3>1. i \in DOMAIN queue /\ i \in 0..l
      BY <1>8
    <3>2. AtEvent(queue, a.d, B[i - 1], i - 1) /\ AtQueue(queue, n)
      BY <1>6, <2>2 DEF a
    <3> QED
      BY <1>0, <1>8, <1>10, <3>1, <3>2, EventStep
  <2>3. 0..l \subseteq Good
    <3> HIDE DEF Good, l
    <3> QED
      BY <1>8, <2>1, <2>2, UpTo DEF l
  <2> QED
    BY <1>8, <2>3
<1> QED
  BY <1>1, <1>2, <1>6, <1>7, <1>9, <1>12 DEF a

-----------------------------------------------------------------------------
(* The steps.                                                              *)

\* Time may pass.
LEMMA Later ==
    ASSUME NEW d, NEW t \in Nat, NEW u \in Nat, t <= u, TablesInv(d, t)
    PROVE  TablesInv(d, u)
<1>1. d \in Tables /\ PitsInv(d, t) /\ LapsInv(d, t) /\ CleanInv(d) /\ StintsInv(d, t)
  BY DEF TablesInv
<1>2. \A i \in DOMAIN d.pits : d.pits[i].in \in Nat
  BY <1>1, StopType
<1>3. \A i \in DOMAIN d.stints : d.stints[i].from \in Nat
  <2>1. \A i \in DOMAIN d.stints : d.stints[i] \in Stints
    BY <1>1 DEF Tables
  <2> QED
    BY <2>1 DEF Stints
<1>4. \A n \in DOMAIN d.laps : d.laps[n].at \in Nat
  <2>1. PICK D \in SUBSET (Nat \ {0}) : d.laps \in [D -> [at : Nat, clean : BOOLEAN]]
    BY <1>1 DEF Tables, Laps
  <2> QED
    BY <2>1
<1>5. PitsInv(d, u)
  BY <1>1, <1>2 DEF PitsInv
<1>6. LapsInv(d, u)
  BY <1>1, <1>4 DEF LapsInv
<1>7. StintsInv(d, u)
  <2>1. \A i \in DOMAIN d.stints : d.stints[i].from <= u
    BY <1>1, <1>3 DEF StintsInv
  <2> QED
    BY <1>1, <2>1 DEF StintsInv
<1> QED
  BY <1>1, <1>5, <1>6, <1>7 DEF TablesInv

\* Cells of a row.
LEMMA CellsOfRow ==
    ASSUME NEW r \in Rows, NEW D \in SUBSET Cols
    PROVE  [c \in D |-> r[c]] \in CellMaps
  BY DEF CellMaps

\* A change shown, now or a message later, whose L-PIT is new.
LEMMA ShowInvariant ==
    ASSUME IInv, NEW row, NEW first, NEW later, Show(row, first, later), UNCHANGED <<now, up, grid, db>>,
           stops' \in Seq([in : Nat, out : Nat]), [c \in first |-> row[c]] \in CellMaps, [c \in later |-> row[c]] \in CellMaps,
           "laps" \notin later, "laps" \in first => car.laps <= row["laps"], ~ ("lpit" \in first /\ "lpit" \in later),
           Len(stops) < Len(stops') \/ (Len(stops) = Len(stops') /\ (InStop' => InStop)),
           "lpit" \in first \cup later =>
             /\ row["lpit"].k = "S" => row["lpit"].n <= now
             /\ EndedOf(row["lpit"], Len(stops'), InStop') /\ ~ Recorded(row["lpit"])
             /\ car.lpit.k = "L" => car.lpit # row["lpit"]
             /\ \A i \in DOMAIN outbox : Shows(i) /\ LpitOf(i).k = "L" => LpitOf(i) # row["lpit"]
    PROVE  IInv'
<1> DEFINE cells == [c \in first |-> row[c]]
           m == [h |-> "r_c", cells |-> cells]
           l == Len(outbox)
<1>0. /\ car \in Rows /\ outbox \in Seq(Messages) /\ l \in Nat /\ DOMAIN outbox = 1..l /\ Len(stops) \in Nat /\ Len(stops') \in Nat
      /\ car.laps \in Nat /\ grid.laps <= car.laps /\ grid.laps \in Nat
  <2>1. grid \in Rows
    BY DEF IInv, TablesNow, TablesInv, Tables
  <2> QED
    BY <2>1 DEF IInv, ProviderInv, LapsOrder, Rows
<1>1. m \in Messages /\ m.h = "r_c" /\ m.cells = cells /\ DOMAIN cells = first /\ \A c : Has(m, c) <=> c \in first
  BY DEF Messages, Has
<1>2. /\ car' \in Rows
      /\ car'.laps = IF "laps" \in first THEN row["laps"] ELSE car.laps
      /\ car'.lpit = IF "lpit" \in first THEN row["lpit"] ELSE car.lpit
  <2> DEFINE acc == [row |-> car]
  <2>1. DOMAIN car = DOMAIN NoRow /\ acc.row = car
    BY <1>0 DEF Rows, NoRow
  <2>2. car' = CurrentRow(acc, m)
    BY <1>1, <2>1 DEF Show, CurrentRow
  <2> HIDE DEF acc, m
  <2>3. /\ CurrentRow(acc, m) \in Rows
        /\ CurrentRow(acc, m).laps = IF Has(m, "laps") THEN m.cells["laps"] ELSE acc.row.laps
        /\ CurrentRow(acc, m).lpit = IF Has(m, "lpit") THEN m.cells["lpit"] ELSE acc.row.lpit
    BY <1>0, <1>1, <2>1, CurrentRowType
  <2>4. \A c \in first : m.cells[c] = row[c]
    BY <1>1
  <2> QED
    BY <1>1, <2>1, <2>2, <2>3, <2>4
<1>3. late' \in CellMaps /\ DOMAIN late' = later /\ \A c \in later : late'[c] = row[c]
  BY DEF Show
<1> HIDE DEF m, cells
<1>4. /\ outbox' \in Seq(Messages) /\ (up' \/ outbox' = <<>>)
      /\ DOMAIN outbox \subseteq DOMAIN outbox' /\ DOMAIN outbox' \subseteq 1..(l + 1)
      /\ \A i \in DOMAIN outbox : outbox'[i] = outbox[i]
      /\ \A i \in DOMAIN outbox' \ DOMAIN outbox : i = l + 1 /\ outbox'[i] = m
  <2>1. CASE up
    <3>1. outbox' = Append(outbox, m)
      BY <2>1 DEF Show, m, cells
    <3> QED
      BY <1>0, <1>1, <2>1, <3>1
  <2>2. CASE ~ up
    <3>1. outbox' = outbox /\ outbox = <<>>
      BY <2>2 DEF Show, IInv, ProviderInv
    <3> QED
      BY <1>0, <3>1
  <2> QED
    BY <2>1, <2>2
<1>5. \A i \in DOMAIN outbox : (Shows(i)' <=> Shows(i)) /\ (LpitOf(i)' = LpitOf(i))
  BY <1>4 DEF Shows, LpitOf
<1>6. \A i \in DOMAIN outbox' \ DOMAIN outbox : (Shows(i)' <=> "lpit" \in first) /\ ("lpit" \in first => (LpitOf(i)' = row["lpit"]))
  BY <1>1, <1>4 DEF Shows, LpitOf, cells
<1>7. \A i \in DOMAIN outbox' \ DOMAIN outbox : \A j \in DOMAIN outbox' : ~(i < j)
  BY <1>0, <1>4
<1>8. ProviderInv'
  <2>1. \A i \in DOMAIN outbox' : outbox'[i].h = "r_i" => i = 1
    BY <1>1, <1>4 DEF IInv, ProviderInv
  <2>2. sent' \in 0..MaxSent /\ now' \in 1..MaxTime /\ up' \in BOOLEAN
    BY PitStintsAssumption DEF IInv, ProviderInv, Show
  <2> QED
    BY <1>2, <1>3, <1>4, <2>1, <2>2 DEF ProviderInv
<1>9. LapsOrder'
  <2>1. "laps" \notin DOMAIN late' /\ grid'.laps <= car'.laps /\ car.laps <= car'.laps /\ car'.laps \in Nat
    BY <1>0, <1>2, <1>3 DEF Rows
  <2>2. \A i \in DOMAIN outbox : Has(outbox[i], "laps") => outbox[i].cells["laps"] \in Nat
    BY <1>0, CellType
  <2>3. \A i \in DOMAIN outbox' \ DOMAIN outbox : Has(outbox'[i], "laps") => "laps" \in first /\ outbox'[i].cells["laps"] = car'.laps
    BY <1>1, <1>2, <1>4 DEF cells
  <2>4. ASSUME NEW i \in DOMAIN outbox', Has(outbox'[i], "laps")
        PROVE  /\ grid'.laps <= outbox'[i].cells["laps"] /\ outbox'[i].cells["laps"] <= car'.laps
               /\ \A j \in DOMAIN outbox' : i < j /\ Has(outbox'[j], "laps") => outbox'[i].cells["laps"] <= outbox'[j].cells["laps"]
    <3>1. CASE i \in DOMAIN outbox
      <4>1. grid.laps <= outbox[i].cells["laps"] /\ outbox[i].cells["laps"] <= car.laps /\ outbox[i].cells["laps"] \in Nat
        BY <1>4, <2>2, <2>4, <3>1 DEF IInv, LapsOrder
      <4>2. outbox[i].cells["laps"] <= car'.laps
        BY <1>0, <2>1, <4>1
      <4>3. \A j \in DOMAIN outbox : i < j /\ Has(outbox[j], "laps") => outbox[i].cells["laps"] <= outbox[j].cells["laps"]
        BY <1>4, <2>4, <3>1 DEF IInv, LapsOrder
      <4> QED
        BY <1>4, <2>3, <3>1, <4>1, <4>2, <4>3
    <3>2. CASE i \notin DOMAIN outbox
      BY <1>7, <2>1, <2>3, <2>4, <3>2
    <3> QED
      BY <3>1, <3>2
  <2> QED
    BY <2>1, <2>4 DEF LapsOrder
<1>10. EntriesPast'
  BY <1>2, <1>3, <1>5, <1>6 DEF IInv, EntriesPast
<1> DEFINE E(v) == EndedOf(v, Len(stops'), InStop')
<1>11. (\A v : Ended(v) => E(v)) /\ ("lpit" \in first \cup later => E(row["lpit"]))
  <2>1. \A v : Ended(v) => E(v)
    BY <1>0 DEF Ended, EndedOf
  <2>2. "lpit" \in first \cup later => E(row["lpit"])
    OBVIOUS
  <2> QED
    BY <2>1, <2>2
<1> HIDE DEF E
<1>12. Distinct'
  <2>1. E(car'.lpit)
    BY <1>2, <1>11 DEF IInv, Distinct
  <2>2. \A i \in DOMAIN db.pits : db.pits[i].stop # None => E(L(db.pits[i].stop))
    BY <1>11 DEF IInv, Distinct
  <2>3. "lpit" \in later => E(late'["lpit"]) /\ (car'.lpit.k = "L" => car'.lpit # late'["lpit"])
    BY <1>2, <1>3, <1>11
  <2>4. ASSUME NEW i \in DOMAIN outbox', Shows(i)'
        PROVE  /\ E(LpitOf(i)')
               /\ LpitOf(i)'.k = "L" =>
                    /\ "lpit" \in later => LpitOf(i)' # late'["lpit"]
                    /\ \A j \in DOMAIN outbox' : i < j /\ Shows(j)' => LpitOf(i)' # LpitOf(j)' /\ LpitOf(i)' # car'.lpit
    <3>1. CASE i \in DOMAIN outbox
      BY <1>2, <1>3, <1>5, <1>6, <1>11, <2>4, <3>1 DEF IInv, Distinct
    <3>2. CASE i \notin DOMAIN outbox
      BY <1>3, <1>6, <1>7, <1>11, <2>4, <3>2
    <3> QED
      BY <3>1, <3>2
  <2> QED
    BY <1>3, <2>1, <2>2, <2>3, <2>4 DEF Distinct, Ended, E
<1>13. Unrecorded'
  BY <1>1, <1>2, <1>3, <1>4, <1>5, <1>6 DEF IInv, Unrecorded, Recorded
<1>14. TablesNow'
  BY DEF IInv, TablesNow, TablesInv, DurationOnce
<1> QED
  BY <1>8, <1>9, <1>10, <1>12, <1>13, <1>14 DEF IInv

\* The whole row as cells.
LEMMA RowIsCells == ASSUME NEW r \in Rows PROVE r \in CellMaps /\ DOMAIN r = Cols
<1>1. DOMAIN r = Cols /\ r = [c \in Cols |-> r[c]]
  BY DEF Rows, Cols
<1>2. [c \in Cols |-> r[c]] \in CellMaps
  BY CellsOfRow
<1> QED
  BY <1>1, <1>2

\* The first connection.
LEMMA InitInvariant == Init => IInv
<1> SUFFICES ASSUME Init PROVE IInv
  OBVIOUS
<1> DEFINE m == [h |-> "r_i", cells |-> car]
<1>1. car \in Rows /\ car.laps = 0 /\ car.lpit = NoPit /\ NoRow \in Rows
  BY DEF Init, Rows, States, LPits, NoPit, NoRow
<1>2. m \in Messages /\ m.h = "r_i" /\ m.cells = car
  BY <1>1, RowIsCells DEF Messages
<1>3. outbox = <<m>>
  BY DEF Init
<1> HIDE DEF m
<1>4. outbox \in Seq(Messages) /\ DOMAIN outbox = {1} /\ outbox[1] = m
  BY <1>2, <1>3
<1>5. late = NoCells /\ DOMAIN late = {} /\ late \in CellMaps
  <2>1. [c \in {} |-> car[c]] \in CellMaps
    BY <1>1, CellsOfRow
  <2>2. late = [c \in {} |-> car[c]] /\ DOMAIN late = {}
    BY DEF Init, NoCells
  <2> QED
    BY <2>1, <2>2 DEF Init
<1>6. ProviderInv
  <2>1. stops \in Seq([in : Nat, out : Nat])
    BY EmptySeq DEF Init
  <2> QED
    BY <1>1, <1>4, <1>5, <2>1, PitStintsAssumption DEF Init, ProviderInv
<1>7. LapsOrder
  BY <1>1, <1>2, <1>4, <1>5 DEF Init, LapsOrder, NoRow
<1>8. \A i \in DOMAIN outbox : Shows(i) => LpitOf(i) = NoPit
  BY <1>1, <1>2, <1>4 DEF LpitOf, Shows, Has
<1>9. db.pits = <<>> /\ DOMAIN db.pits = {} /\ db.stints = <<>> /\ DOMAIN db.stints = {} /\ db.laps = <<>> /\ DOMAIN db.laps = {}
  BY DEF Init
<1>10. EntriesPast
  BY <1>1, <1>5, <1>8 DEF EntriesPast, NoPit
<1>11. Distinct
  BY <1>1, <1>5, <1>8, <1>9 DEF Distinct, Ended, EndedOf, NoPit
<1>12. Unrecorded
  BY <1>5, <1>9 DEF Unrecorded, Recorded
<1>13. TablesNow
  <2>1. db.laps \in Laps
    <3>1. db.laps \in [{} -> [at : Nat, clean : BOOLEAN]]
      BY <1>9
    <3> QED
      BY <3>1 DEF Laps
  <2>2. db.cur = NoRow /\ db = [cur |-> NoRow, pits |-> <<>>, stints |-> <<>>, laps |-> <<>>]
    BY DEF Init
  <2>3. db \in Tables
    BY <1>1, <1>9, <2>1, <2>2, EmptySeq DEF Tables
  <2>4. PitsInv(db, now) /\ LapsInv(db, now) /\ CleanInv(db)
    BY <1>9 DEF PitsInv, LapsInv, CleanInv, Done
  <2>5. StintsInv(db, now)
    BY <1>9 DEF StintsInv, Completed
  <2> QED
    BY <1>9, <2>2, <2>3, <2>4, <2>5 DEF TablesNow, TablesInv, DurationOnce, Init
<1> QED
  BY <1>6, <1>7, <1>10, <1>11, <1>12, <1>13 DEF IInv

\* The clock only moves forward.
LEMMA TickInvariant == ASSUME IInv, Tick PROVE IInv'
<1>1. now \in Nat /\ now' \in Nat /\ now <= now' /\ now' \in 1..MaxTime
  BY PitStintsAssumption DEF Tick, IInv, ProviderInv
<1>2. UNCHANGED <<car, late, stops, outbox, sent, up, gaps, grid, db>>
  BY DEF Tick
<1>3. ProviderInv' /\ LapsOrder' /\ Distinct' /\ Unrecorded'
  <2>1. ProviderInv'
    BY <1>1, <1>2 DEF IInv, ProviderInv
  <2>2. LapsOrder'
    BY <1>2 DEF IInv, LapsOrder
  <2>3. Distinct'
    BY <1>2 DEF IInv, Distinct, Ended, InStop, Shows, LpitOf
  <2>4. Unrecorded'
    BY <1>2 DEF IInv, Unrecorded, Recorded, Shows, LpitOf
  <2> QED
    BY <2>1, <2>2, <2>3, <2>4
<1>4. EntriesPast'
  <2>1. car.lpit \in LPits
    BY DEF IInv, ProviderInv, Rows
  <2>2. "lpit" \in DOMAIN late => late["lpit"] \in LPits
    <3>1. PICK r \in Rows, D \in SUBSET Cols : late = [c \in D |-> r[c]]
      BY DEF IInv, ProviderInv, CellMaps
    <3>2. r["lpit"] \in LPits
      BY DEF Rows
    <3> QED
      BY <3>1, <3>2
  <2>3. \A i \in DOMAIN outbox : Shows(i) => LpitOf(i) \in LPits
    BY CellType DEF IInv, ProviderInv, Shows, LpitOf
  <2>4. \A v \in LPits : v.n \in Nat /\ (v.n <= now => v.n <= now')
    BY <1>1 DEF LPits
  <2>5. \A i \in DOMAIN outbox' : (Shows(i)' <=> Shows(i)) /\ LpitOf(i)' = LpitOf(i) /\ i \in DOMAIN outbox
    BY <1>2 DEF Shows, LpitOf
  <2> QED
    BY <1>2, <2>1, <2>2, <2>3, <2>4, <2>5 DEF IInv, EntriesPast
<1>5. TablesNow'
  <2>1. TablesInv(db, now')
    BY <1>1, Later DEF IInv, TablesNow
  <2> QED
    BY <1>2, <2>1 DEF IInv, TablesNow, DurationOnce
<1> QED
  BY <1>3, <1>4, <1>5 DEF IInv

\* The state cell of the row after a change.
LEMMA ShownState ==
    ASSUME car \in Rows, NEW row, NEW first, NEW later, Show(row, first, later)
    PROVE  (car'.state = IF "state" \in first THEN row["state"] ELSE car.state) /\ DOMAIN late' = later
<1>1. DOMAIN car = Cols /\ "state" \in Cols
  BY RowIsCells DEF Cols
<1>2. car'["state"] = IF "state" \in first THEN row["state"] ELSE car["state"]
  BY <1>1 DEF Show
<1> QED
  BY <1>2 DEF Show

\* A recorded L-PIT is a duration.
LEMMA RecordedIsDuration == \A v : v.k # "L" => ~ Recorded(v)
  BY DEF Recorded, L

\* The late cells of a change are shown.
LEMMA ShowLateInvariant == ASSUME IInv, ShowLate PROVE IInv'
<1>0. car \in Rows /\ late \in CellMaps /\ stops \in Seq([in : Nat, out : Nat]) /\ Show(late, DOMAIN late, {})
      /\ UNCHANGED <<now, stops, up, gaps, grid, db>>
  BY DEF IInv, ProviderInv, ShowLate
<1>1. [c \in DOMAIN late |-> late[c]] \in CellMaps
  <2>1. PICK r \in Rows, D \in SUBSET Cols : late = [c \in D |-> r[c]]
    BY <1>0 DEF CellMaps
  <2>2. late = [c \in DOMAIN late |-> late[c]]
    BY <2>1
  <2> QED
    BY <1>0, <2>2
<1>2. [c \in {} |-> late[c]] \in CellMaps
  <2>1. [c \in {} |-> car[c]] \in CellMaps
    BY <1>0, CellsOfRow
  <2>2. [c \in {} |-> late[c]] = [c \in {} |-> car[c]]
    OBVIOUS
  <2> QED
    BY <2>1, <2>2
<1>3. InStop' => InStop
  BY <1>0, ShownState DEF InStop
<1>4. Len(stops) = Len(stops') /\ stops' \in Seq([in : Nat, out : Nat])
  BY <1>0
<1>5. "lpit" \in DOMAIN late =>
        /\ late["lpit"].k = "S" => late["lpit"].n <= now
        /\ Ended(late["lpit"]) /\ ~ Recorded(late["lpit"])
        /\ car.lpit.k = "L" => car.lpit # late["lpit"]
        /\ \A i \in DOMAIN outbox : Shows(i) /\ LpitOf(i).k = "L" => LpitOf(i) # late["lpit"]
  BY DEF IInv, EntriesPast, Distinct, Unrecorded
<1>6. "lpit" \in DOMAIN late => EndedOf(late["lpit"], Len(stops'), InStop')
  BY <1>3, <1>4, <1>5 DEF Ended, EndedOf
<1>7. PICK row : row = late
  OBVIOUS
<1> QED
  BY <1>0, <1>1, <1>2, <1>3, <1>4, <1>5, <1>6, <1>7, ShowInvariant DEF IInv, LapsOrder

\* A stop begins: no cell shown before was its entry.
LEMMA CarEntersInvariant ==
    ASSUME IInv, NEW first \in SUBSET Cols, "laps" \notin first, NEW instant \in BOOLEAN, CarEnters(first, instant)
    PROVE  IInv'
<1> DEFINE changed == {"state", "pits"} \cup (IF instant THEN {"lpit"} ELSE {})
           row == [car EXCEPT !.state = "IN_PIT", !.pits = @ + 1, !.lpit = S(now)]
           now_ == first \cap changed
           later == changed \ first
<1>0. car \in Rows /\ now \in Nat /\ stops \in Seq([in : Nat, out : Nat])
  BY DEF IInv, ProviderInv
<1>1. Show(row, now_, later) /\ UNCHANGED <<now, up, grid, db>> /\ stops' = Append(stops, [in |-> now, out |-> None])
  BY DEF CarEnters
<1>2. row \in Rows /\ row.laps = car.laps /\ row.lpit = S(now)
  <2>1. "IN_PIT" \in States /\ car.pits + 1 \in Nat /\ S(now) \in LPits
    BY <1>0 DEF Rows, States, LPits, S
  <2>2. PICK n \in Nat : n = car.pits + 1
    BY <2>1
  <2>3. PICK v \in LPits : v = S(now)
    BY <2>1
  <2>4. row = [car EXCEPT !.state = "IN_PIT", !.pits = n, !.lpit = v]
    BY <2>2, <2>3
  <2> HIDE DEF row
  <2> QED
    BY <1>0, <2>1, <2>3, <2>4 DEF Rows
<1>3. now_ \in SUBSET Cols /\ later \in SUBSET Cols /\ "laps" \notin now_ /\ "laps" \notin later
      /\ ~ ("lpit" \in now_ /\ "lpit" \in later)
  BY DEF Cols
<1> HIDE DEF row, now_, later
<1>4. [c \in now_ |-> row[c]] \in CellMaps /\ [c \in later |-> row[c]] \in CellMaps
  BY <1>2, <1>3, CellsOfRow
<1>5. stops' \in Seq([in : Nat, out : Nat]) /\ Len(stops) < Len(stops')
  <2>1. [in |-> now, out |-> None] \in [in : Nat, out : Nat]
    BY <1>0 DEF None
  <2> QED
    BY <1>0, <1>1, <2>1
<1>6. row["lpit"].k = "S" /\ row["lpit"].n = now
  BY <1>2 DEF S
<1>7. /\ row["lpit"].n <= now /\ EndedOf(row["lpit"], Len(stops'), InStop') /\ ~ Recorded(row["lpit"])
      /\ car.lpit.k = "L" => car.lpit # row["lpit"]
      /\ \A i \in DOMAIN outbox : Shows(i) /\ LpitOf(i).k = "L" => LpitOf(i) # row["lpit"]
  BY <1>0, <1>6, RecordedIsDuration DEF EndedOf
<1>8. PICK r, f, l : r = row /\ f = now_ /\ l = later
  OBVIOUS
<1> QED
  BY <1>1, <1>3, <1>4, <1>5, <1>7, <1>8, ShowInvariant

\* A stop ends: its duration was never shown before.
LEMMA CarLeavesInvariant ==
    ASSUME IInv, NEW first \in {{"state", "lpit"}, {"state"}}, NEW state \in {"ON_TRACK", "OUT_LAP"}, CarLeaves(first, state)
    PROVE  IInv'
<1> DEFINE row == [car EXCEPT !.state = state, !.lpit = IF stops = <<>> THEN NoPit ELSE L(Len(stops))]
           later == {"state", "lpit"} \ first
<1>0. car \in Rows /\ now \in Nat /\ stops \in Seq([in : Nat, out : Nat]) /\ Len(stops) \in Nat
  BY DEF IInv, ProviderInv
<1>1. Show(row, first, later) /\ UNCHANGED <<now, up, grid, db>> /\ car.state = "IN_PIT"
      /\ stops' = IF stops = <<>> THEN stops ELSE [stops EXCEPT ![Len(stops)].out = now]
  BY DEF CarLeaves, InLane
<1>2. row \in Rows /\ row.lpit = (IF stops = <<>> THEN NoPit ELSE L(Len(stops))) /\ row.state = state
  BY <1>0 DEF Rows, States, LPits, L, NoPit
<1>3. first \in SUBSET Cols /\ later \in SUBSET Cols /\ "laps" \notin first /\ "laps" \notin later
      /\ ~ ("lpit" \in first /\ "lpit" \in later) /\ "state" \in first /\ "state" \notin later
  BY DEF Cols
<1> HIDE DEF row, later
<1>4. [c \in first |-> row[c]] \in CellMaps /\ [c \in later |-> row[c]] \in CellMaps
  BY <1>2, <1>3, CellsOfRow
<1>5. stops' \in Seq([in : Nat, out : Nat]) /\ Len(stops) = Len(stops')
  <2>1. CASE stops = <<>>
    BY <1>0, <1>1, <2>1
  <2>2. CASE stops # <<>>
    <3>0. DOMAIN stops = 1..Len(stops) /\ Len(stops) # 0
      BY <1>0, <2>2
    <3>1. Len(stops) \in DOMAIN stops /\ stops[Len(stops)] \in [in : Nat, out : Nat]
      <4>1. PICK T : T = [in : Nat, out : Nat]
        OBVIOUS
      <4>2. stops \in Seq(T) /\ Len(stops) \in DOMAIN stops
        BY <1>0, <3>0, <4>1
      <4>3. stops[Len(stops)] \in T
        BY <4>2
      <4> QED
        BY <4>1, <4>2, <4>3
    <3>2. [stops[Len(stops)] EXCEPT !.out = now] \in [in : Nat, out : Nat]
      BY <1>0, <3>1
    <3>3. stops' = [stops EXCEPT ![Len(stops)] = [stops[Len(stops)] EXCEPT !.out = now]]
      BY <1>1, <2>2
    <3> QED
      BY <1>0, <3>1, <3>2, <3>3
  <2> QED
    BY <2>1, <2>2
<1>6. ~ InStop'
  <2>1. car'.state = row["state"] /\ DOMAIN late' = later
    BY <1>0, <1>1, <1>3, ShownState
  <2> QED
    BY <1>2, <1>3, <2>1 DEF InStop
<1>7. ASSUME NEW v, Ended(v), v.k = "L" PROVE v # row["lpit"]
  <2>1. CASE stops = <<>>
    BY <1>2, <1>7, <2>1 DEF NoPit
  <2>2. CASE stops # <<>>
    <3>1. v.n < Len(stops)
      BY <1>1, <1>7 DEF Ended, EndedOf, InStop
    <3>2. row["lpit"].n = Len(stops)
      BY <1>2, <2>2 DEF L
    <3> QED
      BY <1>0, <3>1, <3>2
  <2> QED
    BY <2>1, <2>2
<1>8. ~ Recorded(row["lpit"])
  <2> SUFFICES ASSUME Recorded(row["lpit"]) PROVE FALSE
    OBVIOUS
  <2>1. PICK i \in DOMAIN db.pits : db.pits[i].stop # None /\ row["lpit"] = L(db.pits[i].stop)
    BY DEF Recorded
  <2>2. Ended(row["lpit"]) /\ row["lpit"].k = "L"
    BY <2>1 DEF IInv, Distinct, L
  <2> QED
    BY <1>7, <2>2
<1>9. row["lpit"].k # "S" /\ EndedOf(row["lpit"], Len(stops'), InStop')
  <2>1. CASE stops = <<>>
    BY <1>2, <2>1 DEF NoPit, EndedOf
  <2>2. CASE stops # <<>>
    <3>1. row["lpit"].k = "L" /\ row["lpit"].n = Len(stops)
      BY <1>2, <2>2 DEF L
    <3>2. Len(stops) \in 1..Len(stops')
      BY <1>0, <1>5, <2>2
    <3> QED
      BY <1>6, <3>1, <3>2 DEF EndedOf
  <2> QED
    BY <2>1, <2>2
<1>10. /\ car.lpit.k = "L" => car.lpit # row["lpit"]
       /\ \A i \in DOMAIN outbox : Shows(i) /\ LpitOf(i).k = "L" => LpitOf(i) # row["lpit"]
  BY <1>7 DEF IInv, Distinct
<1>11. PICK r, l : r = row /\ l = later
  OBVIOUS
<1> QED
  BY <1>1, <1>3, <1>4, <1>5, <1>6, <1>8, <1>9, <1>10, <1>11, ShowInvariant

\* A change without an L-PIT.
LEMMA PlainChange ==
    ASSUME IInv, NEW row \in Rows, NEW first \in SUBSET Cols, "lpit" \notin first, Show(row, first, {}),
           UNCHANGED <<now, stops, up, grid, db>>, "laps" \in first => car.laps <= row["laps"],
           "state" \in first => row["state"] # "IN_PIT"
    PROVE  IInv'
<1>0. car \in Rows /\ stops \in Seq([in : Nat, out : Nat])
  BY DEF IInv, ProviderInv
<1>1. [c \in first |-> row[c]] \in CellMaps /\ [c \in {} |-> row[c]] \in CellMaps
  BY CellsOfRow
<1>2. InStop' => InStop
  BY <1>0, ShownState DEF InStop
<1> QED
  BY <1>0, <1>1, <1>2, ShowInvariant

\* A lap more.
LEMMA CarLapsInvariant == ASSUME IInv, CarLaps PROVE IInv'
<1> DEFINE row == [car EXCEPT !.laps = @ + 1, !.state = "ON_TRACK"]
           first == {"laps"} \cup (IF car.state \in {"OUT_LAP", "UNKNOWN"} THEN {"state"} ELSE {})
<1>0. car \in Rows /\ car.laps \in Nat
  BY DEF IInv, ProviderInv, Rows
<1>1. Show(row, first, {}) /\ UNCHANGED <<now, stops, up, grid, db>>
  BY DEF CarLaps
<1>2. row \in Rows /\ row["laps"] = car.laps + 1 /\ row["state"] = "ON_TRACK"
  <2>1. PICK n \in Nat : n = car.laps + 1
    BY <1>0
  <2>2. "ON_TRACK" \in States
    BY DEF States
  <2>3. row = [car EXCEPT !.laps = n, !.state = "ON_TRACK"]
    BY <2>1
  <2> HIDE DEF row
  <2> QED
    BY <1>0, <2>1, <2>2, <2>3 DEF Rows
<1>3. first \in SUBSET Cols /\ "lpit" \notin first
  BY DEF Cols
<1>4. PICK r, f : r = row /\ f = first
  OBVIOUS
<1> HIDE DEF row, first
<1> QED
  BY <1>0, <1>1, <1>2, <1>3, <1>4, PlainChange

\* A state that is no stop.
LEMMA CarShowsInvariant ==
    ASSUME IInv, NEW state \in {"UNKNOWN", "FINISHED"}, CarShows(state)
    PROVE  IInv'
<1> DEFINE row == [car EXCEPT !.state = state]
<1>0. car \in Rows
  BY DEF IInv, ProviderInv
<1>1. Show(row, {"state"}, {}) /\ UNCHANGED <<now, stops, up, grid, db>>
  BY DEF CarShows
<1>2. row \in Rows /\ row["state"] = state
  BY <1>0 DEF Rows, States
<1>3. {"state"} \in SUBSET Cols
  BY DEF Cols
<1>4. PICK r : r = row
  OBVIOUS
<1> HIDE DEF row
<1> QED
  BY <1>1, <1>2, <1>3, <1>4, PlainChange

\* A disconnect loses the cells under way.
LEMMA DropInvariant == ASSUME IInv, Drop PROVE IInv'
<1>1. outbox' = <<>> /\ DOMAIN outbox' = {} /\ up' = FALSE /\ UNCHANGED <<now, car, late, stops, sent, grid, db>>
  BY DEF Drop
<1>2. outbox' \in Seq(Messages)
  BY <1>1, EmptySeq
<1>3. ProviderInv'
  BY <1>1, <1>2 DEF IInv, ProviderInv
<1>4. LapsOrder' /\ EntriesPast'
  BY <1>1 DEF IInv, LapsOrder, EntriesPast
<1>5. Distinct'
  BY <1>1 DEF IInv, Distinct, Ended, InStop
<1>6. Unrecorded'
  BY <1>1 DEF IInv, Unrecorded, Recorded
<1>7. TablesNow'
  BY <1>1 DEF IInv, TablesNow, DurationOnce
<1> QED
  BY <1>3, <1>4, <1>5, <1>6, <1>7 DEF IInv

\* A connection begins with the whole row: its L-PIT, when counted, is the one last seen.
LEMMA ConnectInvariant == ASSUME IInv, Connect PROVE IInv'
<1> DEFINE m == [h |-> "r_i", cells |-> car]
<1>0. car \in Rows /\ car.laps \in Nat
  BY DEF IInv, ProviderInv, Rows
<1>1. m \in Messages /\ m.h = "r_i" /\ m.cells = car /\ DOMAIN m.cells = Cols
  BY <1>0, RowIsCells DEF Messages
<1>2. outbox' = <<m>> /\ up' = TRUE /\ sent < MaxSent /\ sent' = sent + 1 /\ UNCHANGED <<now, car, late, stops, grid, db>>
  BY DEF Connect
<1> HIDE DEF m
<1>3. outbox' \in Seq(Messages) /\ DOMAIN outbox' = {1} /\ outbox'[1] = m
  BY <1>1, <1>2
<1>4. ProviderInv'
  BY <1>1, <1>2, <1>3, PitStintsAssumption DEF IInv, ProviderInv
<1>5. LapsOrder'
  BY <1>0, <1>1, <1>2, <1>3 DEF IInv, LapsOrder
<1>6. \A i \in DOMAIN outbox' : Shows(i)' /\ LpitOf(i)' = car.lpit /\ outbox'[i].h = "r_i" /\ i = 1
  BY <1>1, <1>3 DEF Shows, LpitOf, Has, Cols
<1>7. EntriesPast'
  BY <1>2, <1>6 DEF IInv, EntriesPast
<1>8. Distinct'
  <2>1. \A v : Ended(v)' <=> Ended(v)
    BY <1>2 DEF Ended, InStop
  <2> QED
    BY <1>2, <1>6, <2>1 DEF IInv, Distinct
<1>9. Unrecorded'
  BY <1>2, <1>6 DEF IInv, Unrecorded, Recorded
<1>10. TablesNow'
  BY <1>2 DEF IInv, TablesNow, DurationOnce
<1> QED
  BY <1>4, <1>5, <1>7, <1>8, <1>9, <1>10 DEF IInv

\* A frame counts durations of its own cells, and none is under way any more.
LEMMA ReceiveInvariant == ASSUME IInv, NEW n \in 1..MaxFrame, Receive(n) PROVE IInv'
<1> DEFINE l == Len(outbox)
           Counted(v) == \E i \in DOMAIN db'.pits : db'.pits[i].stop # None /\ v = L(db'.pits[i].stop)
<1>1. PICK a : /\ n \in DOMAIN outbox /\ AtMessage(a, n) /\ AtQueue(a.queue, n) /\ grid' = a.row
               /\ AtEvent(a.queue, a.d, db', Len(a.queue))
  BY FrameSound
<1>2. /\ outbox' = SubSeq(outbox, n + 1, l) /\ UNCHANGED <<now, car, late, stops, sent, up, gaps>>
      /\ outbox \in Seq(Messages) /\ l \in Nat /\ DOMAIN outbox = 1..l /\ n \in 1..l
  BY <1>1 DEF Receive, IInv, ProviderInv
<1>3. /\ outbox' \in Seq(Messages) /\ (up' \/ outbox' = <<>>)
      /\ \A i \in DOMAIN outbox' : i \in Nat \ {0} /\ n + i \in DOMAIN outbox /\ outbox'[i] = outbox[n + i]
  <2>1. outbox' \in Seq(Messages) /\ Len(outbox') = l - n /\ \A i \in 1..(l - n) : outbox'[i] = outbox[n + i]
    <3>1. /\ n + 1 \in Int /\ l \in Int /\ \A i \in (n + 1)..l : outbox[i] \in Messages
          /\ l - (n + 1) + 1 = l - n /\ (n + 1 <= l \/ l - n = 0)
      <4>1. l \in Nat /\ n \in 1..l /\ outbox \in Seq(Messages) /\ DOMAIN outbox = 1..l
        BY <1>2
      <4> HIDE DEF l
      <4>2. n + 1 \in Int /\ l - (n + 1) + 1 = l - n /\ (n + 1 <= l \/ l - n = 0) /\ (n + 1)..l \subseteq 1..l
        BY <4>1
      <4>3. \A i \in 1..l : outbox[i] \in Messages
        BY <4>1
      <4> QED
        BY <4>1, <4>2, <4>3
    <3>2. /\ SubSeq(outbox, n + 1, l) \in Seq(Messages)
          /\ Len(SubSeq(outbox, n + 1, l)) = IF n + 1 <= l THEN l - (n + 1) + 1 ELSE 0
          /\ \A i \in 1..(l - (n + 1) + 1) : SubSeq(outbox, n + 1, l)[i] = outbox[(n + 1) + i - 1]
      <4> HIDE DEF l
      <4> QED
        BY <3>1, SubSeqProperties
    <3>3. \A i \in 1..(l - n) : (n + 1) + i - 1 = n + i
      BY <1>2
    <3>4. l - n \in Nat /\ l - (n + 1) + 1 = l - n
      BY <1>2
    <3>5. Len(SubSeq(outbox, n + 1, l)) = l - n
      BY <3>1, <3>2
    <3>6. \A i \in 1..(l - n) : SubSeq(outbox, n + 1, l)[i] = outbox[n + i]
      <4> HIDE DEF l
      <4> QED
        BY <3>2, <3>3, <3>4
    <3> HIDE DEF l
    <3> QED
      BY <1>2, <3>2, <3>5, <3>6
  <2>2. DOMAIN outbox' = 1..(l - n)
    BY <2>1
  <2>3. up' \/ outbox' = <<>>
    BY <1>1, <1>2 DEF IInv, ProviderInv
  <2>4. \A i \in DOMAIN outbox' : i \in Nat \ {0} /\ n + i \in DOMAIN outbox
    BY <1>2, <2>2
  <2> QED
    BY <2>1, <2>2, <2>3, <2>4
<1>4. \A i \in DOMAIN outbox' : (Shows(i)' <=> Shows(n + i)) /\ LpitOf(i)' = LpitOf(n + i)
  BY <1>3 DEF Shows, LpitOf
<1>5. \A i \in DOMAIN outbox' : outbox[n + i].h # "r_i"
  BY <1>2, <1>3 DEF IInv, ProviderInv
<1>6. \A i \in DOMAIN outbox' : \A j \in DOMAIN outbox' : i < j => n + i < n + j
  BY <1>2, <1>3
<1>7. \A j \in 1..n : j \in DOMAIN outbox /\ \A i \in DOMAIN outbox' : j < n + i
  BY <1>2, <1>3
<1>8. ASSUME NEW v, Counted(v)
      PROVE  Recorded(v) \/ (v.k = "L" /\ \E j \in 1..n : Shows(j) /\ LpitOf(j) = v)
  <2>1. PICK i \in DOMAIN db'.pits : db'.pits[i].stop # None /\ v = L(db'.pits[i].stop)
    BY <1>8
  <2>2. v.k = "L"
    BY <2>1 DEF L
  <2>3. Recorded(v) \/ \E q \in DOMAIN a.queue : a.queue[q].time = v
    BY <1>1, <2>1 DEF AtEvent
  <2>4. \A q \in DOMAIN a.queue : a.queue[q].time = v => \E j \in 1..n : Shows(j) /\ LpitOf(j) = v
    BY <1>1, <2>2 DEF AtQueue
  <2> QED
    BY <2>2, <2>3, <2>4
<1>9. ProviderInv'
  BY <1>2, <1>3, <1>5 DEF IInv, ProviderInv
<1>10. LapsOrder'
  <2>1. grid'.laps <= car.laps /\ \A i \in DOMAIN outbox' : Has(outbox'[i], "laps") => grid'.laps <= outbox'[i].cells["laps"]
    BY <1>1, <1>2, <1>3, <1>7 DEF AtMessage
  <2>2. ASSUME NEW i \in DOMAIN outbox', Has(outbox'[i], "laps")
        PROVE  /\ outbox'[i].cells["laps"] <= car.laps
               /\ \A j \in DOMAIN outbox' : i < j /\ Has(outbox'[j], "laps") => outbox'[i].cells["laps"] <= outbox'[j].cells["laps"]
    BY <1>3, <1>6, <2>2 DEF IInv, LapsOrder
  <2>3. "laps" \notin DOMAIN late
    BY DEF IInv, LapsOrder
  <2> QED
    BY <1>2, <2>1, <2>2, <2>3 DEF LapsOrder
<1>11. EntriesPast'
  BY <1>2, <1>3, <1>4 DEF IInv, EntriesPast
<1>12. Distinct'
  <2>1. \A v : Ended(v)' <=> Ended(v)
    BY <1>2 DEF Ended, InStop
  <2>2. ASSUME NEW i \in DOMAIN db'.pits, db'.pits[i].stop # None PROVE Ended(L(db'.pits[i].stop))
    <3>0. PICK v : v = L(db'.pits[i].stop)
      OBVIOUS
    <3>1. Counted(v)
      BY <2>2, <3>0
    <3>2. CASE Recorded(v)
      BY <3>0, <3>2 DEF IInv, Distinct, Recorded
    <3>3. CASE \E j \in 1..n : Shows(j) /\ LpitOf(j) = v
      BY <1>7, <3>0, <3>3 DEF IInv, Distinct
    <3> QED
      BY <1>8, <3>1, <3>2, <3>3
  <2>3. ASSUME NEW i \in DOMAIN outbox', Shows(i)'
        PROVE  /\ Ended(LpitOf(i)')
               /\ LpitOf(i)'.k = "L" =>
                    /\ "lpit" \in DOMAIN late => LpitOf(i)' # late["lpit"]
                    /\ \A j \in DOMAIN outbox' : i < j /\ Shows(j)' => LpitOf(i)' # LpitOf(j)' /\ LpitOf(i)' # car.lpit
    BY <1>3, <1>4, <1>6, <2>3 DEF IInv, Distinct
  <2> QED
    BY <1>2, <2>1, <2>2, <2>3 DEF IInv, Distinct
<1>13. Unrecorded'
  <2>1. ASSUME "lpit" \in DOMAIN late, Counted(late["lpit"]) PROVE FALSE
    <3>0. PICK v : v = late["lpit"]
      OBVIOUS
    <3>1. ~ Recorded(v) /\ Counted(v)
      BY <2>1, <3>0 DEF IInv, Unrecorded
    <3>2. PICK j \in 1..n : v.k = "L" /\ Shows(j) /\ LpitOf(j) = v
      BY <1>8, <3>1
    <3> QED
      BY <1>7, <2>1, <3>0, <3>2 DEF IInv, Distinct
  <2>2. ASSUME Counted(car.lpit)
        PROVE  grid'.lpit = car.lpit /\ \A i \in DOMAIN outbox' : Shows(i)' => LpitOf(i)' = car.lpit
    <3>1. CASE Recorded(car.lpit)
      <4>1. grid.lpit = car.lpit /\ \A i \in DOMAIN outbox : Shows(i) => LpitOf(i) = car.lpit
        BY <3>1 DEF IInv, Unrecorded
      <4>2. grid'.lpit = grid.lpit \/ \E j \in 1..n : Shows(j) /\ grid'.lpit = LpitOf(j)
        BY <1>1 DEF AtMessage
      <4> QED
        BY <1>3, <1>4, <1>7, <4>1, <4>2
    <3>2. CASE car.lpit.k = "L" /\ \E j \in 1..n : Shows(j) /\ LpitOf(j) = car.lpit
      <4>1. PICK j \in 1..n : Shows(j) /\ LpitOf(j) = car.lpit /\ LpitOf(j).k = "L"
        BY <3>2
      <4>2. \A k \in DOMAIN outbox : j < k => ~ Shows(k)
        BY <1>7, <4>1 DEF IInv, Distinct
      <4>3. grid'.lpit = LpitOf(j)
        BY <1>1, <1>7, <4>1, <4>2 DEF AtMessage
      <4> QED
        BY <1>3, <1>4, <1>7, <4>1, <4>2, <4>3
    <3>3. PICK v : v = car.lpit
      OBVIOUS
    <3>4. Recorded(v) \/ (v.k = "L" /\ \E j \in 1..n : Shows(j) /\ LpitOf(j) = v)
      BY <1>8, <2>2, <3>3
    <3> QED
      BY <3>1, <3>2, <3>3, <3>4
  <2>3. ASSUME NEW i \in DOMAIN outbox', Shows(i)', Counted(LpitOf(i)') PROVE FALSE
    <3>0. PICK v : v = LpitOf(n + i)
      OBVIOUS
    <3>1. Shows(n + i) /\ n + i \in DOMAIN outbox /\ Counted(v)
      BY <1>3, <1>4, <2>3, <3>0
    <3>2. ~ Recorded(v)
      BY <1>5, <3>0, <3>1 DEF IInv, Unrecorded
    <3>3. PICK j \in 1..n : Shows(j) /\ LpitOf(j) = v /\ v.k = "L"
      BY <1>8, <3>1, <3>2
    <3> QED
      BY <1>7, <3>0, <3>1, <3>3 DEF IInv, Distinct
  <2> QED
    BY <1>2, <2>1, <2>2, <2>3 DEF Unrecorded, Recorded
<1>14. TablesNow'
  BY <1>1, <1>2 DEF AtMessage, AtEvent, TablesNow, DurationOnce
<1> QED
  BY <1>9, <1>10, <1>11, <1>12, <1>13, <1>14 DEF IInv

\* Every step preserves the invariant.
LEMMA StepInvariant == IInv /\ [Next]_vars => IInv'
<1> SUFFICES ASSUME IInv, [Next]_vars PROVE IInv'
  OBVIOUS
<1>1. CASE Tick
  BY <1>1, TickInvariant
<1>2. CASE ShowLate
  BY <1>2, ShowLateInvariant
<1>3. CASE CarLaps
  BY <1>3, CarLapsInvariant
<1>4. CASE Drop
  BY <1>4, DropInvariant
<1>5. CASE Connect
  BY <1>5, ConnectInvariant
<1>6. ASSUME NEW first \in {{"state", "pits", "lpit"}, {"lpit"}, {"state", "lpit"}}, NEW instant \in BOOLEAN,
             CarEnters(first, instant)
      PROVE  IInv'
  <2>1. first \in SUBSET Cols /\ "laps" \notin first
    BY DEF Cols
  <2> QED
    BY <1>6, <2>1, CarEntersInvariant
<1>7. ASSUME NEW first \in {{"state", "lpit"}, {"state"}}, NEW s \in {"ON_TRACK", "OUT_LAP"}, CarLeaves(first, s)
      PROVE  IInv'
  BY <1>7, CarLeavesInvariant
<1>8. ASSUME NEW s \in {"UNKNOWN", "FINISHED"}, CarShows(s) PROVE IInv'
  BY <1>8, CarShowsInvariant
<1>9. ASSUME NEW n \in 1..MaxFrame, Receive(n) PROVE IInv'
  BY <1>9, ReceiveInvariant
<1>10. CASE UNCHANGED vars
  BY <1>10 DEF vars, IInv, ProviderInv, LapsOrder, EntriesPast, Distinct, Ended, InStop, Unrecorded, Recorded,
               TablesNow, DurationOnce, Shows, LpitOf
<1> QED
  BY <1>1, <1>2, <1>3, <1>4, <1>5, <1>6, <1>7, <1>8, <1>9, <1>10 DEF Next

-----------------------------------------------------------------------------
(* What the invariant shows.                                               *)

\* The inductive invariant holds in every reachable state.
THEOREM Invariant == Spec => []IInv
<1> QED
  BY InitInvariant, StepInvariant, PTL DEF Spec

\* Whatever the provider splits, the network groups and a disconnect loses, the
\* stops are in order, the stints tile the heat with one more than the completed
\* stops, and no L-PIT is the duration of two stops.
THEOREM PitLedgerAlways == Spec => []PitLedgerConsistent
<1>1. IInv => PitLedgerConsistent
  <2> SUFFICES ASSUME IInv PROVE PitLedgerConsistent
    OBVIOUS
  <2>1. TablesInv(db, now) /\ DurationOnce /\ (db.cur # NoRow => db.stints # <<>>)
    BY DEF IInv, TablesNow
  <2>2. PitsInv(db, now) /\ LapsInv(db, now) /\ StintsInv(db, now)
    BY <2>1 DEF TablesInv
  <2>3. TypeOK
    BY <2>2 DEF IInv, ProviderInv, TypeOK, PitsInv, LapsInv
  <2>4. StintsTile
    BY <2>1, <2>2 DEF StintsTile, StintsInv, Completed
  <2>5. StopsOrdered
    BY <2>2 DEF StopsOrdered, PitsInv
  <2> QED
    BY <2>1, <2>3, <2>4, <2>5 DEF PitLedgerConsistent
<1> QED
  BY <1>1, Invariant, PTL

\* A lap counted clean overlaps no completed stop, in whatever order the lap and
\* the stop became known (_is_clean_lap, _invalidate_clean_laps_for_pit).
THEOREM CleanAvoidsPitAlways == Spec => []CleanAvoidsPit
<1>1. IInv => CleanAvoidsPit
  BY DEF IInv, TablesNow, TablesInv, CleanInv, CleanAvoidsPit
<1> QED
  BY <1>1, Invariant, PTL

\* A frame never rewrites a completed stop or a closed stint.
THEOREM HistoryNeverRewritten == Spec => HistoryFrozen
<1>1. IInv /\ [Next]_vars => Kept(db, db')
  <2> SUFFICES ASSUME IInv, [Next]_vars PROVE Kept(db, db')
    OBVIOUS
  <2>1. CASE db' = db
    BY <2>1 DEF Kept
  <2>2. ASSUME NEW n \in 1..MaxFrame, Receive(n) PROVE Kept(db, db')
    <3>1. PICK a : AtMessage(a, n) /\ AtEvent(a.queue, a.d, db', Len(a.queue))
      BY <2>2, FrameSound
    <3>2. Kept(db, a.d) /\ Kept(a.d, db')
      BY <3>1 DEF AtMessage, AtEvent
    <3> QED
      BY <3>2 DEF Kept
  <2> QED
    BY <2>1, <2>2 DEF Next, vars, Tick, ShowLate, CarLaps, Drop, Connect, CarEnters, CarLeaves, CarShows
<1>2. Kept(db, db') => (/\ \A i \in DOMAIN db.pits : db.pits[i].done => i \in DOMAIN db'.pits /\ db'.pits[i] = db.pits[i]
                        /\ \A i \in DOMAIN db.stints :
                             db.stints[i].to # None => i \in DOMAIN db'.stints /\ db'.stints[i] = db.stints[i])
  BY DEF Kept
<1> QED
  BY <1>1, <1>2, Invariant, PTL DEF Spec, HistoryFrozen
=============================================================================
