-------------------------- MODULE RaceControlProofs --------------------------
(***************************************************************************)
(* For all numbers of messages, frames, heats and checkpoints: whatever    *)
(* retention has pruned, the reducer can be restored from a checkpoint     *)
(* that validates, with every frame after it still there; a message leaves *)
(* the board only by a message that says so; the API shows the board of    *)
(* the provider; and a backfill repeats what the live worker wrote.        *)
(***************************************************************************)
EXTENDS RaceControl, SequenceTheorems, FiniteSetTheorems, WellFoundedInduction, TLAPS

\* A row of feed_frames, with messages of M.
Frames(M) == [at : Nat, msgs : M, kept : BOOLEAN]

\* The RAW frames, and what refers to them.
RawInv ==
    /\ \E M : raw \in Seq(Frames(M))
    /\ DOMAIN anchors \subseteq DOMAIN raw /\ plan.ids \subseteq DOMAIN raw
    /\ floor \in [frame : Nat, anchor : Nat]

\* Nothing after the floor is pruned, and the floor is only moved once every heat
\* is covered, when no checkpoint is written any more.
FloorInv ==
    /\ \A f \in DOMAIN raw : f > floor.frame => raw[f].kept
    /\ floor.frame # 0 => /\ covered /\ floor.anchor \in DOMAIN raw
                        /\ floor.anchor > floor.frame /\ anchors[floor.anchor]

IInv == RawInv /\ FloorInv

-----------------------------------------------------------------------------
(* Maxima.                                                                 *)

\* The natural numbers are well founded.
LEMMA LeastOfNaturals ==
    ASSUME NEW T \in SUBSET Nat, T # {}
    PROVE  \E x \in T : \A y \in T : x <= y
<1> DEFINE R == OpToRel(<, Nat)
<1>1. IsWellFoundedOn(R, Nat)
  BY NatLessThanWellFounded
<1>2. \A x, y \in Nat : y < x => <<y, x>> \in R
  BY DEF OpToRel
<1> HIDE DEF R
<1>3. PICK x \in T : \A y \in T : ~(<<y, x>> \in R)
  BY <1>1, WFMin
<1>4. \A y \in T : ~(y < x)
  BY <1>2, <1>3
<1>5. \A y \in T : x <= y
  BY <1>4
<1> QED
  BY <1>5

\* A bounded set of naturals has a maximum, and Max is it.
LEMMA MaxBounded ==
    ASSUME NEW n \in Nat, NEW S \in SUBSET (0..n), S # {}
    PROVE  Max(S) \in S /\ \A x \in S : x <= Max(S)
<1> DEFINE T == {n - x : x \in S}
<1>0. \A x \in S : x \in 0..n
  OBVIOUS
<1>1. \A x \in S : n - x \in Nat
  BY <1>0
<1>2. PICK t \in T : \A y \in T : t <= y
  <2>1. T \in SUBSET Nat
    BY <1>1
  <2>2. T # {}
    OBVIOUS
  <2> QED
    BY <2>1, <2>2, LeastOfNaturals
<1>3. PICK m \in S : t = n - m
  BY <1>2
<1>4. \A x \in S : m >= x
  BY <1>0, <1>2, <1>3
<1>5. Max(S) \in S /\ \A y \in S : Max(S) >= y
  BY <1>4 DEF Max
<1> QED
  BY <1>0, <1>5

\* A frame that _checkpoint_after gives is one with a checkpoint that validates.
LEMMA CheckpointAfterSound ==
    ASSUME RawInv, NEW frame, NEW kept, CheckpointAfter(frame, kept) # 0
    PROVE  /\ CheckpointAfter(frame, kept) \in DOMAIN raw /\ CheckpointAfter(frame, kept) > frame
           /\ anchors[CheckpointAfter(frame, kept)]
<1> DEFINE ok == {f \in DOMAIN anchors : anchors[f] /\ f > floor.frame /\ kept[f]}
<1>1. ok # {} /\ CheckpointAfter(frame, kept) = Max(ok) /\ Max(ok) > frame
  BY DEF CheckpointAfter
<1>2. PICK M : raw \in Seq(Frames(M))
  BY DEF RawInv
<1>3. DOMAIN raw = 1..Len(raw) /\ Len(raw) \in Nat
  BY <1>2
<1>4. ok \in SUBSET (0..Len(raw))
  BY <1>3 DEF RawInv
<1>5. Max(ok) \in ok
  BY <1>1, <1>3, <1>4, MaxBounded
<1> QED
  BY <1>1, <1>5 DEF RawInv

-----------------------------------------------------------------------------

LEMMA InitInvariant == Init => IInv
<1> SUFFICES ASSUME Init PROVE IInv
  OBVIOUS
<1>1. raw \in Seq(Frames({}))
  BY EmptySeq DEF Init
<1>2. RawInv
  BY <1>1 DEF Init, RawInv, NoRows, NoPlan
<1>3. FloorInv
  BY DEF Init, FloorInv
<1> QED
  BY <1>2, <1>3 DEF IInv

\* A received frame is added to those that are kept.
LEMMA ReceiveInvariant ==
    ASSUME IInv, NEW n \in 1..MaxFrame, Receive(n)
    PROVE  IInv'
<1>1. PICK M : raw \in Seq(Frames(M))
  BY DEF IInv, RawInv
<1> DEFINE m == SubSeq(outbox, 1, n)
           N == M \cup {m}
           row == [at |-> Len(raw) + 1, msgs |-> m, kept |-> TRUE]
<1>2. raw' = Append(raw, row) /\ UNCHANGED <<anchors, covered, plan, floor>>
  BY DEF Receive, retention
<1>3. m \in N /\ M \subseteq N
  OBVIOUS
<1> HIDE DEF m, N
<1>4. raw \in Seq(Frames(N)) /\ row \in Frames(N)
  <2>1. Frames(M) \subseteq Frames(N)
    BY <1>3 DEF Frames
  <2>2. raw \in [1..Len(raw) -> Frames(N)] /\ Len(raw) \in Nat
    BY <1>1, <2>1
  <2>3. row \in Frames(N)
    BY <1>3, <2>2 DEF Frames
  <2> QED
    BY <2>2, <2>3, IsASeq
<1>5. row.kept
  OBVIOUS
<1> HIDE DEF row
<1>6. /\ raw' \in Seq(Frames(N)) /\ DOMAIN raw \subseteq DOMAIN raw'
      /\ \A f \in DOMAIN raw' : raw'[f] = row \/ (f \in DOMAIN raw /\ raw'[f] = raw[f])
  BY <1>2, <1>4
<1>7. RawInv'
  BY <1>2, <1>6 DEF IInv, RawInv
<1>8. FloorInv'
  BY <1>2, <1>5, <1>6 DEF IInv, FloorInv
<1> QED
  BY <1>7, <1>8 DEF IInv

\* A retention that deletes: the newest deleted frame becomes the floor, unless an
\* earlier one is after it, and a checkpoint after it has been found.
LEMMA ApplyInvariant ==
    ASSUME IInv, ApplyRetention
    PROVE  IInv'
<1>1. PICK M : raw \in Seq(Frames(M))
  BY DEF IInv, RawInv
<1>2. DOMAIN raw = 1..Len(raw) /\ Len(raw) \in Nat /\ \A f \in DOMAIN raw : raw[f] \in Frames(M)
  BY <1>1
<1> DEFINE kept == [f \in DOMAIN raw |-> raw[f].kept /\ f \notin Deleted]
           last == Max(Deleted)
           anchor == CheckpointAfter(last, kept)
<1>3. plan' = NoPlan /\ UNCHANGED <<anchors, covered>>
  BY DEF ApplyRetention
<1>4. CASE UNCHANGED <<raw, floor>>
  BY <1>3, <1>4 DEF IInv, RawInv, FloorInv, NoPlan
<1>5. CASE ~UNCHANGED <<raw, floor>>
  <2>1. /\ Deleted # {} /\ anchor # 0
        /\ raw' = [f \in DOMAIN raw |-> [raw[f] EXCEPT !.kept = kept[f]]]
        /\ floor' = IF floor.frame >= last THEN floor ELSE [frame |-> last, anchor |-> anchor]
    BY <1>5 DEF ApplyRetention
  <2>2. Deleted \in SUBSET (0..Len(raw)) /\ Deleted \subseteq DOMAIN raw /\ covered
    BY <1>2, <2>1 DEF Deleted, Prunable, IInv, RawInv
  <2>3. last \in Deleted /\ \A x \in Deleted : x <= last
    BY <1>2, <2>1, <2>2, MaxBounded
  <2>4. anchor \in DOMAIN raw /\ anchor > last /\ anchors[anchor]
    BY <2>1, CheckpointAfterSound DEF IInv
  <2>5. last \in Nat /\ last # 0 /\ anchor \in Nat /\ floor.frame \in Nat
    BY <1>2, <2>2, <2>3, <2>4 DEF IInv, RawInv
  <2>6. \A f \in DOMAIN raw : kept[f] = (raw[f].kept /\ f \notin Deleted)
    OBVIOUS
  <2>7. \A f \in DOMAIN raw : kept[f] \in BOOLEAN
    BY <2>6
  <2> HIDE DEF kept, last, anchor
  <2>8. raw' \in Seq(Frames(M)) /\ DOMAIN raw' = DOMAIN raw
    <3>1. \A f \in DOMAIN raw : [raw[f] EXCEPT !.kept = kept[f]] \in Frames(M)
      BY <1>2, <2>7 DEF Frames
    <3>2. raw' \in [1..Len(raw) -> Frames(M)]
      BY <1>2, <2>1, <3>1
    <3> QED
      BY <1>2, <3>2, IsASeq
  <2>9. \A f \in DOMAIN raw : raw'[f].kept = kept[f]
    BY <1>2, <2>1 DEF Frames
  <2>10. RawInv'
    BY <1>3, <2>1, <2>5, <2>8 DEF IInv, RawInv, NoPlan
  <2>11. FloorInv'
    <3>1. floor'.frame >= floor.frame /\ floor'.frame >= last
      BY <2>1, <2>5
    <3>2. ASSUME NEW f \in DOMAIN raw, f > floor'.frame
          PROVE  raw'[f].kept
      <4>1. f \in Nat /\ floor'.frame \in Nat
        BY <1>2, <2>1, <2>5
      <4>2. f > floor.frame /\ f > last
        BY <2>5, <3>1, <3>2, <4>1
      <4>3. f \notin Deleted
        BY <2>3, <2>5, <4>1, <4>2
      <4> QED
        BY <2>6, <2>9, <4>2, <4>3 DEF IInv, FloorInv
    <3>3. covered /\ floor'.anchor \in DOMAIN raw /\ floor'.anchor > floor'.frame /\ anchors[floor'.anchor]
      <4>1. CASE floor.frame >= last
        BY <2>1, <2>5, <4>1 DEF IInv, FloorInv
      <4>2. CASE ~(floor.frame >= last)
        BY <2>1, <2>2, <2>4, <4>2
      <4> QED
        BY <4>1, <4>2
    <3> QED
      BY <1>3, <2>8, <3>2, <3>3 DEF FloorInv
  <2> QED
    BY <2>10, <2>11 DEF IInv
<1> QED
  BY <1>4, <1>5

LEMMA StepInvariant == IInv /\ [Next]_vars => IInv'
<1> SUFFICES ASSUME IInv, [Next]_vars PROVE IInv'
  OBVIOUS
<1>1. CASE UNCHANGED <<raw, retention>>
  BY <1>1 DEF IInv, RawInv, FloorInv, retention
<1>2. ASSUME NEW n \in 1..MaxFrame, Receive(n)
      PROVE  IInv'
  BY <1>2, ReceiveInvariant
<1>3. ASSUME NEW valid \in Checkpoints, Cover(valid)
      PROVE  IInv'
  <2>1. DOMAIN valid \subseteq DOMAIN raw
    BY DEF Checkpoints
  <2>2. floor.frame = 0
    BY <1>3 DEF Cover, IInv, FloorInv
  <2> QED
    BY <1>3, <2>1, <2>2 DEF Cover, IInv, RawInv, FloorInv
<1>4. ASSUME NEW cutoff, PlanRetention(cutoff)
      PROVE  IInv'
  <2>1. plan'.ids \subseteq DOMAIN raw /\ UNCHANGED <<raw, anchors, covered, floor>>
    BY <1>4 DEF PlanRetention
  <2> QED
    BY <2>1 DEF IInv, RawInv, FloorInv
<1>5. CASE ApplyRetention
  BY <1>5, ApplyInvariant
<1> QED
  BY <1>1, <1>2, <1>3, <1>4, <1>5
  DEF Next, vars, other, Upsert, Delete, Clear, Nonsense, NewHeat, Drop, Connect, Stop, Backfill

\* The inductive invariant holds of every behaviour of the board, its ledger and retention.
THEOREM Invariance == Spec => []IInv
BY InitInvariant, StepInvariant, PTL DEF Spec

\* After any retention the floor has an anchor: apply_raw_retention keeps every
\* frame after the last one it deletes, and a checkpoint that validates among them,
\* although its DELETE only looks whether some checkpoint exists.
THEOREM FloorTheorem == Spec => []FloorAnchored
<1>1. IInv => FloorAnchored
  BY DEF IInv, FloorInv, FloorAnchored
<1> QED
  BY <1>1, Invariance, PTL

-----------------------------------------------------------------------------
(* The tables: the ledger and the rows of a heat.  R is a function from    *)
(* frames to records with their messages.                                  *)

Value    == UNION {{p[f] : f \in DOMAIN p} : p \in Patches}
Fields   == UNION {[S -> Value] : S \in SUBSET {"text", "line"}}
Sources  == [f : Nat, o : Nat]
Row      == [fields : Fields, active : BOOLEAN, last : Sources, removed : Sources]
Rows     == UNION {[S -> Row] : S \in SUBSET Ids}
Keys     == [heat : Nat, src : Sources, change : Nat]
Ops      == {"INITIAL_SNAPSHOT", "UNKNOWN", "UPSERT", "DELETE", "CLEAR"}
Entries  == [op : Ops, id : Ids \cup {0}]
Ledgers  == UNION {[S -> Entries] : S \in SUBSET Keys}
ItemSet  == [id : Ids, patch : Fields, bad : {"", "field", "id"}]
Messages == {m \in [h : {"m_i", "m_c", "m_d", "m_a", "m_x", "h_i"}, items : Seq(ItemSet)] :
               m.h \in {"m_c", "m_d"} => Len(m.items) = 1}

\* The message m says that i is off the board.
Explains(m, i) ==
    \/ m.h = "m_a"
    \/ m.h = "m_d" /\ m.items[1].id = i
    \/ m.h = "m_i" /\ Readable(m) /\ \A n \in DOMAIN m.items : m.items[n].id # i

\* The message m is the one that src refers to.
Refers(R, src, m) ==
    src \in Sources /\ src.f # 0 /\ src.f \in DOMAIN R /\ src.o \in DOMAIN R[src.f].msgs /\ m = R[src.f].msgs[src.o]

SoundRow(R, i, row) ==
    /\ row.active => row.removed = NoSource
    /\ ~ row.active => /\ row.removed.f \in DOMAIN R /\ row.removed.f # 0
                      /\ row.removed.o \in DOMAIN R[row.removed.f].msgs
                      /\ Explains(R[row.removed.f].msgs[row.removed.o], i)

SoundRows(R) == {r \in Rows : \A i \in DOMAIN r : SoundRow(R, i, r[i])}
Tables(R)    == [ledger : Ledgers, rows : SoundRows(R)]

\* A function in one of the sets [S -> T] for the subsets S of D.
LEMMA FieldsMerge ==
    ASSUME NEW f \in Fields, NEW g \in Fields
    PROVE  /\ Merged(f, g) \in Fields /\ DOMAIN Merged(f, g) = DOMAIN f \cup DOMAIN g
           /\ \A x \in DOMAIN f \cup DOMAIN g : Merged(f, g)[x] = IF x \in DOMAIN f THEN f[x] ELSE g[x]
<1>1. f \in [DOMAIN f -> Value] /\ g \in [DOMAIN g -> Value] /\ DOMAIN f \cup DOMAIN g \subseteq {"text", "line"}
  BY DEF Fields
<1>2. Merged(f, g) \in [DOMAIN f \cup DOMAIN g -> Value]
  BY <1>1 DEF Merged
<1> QED
  BY <1>1, <1>2 DEF Fields, Merged

LEMMA FieldsCut ==
    ASSUME NEW f \in Fields, NEW S
    PROVE  Without(f, S) \in Fields /\ NoFields \in Fields
<1>1. f \in [DOMAIN f -> Value] /\ DOMAIN f \subseteq {"text", "line"}
  BY DEF Fields
<1>2. Without(f, S) \in [DOMAIN f \ S -> Value]
  BY <1>1 DEF Without
<1>3. NoFields \in [{} -> Value]
  BY DEF NoFields
<1> QED
  BY <1>1, <1>2, <1>3 DEF Fields

\* INSERT OR IGNORE adds at most the key.
LEMMA InsertSound ==
    ASSUME NEW R, NEW t \in Tables(R), NEW key \in Keys, NEW op \in Ops, NEW id \in Ids \cup {0}
    PROVE  /\ InsertObservation(t, key, op, id) \in Tables(R)
           /\ InsertObservation(t, key, op, id).rows = t.rows
           /\ DOMAIN InsertObservation(t, key, op, id).ledger = DOMAIN t.ledger \cup {key}
<1>1. t.ledger \in [DOMAIN t.ledger -> Entries] /\ DOMAIN t.ledger \subseteq Keys /\ t.rows \in SoundRows(R)
  BY DEF Tables, Ledgers
<1> DEFINE e == [op |-> op, id |-> id]
           l == With(t.ledger, key, e)
<1>2. l \in [DOMAIN t.ledger \cup {key} -> Entries]
  BY <1>1 DEF With, Entries
<1>3. l \in Ledgers /\ DOMAIN l = DOMAIN t.ledger \cup {key}
  BY <1>1, <1>2 DEF Ledgers
<1>4. InsertObservation(t, key, op, id) = IF IsNew(t, key) THEN [t EXCEPT !.ledger = l] ELSE t
  BY DEF InsertObservation
<1> HIDE DEF l
<1>5. CASE IsNew(t, key)
  BY <1>3, <1>4, <1>5 DEF Tables
<1>6. CASE ~IsNew(t, key)
  BY <1>4, <1>6 DEF IsNew
<1> QED
  BY <1>5, <1>6

\* The ledger of u is that of t with the key.
Recorded(t, u, key) == DOMAIN u.ledger = DOMAIN t.ledger \cup {key}

\* The rows u are those of t with an active row of id, the fields of the patch over the old ones.
Upserted(t, u, id, patch) ==
    /\ DOMAIN u.rows = DOMAIN t.rows \cup {id} /\ u.rows[id].active
    /\ \A i \in DOMAIN t.rows : i # id => u.rows[i] = t.rows[i]
    /\ \A f \in DOMAIN patch : f \in DOMAIN u.rows[id].fields /\ u.rows[id].fields[f] = patch[f]
    /\ id \in DOMAIN t.rows => \A f \in DOMAIN t.rows[id].fields \ DOMAIN patch :
         f \in DOMAIN u.rows[id].fields /\ u.rows[id].fields[f] = t.rows[id].fields[f]

\* An upsert makes the row active, with the fields of the patch over the old ones.
LEMMA UpsertSound ==
    ASSUME NEW R, NEW t \in Tables(R), NEW src \in Sources, NEW p, p.id \in Ids, p.patch \in Fields,
           NEW u, u = UpsertCurrent(t, src, p)
    PROVE  u \in Tables(R) /\ u.ledger = t.ledger /\ Upserted(t, u, p.id, p.patch)
<1>1. /\ t.rows \in [DOMAIN t.rows -> Row] /\ DOMAIN t.rows \subseteq Ids
      /\ \A i \in DOMAIN t.rows : SoundRow(R, i, t.rows[i])
  BY DEF Tables, SoundRows, Rows
<1> DEFINE old == IF p.id \in DOMAIN t.rows THEN t.rows[p.id].fields ELSE NoFields
           new == Merged(p.patch, old)
           row == [fields |-> new, active |-> TRUE, last |-> src, removed |-> NoSource]
           rows == With(t.rows, p.id, row)
<1>2. old \in Fields
  BY <1>1, FieldsCut DEF Row
<1>3. /\ new \in Fields /\ DOMAIN new = DOMAIN p.patch \cup DOMAIN old
      /\ \A f \in DOMAIN p.patch \cup DOMAIN old : new[f] = IF f \in DOMAIN p.patch THEN p.patch[f] ELSE old[f]
  <2> HIDE DEF old
  <2> QED
    BY <1>2, FieldsMerge
<1>4. UpsertCurrent(t, src, p) = [t EXCEPT !.rows = rows]
  BY DEF UpsertCurrent
<1> HIDE DEF new
<1>5. row \in Row /\ row.active /\ row.fields = new /\ SoundRow(R, p.id, row)
  BY <1>3 DEF Row, Sources, NoSource, SoundRow
<1> HIDE DEF row
<1>6. /\ rows \in [DOMAIN t.rows \cup {p.id} -> Row] /\ rows[p.id] = row
      /\ \A i \in DOMAIN t.rows : i # p.id => rows[i] = t.rows[i]
  BY <1>1, <1>5 DEF With
<1> HIDE DEF rows
<1>7. rows \in SoundRows(R) /\ DOMAIN rows = DOMAIN t.rows \cup {p.id}
  BY <1>1, <1>5, <1>6 DEF SoundRows, Rows
<1>8. u \in Tables(R) /\ u.ledger = t.ledger /\ u.rows = rows
  BY <1>4, <1>7 DEF Tables
<1>9. p.id \in DOMAIN t.rows => old = t.rows[p.id].fields
  OBVIOUS
<1> HIDE DEF old
<1> QED
  BY <1>3, <1>5, <1>6, <1>7, <1>8, <1>9 DEF Upserted

\* A removal keeps every row, and takes those of ids off the board.
LEMMA MarkSound ==
    ASSUME NEW R, NEW t \in Tables(R), NEW src, NEW m, Refers(R, src, m),
           NEW ids, \A i \in ids \cap Ids : Explains(m, i)
    PROVE  LET u == MarkRemoved(t, src, ids)
           IN /\ u \in Tables(R) /\ u.ledger = t.ledger /\ DOMAIN u.rows = DOMAIN t.rows
              /\ \A i \in DOMAIN t.rows : /\ u.rows[i].active <=> t.rows[i].active /\ i \notin ids
                                          /\ u.rows[i].fields = t.rows[i].fields
<1>1. /\ t.rows \in [DOMAIN t.rows -> Row] /\ DOMAIN t.rows \subseteq Ids
      /\ \A i \in DOMAIN t.rows : SoundRow(R, i, t.rows[i])
  BY DEF Tables, SoundRows, Rows
<1> DEFINE gone(i, row) == IF i \in ids /\ row.active THEN [row EXCEPT !.active = FALSE, !.last = src, !.removed = src] ELSE row
           rows == [i \in DOMAIN t.rows |-> gone(i, t.rows[i])]
<1>2. MarkRemoved(t, src, ids) = [t EXCEPT !.rows = rows]
  BY DEF MarkRemoved
<1>3. ASSUME NEW i \in DOMAIN t.rows
      PROVE  /\ rows[i] \in Row /\ rows[i].fields = t.rows[i].fields /\ SoundRow(R, i, rows[i])
             /\ rows[i].active <=> t.rows[i].active /\ i \notin ids
  <2>1. t.rows[i] \in Row /\ i \in Ids /\ SoundRow(R, i, t.rows[i]) /\ rows[i] = gone(i, t.rows[i])
    BY <1>1
  <2>2. CASE i \in ids /\ t.rows[i].active
    <3> DEFINE row == [t.rows[i] EXCEPT !.active = FALSE, !.last = src, !.removed = src]
    <3>1. rows[i] = row
      BY <2>1, <2>2
    <3>2. row \in Row /\ row.fields = t.rows[i].fields /\ row.active = FALSE /\ row.removed = src
      BY <2>1 DEF Row, Refers
    <3>3. Explains(m, i)
      BY <2>1, <2>2
    <3> HIDE DEF row, rows
    <3>4. SoundRow(R, i, row)
      BY <3>2, <3>3 DEF SoundRow, Refers
    <3> QED
      BY <2>2, <3>1, <3>2, <3>4
  <2>3. CASE ~(i \in ids /\ t.rows[i].active)
    <3>1. rows[i] = t.rows[i]
      BY <2>1, <2>3
    <3> HIDE DEF rows
    <3>2. t.rows[i].active \in BOOLEAN
      BY <2>1 DEF Row
    <3> QED
      BY <2>1, <2>3, <3>1, <3>2
  <2> QED
    BY <2>2, <2>3
<1>4. DOMAIN rows = DOMAIN t.rows /\ rows = [i \in DOMAIN t.rows |-> rows[i]]
  OBVIOUS
<1> HIDE DEF rows
<1>5. rows \in SoundRows(R)
  <2>1. rows \in [DOMAIN t.rows -> Row]
    BY <1>3, <1>4
  <2> QED
    BY <1>1, <1>3, <1>4, <2>1 DEF SoundRows, Rows
<1>6. LET u == [t EXCEPT !.rows = rows] IN u \in Tables(R) /\ u.ledger = t.ledger /\ u.rows = rows
  BY <1>5 DEF Tables
<1> QED
  BY <1>2, <1>3, <1>4, <1>6

-----------------------------------------------------------------------------
(* Loops.                                                                  *)

\* What holds of 0, and of i when it holds of i - 1, holds up to n.
LEMMA UpTo ==
    ASSUME NEW n \in Nat, NEW Good, 0 \in Good, \A i \in 1..n : i - 1 \in Good => i \in Good
    PROVE  0..n \subseteq Good
<1> DEFINE Bad == (0..n) \ Good
<1> SUFFICES ASSUME Bad # {} PROVE FALSE
  OBVIOUS
<1>1. PICK x \in Bad : \A y \in Bad : x <= y
  <2>1. Bad \in SUBSET Nat
    OBVIOUS
  <2> HIDE DEF Bad
  <2> QED
    BY <2>1, LeastOfNaturals
<1>2. x \in 1..n /\ x - 1 \in 0..n
  BY <1>1
<1>3. x - 1 \in Good
  BY <1>1, <1>2
<1> QED
  BY <1>1, <1>2, <1>3

\* A is a run of n turns of a loop over the values in V.
IsRun(A, n, V, e, F) == A \in [0..n -> V] /\ A[0] = e /\ \A i \in 1..n : A[i] = F[<<i, A[i - 1]>>]

\* A loop has a run.
LEMMA RunExists ==
    ASSUME NEW n \in Nat, NEW V, NEW e \in V, NEW F \in [(1..n) \X V -> V]
    PROVE  \E A : IsRun(A, n, V, e, F)
<1> DEFINE Run(g, m) == IsRun(g, m, V, e, F)
           Good == {m \in 0..n : \E g : Run(g, m)}
<1>1. 0 \in Good
  <2>1. Run([i \in 0..0 |-> e], 0) /\ 0 \in 0..n
    BY DEF IsRun
  <2> HIDE DEF Run
  <2> QED
    BY <2>1
<1>2. ASSUME NEW m \in 1..n, m - 1 \in Good PROVE m \in Good
  <2>1. PICK g : Run(g, m - 1)
    BY <1>2
  <2>2. g \in [0..(m - 1) -> V] /\ g[0] = e /\ (\A i \in 1..(m - 1) : g[i] = F[<<i, g[i - 1]>>]) /\ m - 1 \in 0..(m - 1) /\ m \in 0..n /\ m \in Nat
    BY <2>1 DEF IsRun
  <2> DEFINE last == F[<<m, g[m - 1]>>]
             h == [i \in 0..m |-> IF i < m THEN g[i] ELSE last]
  <2>3. last \in V
    BY <2>2
  <2> HIDE DEF last
  <2>4. h \in [0..m -> V]
    <3> SUFFICES ASSUME NEW i \in 0..m PROVE (IF i < m THEN g[i] ELSE last) \in V
      OBVIOUS
    <3>1. CASE i < m
      <4>1. i \in 0..(m - 1)
        BY <2>2, <3>1
      <4> QED
        BY <2>2, <3>1, <4>1
    <3> QED
      BY <2>3, <3>1
  <2>5. h[0] = e
    BY <2>2
  <2>6. ASSUME NEW i \in 1..m PROVE h[i] = F[<<i, h[i - 1]>>]
    <3>1. h[i - 1] = g[i - 1] /\ i \in 0..m
      BY <2>2
    <3>2. CASE i = m
      <4>1. h[i] = last
        BY <3>1, <3>2
      <4> QED
        BY <3>1, <3>2, <4>1 DEF last
    <3>3. CASE i # m
      <4>1. i \in 1..(m - 1) /\ i < m
        BY <2>2, <3>3
      <4>2. h[i] = g[i]
        BY <3>1, <4>1
      <4>3. g[i] = F[<<i, g[i - 1]>>]
        BY <2>2, <4>1
      <4> QED
        BY <3>1, <4>2, <4>3
    <3> QED
      BY <3>2, <3>3
  <2>7. Run(h, m)
    BY <2>4, <2>5, <2>6 DEF IsRun
  <2> HIDE DEF h, Run
  <2> QED
    BY <2>2, <2>7
<1>3. n \in Good
  <2> HIDE DEF Good
  <2>1. 0..n \subseteq Good
    BY <1>1, <1>2, UpTo
  <2> QED
    BY <2>1
<1> QED
  BY <1>3

-----------------------------------------------------------------------------
(* One message and the tables of its heat.                                 *)

\* A patch is recorded, and applied if the record is new.
LEMMA PatchSound ==
    ASSUME NEW R, NEW t \in Tables(R), NEW heat \in Nat, NEW src \in Sources, NEW op \in Ops,
           NEW p, p.id \in Ids, p.patch \in Fields, p.change \in Nat,
           NEW key, key = Key(heat, src, p.change), NEW u, u = ProjectPatch(t, heat, src, op, p)
    PROVE  /\ u \in Tables(R) /\ Recorded(t, u, key)
           /\ key \notin DOMAIN t.ledger => Upserted(t, u, p.id, p.patch)
<1>1. key \in Keys
  BY DEF Key, Keys
<1>2. PICK v : v = InsertObservation(t, key, op, p.id)
  OBVIOUS
<1>3. v \in Tables(R) /\ v.rows = t.rows /\ DOMAIN v.ledger = DOMAIN t.ledger \cup {key}
  BY <1>1, <1>2, InsertSound
<1>4. CASE IsNew(t, key)
  <2>1. u = UpsertCurrent(v, src, p)
    BY <1>2, <1>4 DEF ProjectPatch
  <2>2. u \in Tables(R) /\ u.ledger = v.ledger /\ Upserted(v, u, p.id, p.patch)
    BY <1>3, <2>1, UpsertSound
  <2> QED
    BY <1>3, <2>2 DEF Upserted, Recorded
<1>5. CASE ~IsNew(t, key)
  <2>1. u = t
    BY <1>5 DEF ProjectPatch
  <2> QED
    BY <1>5, <2>1 DEF IsNew, Recorded
<1> QED
  BY <1>4, <1>5

\* What can be read of an item.
LEMMA ParseSound ==
    ASSUME NEW items \in Seq(ItemSet), NEW n \in 1..Len(items)
    PROVE  LET p == ParsePatch(items, n)
           IN /\ items[n] \in ItemSet /\ p.id = items[n].id /\ p.id \in Ids /\ p.patch \in Fields /\ p.change = n - 1 /\ p.change \in Nat
              /\ items[n].bad = "" => p.patch = items[n].patch
<1>1. items[n] \in ItemSet
  BY ElementOfSeq
<1>2. items[n].patch \in Fields /\ items[n].id \in Ids
  BY <1>1 DEF ItemSet
<1> DEFINE cut == Without(items[n].patch, {"text"})
<1>3. cut \in Fields
  BY <1>2, FieldsCut
<1>4. ParsePatch(items, n) = [id |-> items[n].id, change |-> n - 1, patch |-> IF items[n].bad = "field" THEN cut ELSE items[n].patch]
  BY DEF ParsePatch
<1> HIDE DEF cut
<1>5. PICK p : p = ParsePatch(items, n)
  OBVIOUS
<1>6. p.id = items[n].id /\ p.change = n - 1 /\ p.patch = IF items[n].bad = "field" THEN cut ELSE items[n].patch
  BY <1>4, <1>5
<1>7. n - 1 \in Nat
  OBVIOUS
<1>8. items[n].bad = "" => p.patch = items[n].patch
  BY <1>2, <1>3, <1>6
<1>9. p.patch \in Fields
  BY <1>2, <1>3, <1>6
<1> QED
  BY <1>1, <1>2, <1>5, <1>6, <1>7, <1>8, <1>9

LEMMA ItemSound ==
    ASSUME NEW R, NEW t \in Tables(R), NEW heat \in Nat, NEW src \in Sources,
           NEW items \in Seq(ItemSet), NEW k \in 1..Len(items)
    PROVE  ProjectItem(t, heat, src, items, k) \in Tables(R)
<1>1. Position(items, k) \in 1..Len(items)
  BY DEF Position
<1>2. PICK n \in 1..Len(items) : n = Position(items, k)
  BY <1>1
<1>3. PICK p : p = ParsePatch(items, n)
  OBVIOUS
<1>4. p.id \in Ids /\ p.patch \in Fields /\ p.change \in Nat
  BY <1>3, ParseSound
<1>5. ProjectPatch(t, heat, src, "INITIAL_SNAPSHOT", p) \in Tables(R)
  <2>1. "INITIAL_SNAPSHOT" \in Ops
    BY DEF Ops
  <2> QED
    BY <1>4, <2>1, PatchSound
<1> QED
  BY <1>2, <1>3, <1>5 DEF ProjectItem

SnapshotStart(t, heat, src, items) ==
    IF Visible(items) = {}
      THEN InsertObservation(t, Key(heat, src, 0), IF SnapshotComplete(items) THEN "INITIAL_SNAPSHOT" ELSE "UNKNOWN", 0)
      ELSE t

\* The loop of a snapshot over its items.
SnapshotLoop(A, R, t, heat, src, items) ==
    /\ A \in [0..Len(items) -> Tables(R)] /\ A[0] = SnapshotStart(t, heat, src, items)
    /\ \A k \in 1..Len(items) : A[k] = ProjectItem(A[k - 1], heat, src, items, k)
    /\ ProjectSnapshot(t, heat, src, items) =
         IF SnapshotComplete(items) /\ A[Len(items)].ledger # t.ledger
           THEN ReconcileSnapshotAbsences(A[Len(items)], src, Visible(items)) ELSE A[Len(items)]

LEMMA SnapshotRun ==
    ASSUME NEW R, NEW t \in Tables(R), NEW heat \in Nat, NEW src \in Sources, NEW items \in Seq(ItemSet)
    PROVE  \E A : SnapshotLoop(A, R, t, heat, src, items)
<1> DEFINE n == Len(items)
           V == Tables(R)
           e == SnapshotStart(t, heat, src, items)
           F == [kv \in (1..n) \X V |-> ProjectItem(kv[2], heat, src, items, kv[1])]
           Run(a) == a = [k \in 0..n |-> IF k = 0 THEN e ELSE ProjectItem(a[k - 1], heat, src, items, k)]
           B == CHOOSE a : Run(a)
<1>1. n \in Nat /\ \A k \in 1..n : k \in 0..n /\ k # 0 /\ k - 1 \in 0..n
  OBVIOUS
<1>2. e \in V
  <2>1. Key(heat, src, 0) \in Keys
    BY DEF Key, Keys
  <2>2. \A op \in Ops : InsertObservation(t, Key(heat, src, 0), op, 0) \in V
    BY <2>1, InsertSound
  <2>3. (IF SnapshotComplete(items) THEN "INITIAL_SNAPSHOT" ELSE "UNKNOWN") \in Ops
    BY DEF Ops
  <2> QED
    BY <2>2, <2>3 DEF SnapshotStart
<1>3. \A k \in 1..n, v \in V : ProjectItem(v, heat, src, items, k) \in V
  BY ItemSound
<1>4. ProjectSnapshot(t, heat, src, items) =
        IF SnapshotComplete(items) /\ B[n].ledger # t.ledger
          THEN ReconcileSnapshotAbsences(B[n], src, Visible(items)) ELSE B[n]
  BY DEF ProjectSnapshot, SnapshotStart
<1> HIDE DEF e, V, n
<1>5. F \in [(1..n) \X V -> V] /\ \A k \in 1..n, v \in V : F[<<k, v>>] = ProjectItem(v, heat, src, items, k)
  BY <1>3
<1>6. PICK A : IsRun(A, n, V, e, F)
  <2> HIDE DEF F
  <2> QED
    BY <1>1, <1>2, <1>5, RunExists
<1> HIDE DEF F
<1>7. A \in [0..n -> V] /\ A[0] = e /\ \A k \in 1..n : A[k] = ProjectItem(A[k - 1], heat, src, items, k)
  BY <1>1, <1>5, <1>6 DEF IsRun
<1>8. Run(A)
  <2>1. ASSUME NEW k \in 0..n
        PROVE  A[k] = IF k = 0 THEN e ELSE ProjectItem(A[k - 1], heat, src, items, k)
    <3>1. k # 0 => k \in 1..n
      BY <1>1
    <3> QED
      BY <1>7, <3>1
  <2> QED
    BY <1>7, <2>1
<1>9. Run(B)
  <2> HIDE DEF Run
  <2> QED
    BY <1>8
<1> HIDE DEF B
<1>10. B[0] = e /\ (\A k \in 1..n : B[k] = ProjectItem(B[k - 1], heat, src, items, k)) /\ DOMAIN B = 0..n /\ B = [k \in 0..n |-> B[k]]
  <2>1. DOMAIN B = 0..n /\ B = [k \in 0..n |-> B[k]]
    BY <1>9, Zenon
  <2>2. 0 \in 0..n
    BY <1>1
  <2> QED
    BY <1>1, <1>9, <2>1, <2>2
<1> HIDE DEF Run
<1>11. B \in [0..n -> V]
  <2> DEFINE Good == {k \in 0..n : B[k] \in V}
  <2>1. 0 \in Good
    BY <1>1, <1>2, <1>10
  <2>2. \A k \in 1..n : k - 1 \in Good => k \in Good
    BY <1>1, <1>3, <1>10
  <2> HIDE DEF Good
  <2>3. 0..n \subseteq Good
    BY <1>1, <2>1, <2>2, UpTo
  <2> QED
    BY <1>10, <2>3 DEF Good
<1>12. SnapshotLoop(B, R, t, heat, src, items)
  BY <1>4, <1>10, <1>11 DEF n, V, e, SnapshotLoop
<1> QED
  BY <1>12

\* What the loop does with an item that can be read and was not recorded yet.
LEMMA ItemShown ==
    ASSUME NEW R, NEW t \in Tables(R), NEW heat \in Nat, NEW src \in Sources,
           NEW items \in Seq(ItemSet), NEW k \in 1..Len(items), NEW n \in 1..Len(items), n = Len(items) + 1 - k,
           items[n].bad = "", Key(heat, src, n - 1) \notin DOMAIN t.ledger
    PROVE  \E u \in Tables(R) :
             /\ u = ProjectItem(t, heat, src, items, k)
             /\ Recorded(t, u, Key(heat, src, n - 1))
             /\ Upserted(t, u, items[n].id, items[n].patch)
<1>1. PICK p : p = ParsePatch(items, n)
  OBVIOUS
<1>2. p.id = items[n].id /\ p.id \in Ids /\ p.patch \in Fields /\ p.change = n - 1 /\ p.change \in Nat /\ p.patch = items[n].patch
  BY <1>1, ParseSound
<1>3. PICK op \in Ops : op = "INITIAL_SNAPSHOT"
  BY DEF Ops
<1>4. PICK u : u = ProjectPatch(t, heat, src, op, p)
  OBVIOUS
<1>5. u = ProjectItem(t, heat, src, items, k)
  BY <1>3, <1>1, <1>4 DEF ProjectItem, Position
<1>6. u \in Tables(R) /\ Recorded(t, u, Key(heat, src, p.change)) /\ Upserted(t, u, p.id, p.patch)
  <2>1. p.id \in Ids /\ p.patch \in Fields /\ p.change \in Nat /\ Key(heat, src, p.change) \notin DOMAIN t.ledger
    BY <1>2
  <2>2. PICK key : key = Key(heat, src, p.change)
    OBVIOUS
  <2>3. u \in Tables(R) /\ Recorded(t, u, key) /\ (key \notin DOMAIN t.ledger => Upserted(t, u, p.id, p.patch))
    BY <1>4, <2>1, <2>2, PatchSound
  <2> QED
    BY <2>1, <2>2, <2>3
<1> QED
  BY <1>2, <1>5, <1>6

\* The loop records under its own source.
LEMMA ItemRecorded ==
    ASSUME NEW R, NEW t \in Tables(R), NEW heat \in Nat, NEW src \in Sources,
           NEW items \in Seq(ItemSet), NEW k \in 1..Len(items),
           NEW key \in DOMAIN ProjectItem(t, heat, src, items, k).ledger
    PROVE  key \in DOMAIN t.ledger \/ key.src = src
<1>1. Position(items, k) \in 1..Len(items)
  BY DEF Position
<1>2. PICK n \in 1..Len(items) : n = Position(items, k)
  BY <1>1
<1>3. PICK p : p = ParsePatch(items, n)
  OBVIOUS
<1>4. p.id \in Ids /\ p.patch \in Fields /\ p.change \in Nat
  BY <1>3, ParseSound
<1>5. PICK u : u = ProjectPatch(t, heat, src, "INITIAL_SNAPSHOT", p)
  OBVIOUS
<1>6. Recorded(t, u, Key(heat, src, p.change))
  <2>1. "INITIAL_SNAPSHOT" \in Ops
    BY DEF Ops
  <2> QED
    BY <1>4, <1>5, <2>1, PatchSound
<1>7. Key(heat, src, p.change).src = src
  BY DEF Key
<1>8. ProjectItem(t, heat, src, items, k) = IF items[n].bad = "id" THEN t ELSE u
  BY <1>2, <1>3, <1>5 DEF ProjectItem
<1> QED
  BY <1>6, <1>7, <1>8 DEF Recorded

\* Whatever can be read of it, a snapshot leaves the tables sound, and records
\* under its own source.
LEMMA SnapshotSound ==
    ASSUME NEW R, NEW t \in Tables(R), NEW heat \in Nat, NEW src, NEW m \in Messages,
           m.h = "m_i", Refers(R, src, m)
    PROVE  \E u \in Tables(R) : /\ u = ProjectSnapshot(t, heat, src, m.items)
                                /\ \A key \in DOMAIN u.ledger : key \in DOMAIN t.ledger \/ key.src = src
<1>1. PICK items \in Seq(ItemSet) : items = m.items
  BY DEF Messages
<1>2. src \in Sources
  BY DEF Refers
<1>3. PICK A : SnapshotLoop(A, R, t, heat, src, items)
  BY <1>2, SnapshotRun
<1>4. /\ A \in [0..Len(items) -> Tables(R)] /\ A[0] = SnapshotStart(t, heat, src, items)
      /\ \A k \in 1..Len(items) : A[k] = ProjectItem(A[k - 1], heat, src, items, k)
      /\ ProjectSnapshot(t, heat, src, m.items) =
           IF SnapshotComplete(items) /\ A[Len(items)].ledger # t.ledger
             THEN ReconcileSnapshotAbsences(A[Len(items)], src, Visible(items)) ELSE A[Len(items)]
  BY <1>1, <1>3 DEF SnapshotLoop
<1> DEFINE Own(v) == \A key \in DOMAIN v.ledger : key \in DOMAIN t.ledger \/ key.src = src
           Good == {k \in 0..Len(items) : Own(A[k])}
<1>5. Len(items) \in Nat /\ Len(items) \in 0..Len(items) /\ \A k \in 1..Len(items) : k \in 0..Len(items) /\ k - 1 \in 0..Len(items)
  OBVIOUS
<1>6. Own(A[0])
  <2>1. PICK key : key = Key(heat, src, 0)
    OBVIOUS
  <2>2. key \in Keys /\ key.src = src
    BY <1>2, <2>1 DEF Key, Keys
  <2>3. \A op \in Ops : DOMAIN InsertObservation(t, key, op, 0).ledger = DOMAIN t.ledger \cup {key}
    BY <2>2, InsertSound
  <2>4. "INITIAL_SNAPSHOT" \in Ops /\ "UNKNOWN" \in Ops
    BY DEF Ops
  <2>5. \/ A[0] = t \/ A[0] = InsertObservation(t, key, "INITIAL_SNAPSHOT", 0)
        \/ A[0] = InsertObservation(t, key, "UNKNOWN", 0)
    BY <1>4, <2>1 DEF SnapshotStart
  <2> QED
    BY <2>2, <2>3, <2>4, <2>5
<1>7. ASSUME NEW k \in 1..Len(items), Own(A[k - 1]) PROVE Own(A[k])
  <2>1. PICK v \in Tables(R) : v = A[k - 1]
    BY <1>4, <1>5
  <2>2. A[k] = ProjectItem(v, heat, src, items, k)
    BY <1>4, <2>1
  <2>3. \A key \in DOMAIN A[k].ledger : key \in DOMAIN v.ledger \/ key.src = src
    BY <1>2, <2>2, ItemRecorded
  <2> QED
    BY <1>7, <2>1, <2>3
<1>8. Own(A[Len(items)])
  <2>1. 0 \in Good
    BY <1>5, <1>6
  <2>2. \A k \in 1..Len(items) : k - 1 \in Good => k \in Good
    <3> HIDE DEF Own
    <3> QED
      BY <1>5, <1>7
  <2> HIDE DEF Good
  <2>3. 0..Len(items) \subseteq Good
    BY <1>5, <2>1, <2>2, UpTo
  <2> QED
    BY <1>5, <2>3 DEF Good
<1>9. PICK v \in Tables(R) : v = A[Len(items)]
  BY <1>4, <1>5
<1>10. CASE SnapshotComplete(items) /\ v.ledger # t.ledger
  <2>1. \A i \in (Ids \ Visible(items)) \cap Ids : Explains(m, i)
    <3>1. \A n \in DOMAIN items : items[n].bad = "" /\ items[n].id \in Visible(items)
      BY <1>10 DEF SnapshotComplete, Visible
    <3> QED
      BY <1>1, <3>1 DEF Explains, Readable
  <2>2. PICK u : u = MarkRemoved(v, src, Ids \ Visible(items))
    OBVIOUS
  <2>3. u \in Tables(R) /\ u.ledger = v.ledger
    BY <2>1, <2>2, MarkSound
  <2>4. u = ProjectSnapshot(t, heat, src, m.items)
    BY <1>1, <1>4, <1>9, <1>10, <2>2 DEF ReconcileSnapshotAbsences
  <2> QED
    BY <1>8, <1>9, <2>3, <2>4
<1>11. CASE ~(SnapshotComplete(items) /\ v.ledger # t.ledger)
  <2>1. v = ProjectSnapshot(t, heat, src, m.items)
    BY <1>1, <1>4, <1>9, <1>11
  <2> QED
    BY <1>8, <1>9, <2>1
<1> QED
  BY <1>10, <1>11

\* Any message of the board leaves the tables sound, and records under its own source.
LEMMA ProjectSound ==
    ASSUME NEW R, NEW t \in Tables(R), NEW heat \in Nat, NEW src, NEW m \in Messages,
           Refers(R, src, m)
    PROVE  \E u \in Tables(R) : /\ u = ProjectScreenMessage(t, heat, src, m)
                                /\ \A key \in DOMAIN u.ledger : key \in DOMAIN t.ledger \/ key.src = src
<1>1. PICK items \in Seq(ItemSet) : items = m.items
  BY DEF Messages
<1>2. src \in Sources /\ {"INITIAL_SNAPSHOT", "UNKNOWN", "UPSERT", "DELETE", "CLEAR"} = Ops
  BY DEF Refers, Ops
<1>3. PICK key \in Keys : key = Key(heat, src, 0) /\ key.src = src
  <2>1. Key(heat, src, 0) \in Keys /\ Key(heat, src, 0).src = src
    BY <1>2 DEF Key, Keys
  <2> QED
    BY <2>1
<1>4. \A op \in Ops, id \in Ids \cup {0} :
        /\ InsertObservation(t, key, op, id) \in Tables(R)
        /\ DOMAIN InsertObservation(t, key, op, id).ledger = DOMAIN t.ledger \cup {key}
  BY InsertSound
<1> DEFINE removed(op, id, ids) ==
             IF IsNew(t, key) THEN MarkRemoved(InsertObservation(t, key, op, id), src, ids) ELSE t
<1>5. ASSUME NEW op \in Ops, NEW id \in Ids \cup {0}, NEW ids, \A i \in ids \cap Ids : Explains(m, i)
      PROVE  \E u \in Tables(R) : /\ u = removed(op, id, ids)
                                  /\ \A k \in DOMAIN u.ledger : k \in DOMAIN t.ledger \/ k.src = src
  <2>1. PICK v \in Tables(R) : v = InsertObservation(t, key, op, id) /\ DOMAIN v.ledger = DOMAIN t.ledger \cup {key}
    BY <1>4
  <2>2. PICK u : u = MarkRemoved(v, src, ids)
    OBVIOUS
  <2>3. u \in Tables(R) /\ u.ledger = v.ledger
    BY <1>5, <2>2, MarkSound
  <2>4. removed(op, id, ids) = IF IsNew(t, key) THEN u ELSE t
    BY <2>1, <2>2
  <2> HIDE DEF removed
  <2> QED
    BY <1>3, <2>1, <2>3, <2>4
<1>6. CASE m.h = "m_i"
  <2>1. ProjectScreenMessage(t, heat, src, m) = ProjectSnapshot(t, heat, src, m.items)
    BY <1>6 DEF ProjectScreenMessage
  <2> QED
    BY <1>6, <2>1, SnapshotSound
<1>7. CASE m.h = "m_c"
  <2>1. Len(m.items) = 1
    BY <1>7 DEF Messages
  <2>2. 1 \in 1..Len(items)
    BY <1>1, <2>1
  <2>3. PICK p : p = ParsePatch(items, 1)
    OBVIOUS
  <2>4. p.id \in Ids /\ p.patch \in Fields /\ p.change \in Nat
    BY <2>2, <2>3, ParseSound
  <2>5. PICK u : u = ProjectPatch(t, heat, src, "UPSERT", p)
    OBVIOUS
  <2>6. u \in Tables(R) /\ Recorded(t, u, Key(heat, src, p.change))
    <3>1. "UPSERT" \in Ops
      BY DEF Ops
    <3> QED
      BY <1>2, <2>4, <2>5, <3>1, PatchSound
  <2>7. Key(heat, src, p.change).src = src
    BY DEF Key
  <2>8. ProjectScreenMessage(t, heat, src, m) = u
    BY <1>1, <1>7, <2>3, <2>5 DEF ProjectScreenMessage
  <2> QED
    BY <2>6, <2>7, <2>8 DEF Recorded
<1>8. CASE m.h = "m_d"
  <2>1. items[1] \in ItemSet
    <3>1. Len(m.items) = 1
      BY <1>8 DEF Messages
    <3>2. 1 \in 1..Len(items)
      BY <1>1, <3>1
    <3> QED
      BY <3>2, ElementOfSeq
  <2>2. PICK id \in Ids : id = m.items[1].id
    BY <1>1, <2>1 DEF ItemSet
  <2>3. \A i \in {id} \cap Ids : Explains(m, i)
    BY <1>8, <2>2 DEF Explains
  <2>4. ProjectScreenMessage(t, heat, src, m) = removed("DELETE", id, {id})
    BY <1>3, <1>8, <2>2 DEF ProjectScreenMessage
  <2>5. "DELETE" \in Ops
    BY DEF Ops
  <2> HIDE DEF removed
  <2> QED
    BY <1>5, <2>3, <2>4, <2>5
<1>9. CASE m.h = "m_a"
  <2>1. \A i \in Ids \cap Ids : Explains(m, i)
    BY <1>9 DEF Explains
  <2>2. ProjectScreenMessage(t, heat, src, m) = removed("CLEAR", 0, Ids)
    BY <1>3, <1>9 DEF ProjectScreenMessage
  <2>3. "CLEAR" \in Ops /\ 0 \in Ids \cup {0}
    BY DEF Ops
  <2> HIDE DEF removed
  <2> QED
    BY <1>5, <2>1, <2>2, <2>3
<1>10. CASE m.h \notin {"m_i", "m_c", "m_d", "m_a"}
  <2>1. ProjectScreenMessage(t, heat, src, m) = InsertObservation(t, key, "UNKNOWN", 0)
    BY <1>3, <1>10 DEF ProjectScreenMessage
  <2>2. "UNKNOWN" \in Ops
    BY DEF Ops
  <2> QED
    BY <1>3, <1>4, <2>1, <2>2
<1> QED
  BY <1>6, <1>7, <1>8, <1>9, <1>10

-----------------------------------------------------------------------------
(* The tables of all heats.                                                *)

\* A ledger grown by records of one source.
Grown(old, new, src) == \A key \in DOMAIN new : key \in DOMAIN old \/ key.src = src

\* Tables of as many heats.
SameHeats(c, d) == Len(d.current) = Len(c.current)

AllTables(R) == [ledger : Ledgers, current : Seq(SoundRows(R))]

\* What was explained by some frames is explained by more of them.
LEMMA SoundMore ==
    ASSUME NEW R, NEW Q, \A f \in DOMAIN R : f \in DOMAIN Q /\ Q[f].msgs = R[f].msgs
    PROVE  SoundRows(R) \subseteq SoundRows(Q) /\ \A rows \in Seq(SoundRows(R)) : rows \in Seq(SoundRows(Q))
<1>1. \A i, row : SoundRow(R, i, row) => SoundRow(Q, i, row)
  BY DEF SoundRow
<1>2. SoundRows(R) \subseteq SoundRows(Q)
  BY <1>1 DEF SoundRows
<1>3. ASSUME NEW rows \in Seq(SoundRows(R)) PROVE rows \in Seq(SoundRows(Q))
  <2>1. rows \in [1..Len(rows) -> SoundRows(Q)] /\ Len(rows) \in Nat
    BY <1>2
  <2> QED
    BY <2>1, IsASeq
<1> QED
  BY <1>2, <1>3

LEMMA ProjectedSound ==
    ASSUME NEW R, NEW c \in AllTables(R), NEW heat \in 1..Len(c.current), NEW src, NEW m \in Messages,
           Refers(R, src, m), NEW d, d = Projected(c, heat, src, m)
    PROVE  /\ d \in AllTables(R) /\ SameHeats(c, d)
           /\ Grown(c.ledger, d.ledger, src)
           /\ d.current[heat] = ProjectScreenMessage([ledger |-> c.ledger, rows |-> c.current[heat]], heat, src, m).rows
<1>1. c.ledger \in Ledgers /\ c.current \in Seq(SoundRows(R)) /\ heat \in Nat
  BY DEF AllTables
<1>2. PICK rows \in SoundRows(R) : rows = c.current[heat]
  BY <1>1, ElementOfSeq
<1>3. PICK t \in Tables(R) : t = [ledger |-> c.ledger, rows |-> rows] /\ t.ledger = c.ledger
  <2>1. [ledger |-> c.ledger, rows |-> rows] \in Tables(R)
    BY <1>1, <1>2 DEF Tables
  <2> QED
    BY <2>1
<1>4. PICK u \in Tables(R) : /\ u = ProjectScreenMessage(t, heat, src, m)
                             /\ \A key \in DOMAIN u.ledger : key \in DOMAIN t.ledger \/ key.src = src
  BY <1>1, ProjectSound
<1>5. u.ledger \in Ledgers /\ u.rows \in SoundRows(R)
  BY DEF Tables
<1>6. PICK cs : cs = [c.current EXCEPT ![heat] = u.rows]
  OBVIOUS
<1>7. cs \in Seq(SoundRows(R)) /\ Len(cs) = Len(c.current) /\ cs[heat] = u.rows
  BY <1>1, <1>5, <1>6, ExceptSeq
<1>8. d = [ledger |-> u.ledger, current |-> cs]
  BY <1>2, <1>3, <1>4, <1>6 DEF Projected
<1>9. d.ledger = u.ledger /\ d.current = cs /\ d \in AllTables(R)
  BY <1>5, <1>7, <1>8 DEF AllTables
<1> QED
  BY <1>2, <1>3, <1>4, <1>7, <1>9 DEF Grown, SameHeats

-----------------------------------------------------------------------------
(* A frame received.                                                       *)

Accs(R) == {a \in [tables : AllTables(R), heats : Seq(Nat), synced : BOOLEAN] :
              Len(a.heats) = Len(a.tables.current) /\ Len(a.heats) # 0}

LEMMA NormalizeSound ==
    ASSUME NEW R, NEW a \in Accs(R), NEW m \in Messages, NEW src, Refers(R, src, m), NEW at \in Nat,
           NEW b, b = Normalize(a, m, src, at)
    PROVE  b \in Accs(R) /\ Grown(a.tables.ledger, b.tables.ledger, src)
<1>1. /\ a.tables \in AllTables(R) /\ a.heats \in Seq(Nat) /\ a.synced \in BOOLEAN
      /\ Len(a.heats) = Len(a.tables.current) /\ Len(a.heats) # 0
  BY DEF Accs
<1>2. PICK c \in AllTables(R) : c = a.tables
  BY <1>1
<1>3. c.ledger \in Ledgers /\ c.current \in Seq(SoundRows(R)) /\ Len(a.heats) = Len(c.current) /\ Len(a.heats) \in 1..Len(c.current)
  BY <1>1, <1>2 DEF AllTables
<1>4. CASE IsBoard(m)
  <2>1. PICK heat \in 1..Len(c.current) : heat = Len(a.heats)
    BY <1>3
  <2>2. PICK d : d = Projected(c, heat, src, m)
    OBVIOUS
  <2>3. d \in AllTables(R) /\ Len(d.current) = Len(c.current) /\ Grown(c.ledger, d.ledger, src)
    <3>1. d \in AllTables(R) /\ SameHeats(c, d) /\ Grown(c.ledger, d.ledger, src)
      BY <2>2, ProjectedSound
    <3> QED
      BY <3>1 DEF SameHeats
  <2>4. b = [tables |-> d, heats |-> a.heats, synced |-> Readable(m) /\ (a.synced \/ m.h = "m_i")]
    BY <1>2, <1>4, <2>1, <2>2 DEF Normalize
  <2>5. (Readable(m) /\ (a.synced \/ m.h = "m_i")) \in BOOLEAN
    OBVIOUS
  <2>6. PICK s \in BOOLEAN : s = (Readable(m) /\ (a.synced \/ m.h = "m_i"))
    BY <2>5
  <2>7. b.tables = d /\ b.heats = a.heats /\ b \in [tables : AllTables(R), heats : Seq(Nat), synced : BOOLEAN]
    BY <1>1, <2>3, <2>4, <2>6
  <2> QED
    BY <1>1, <1>2, <1>3, <2>3, <2>7 DEF Accs
<1>5. CASE ~ IsBoard(m)
  <2>1. NoRows \in SoundRows(R)
    <3>1. NoRows \in [{} -> Row]
      BY DEF NoRows
    <3> QED
      BY <3>1 DEF SoundRows, Rows
  <2>2. PICK cs : cs = Append(c.current, NoRows)
    OBVIOUS
  <2>3. PICK hs : hs = Append(a.heats, at)
    OBVIOUS
  <2>4. cs \in Seq(SoundRows(R)) /\ Len(cs) = Len(c.current) + 1
    BY <1>3, <2>1, <2>2, AppendProperties
  <2>5. hs \in Seq(Nat) /\ Len(hs) = Len(a.heats) + 1
    BY <1>1, <2>3, AppendProperties
  <2>6. PICK d \in AllTables(R) : d = [c EXCEPT !.current = cs] /\ d.current = cs /\ d.ledger = c.ledger
    <3>1. PICK d : d = [c EXCEPT !.current = cs]
      OBVIOUS
    <3>2. d \in AllTables(R) /\ d.current = cs /\ d.ledger = c.ledger
      BY <2>4, <3>1 DEF AllTables
    <3> QED
      BY <3>1, <3>2
  <2>7. b = [tables |-> d, heats |-> hs, synced |-> FALSE]
    BY <1>2, <1>5, <2>2, <2>3, <2>6 DEF Normalize, StartNewHeat
  <2>8. b.tables = d /\ b.heats = hs /\ b \in [tables : AllTables(R), heats : Seq(Nat), synced : BOOLEAN]
    BY <2>5, <2>7
  <2> QED
    <3>1. Len(b.heats) = Len(b.tables.current) /\ Len(b.heats) # 0
      BY <1>1, <1>3, <2>4, <2>5, <2>6, <2>8
    <3>2. b \in Accs(R)
      BY <2>8, <3>1 DEF Accs
    <3> QED
      BY <1>2, <2>6, <2>8, <3>2 DEF Grown
<1> QED
  BY <1>4, <1>5

\* The loop of a received frame over its messages.
ReceiveStart == [tables |-> [ledger |-> ledger, current |-> IF current = <<>> THEN <<NoRows>> ELSE current],
                 heats |-> EnsureHeat(Len(raw) + 1), synced |-> synced]

\* The first n messages on their way, and the frame they make.
Framed(n, id, msgs, row) ==
    /\ n \in 1..Len(outbox) /\ id \in Nat /\ id # 0 /\ id = Len(raw) + 1
    /\ msgs \in Seq(Messages) /\ msgs = SubSeq(outbox, 1, n) /\ Len(msgs) = n
    /\ \A k \in 1..n : msgs[k] = outbox[k]
    /\ row \in Frames(Seq(Messages)) /\ row.msgs = msgs
    /\ raw' = Append(raw, row)

ReceiveLoop(A, R, n, id, msgs) ==
    /\ A \in [0..n -> Accs(R)] /\ A[0] = ReceiveStart
    /\ \A k \in 1..n : A[k] = Normalize(A[k - 1], msgs[k], Source(id, k), id)
    /\ ledger' = A[n].tables.ledger /\ current' = A[n].tables.current /\ heats' = A[n].heats /\ synced' = A[n].synced

LEMMA ReceiveRun ==
    ASSUME NEW R, NEW n, NEW id, NEW msgs, NEW row, Framed(n, id, msgs, row), Receive(n), ReceiveStart \in Accs(R),
           id \in DOMAIN R, R[id] = row
    PROVE  \E A : ReceiveLoop(A, R, n, id, msgs)
<1> DEFINE V == Accs(R)
           e == ReceiveStart
           F == [kv \in (1..n) \X V |-> Normalize(kv[2], msgs[kv[1]], Source(id, kv[1]), id)]
           Run(a) == a = [k \in 0..n |-> IF k = 0 THEN e ELSE Normalize(a[k - 1], msgs[k], Source(id, k), id)]
           B == CHOOSE a : Run(a)
<1>1. n \in Nat /\ id \in Nat /\ id # 0 /\ msgs \in Seq(Messages) /\ Len(msgs) = n /\ R[id].msgs = msgs
  BY DEF Framed
<1>2. n \in Nat /\ \A k \in 1..n : k \in 0..n /\ k # 0 /\ k - 1 \in 0..n
  BY <1>1
<1>3. e \in V
  OBVIOUS
<1>4. ASSUME NEW k \in 1..n, NEW v \in V PROVE Normalize(v, msgs[k], Source(id, k), id) \in V
  <2>1. PICK m \in Messages : m = msgs[k]
    BY <1>1, ElementOfSeq
  <2>2. PICK src : src = Source(id, k)
    OBVIOUS
  <2>3. Refers(R, src, m)
    BY <1>1, <1>2, <2>1, <2>2 DEF Refers, Source, Sources
  <2>4. PICK b : b = Normalize(v, m, src, id)
    OBVIOUS
  <2>5. b \in Accs(R)
    BY <1>1, <2>3, <2>4, NormalizeSound
  <2> QED
    BY <2>1, <2>2, <2>4, <2>5
<1>5. ledger' = B[n].tables.ledger /\ current' = B[n].tables.current /\ heats' = B[n].heats /\ synced' = B[n].synced
  <2>1. msgs = SubSeq(outbox, 1, n) /\ id = Len(raw) + 1
    BY DEF Framed
  <2> QED
    BY <2>1 DEF Receive, ReceiveStart
<1> HIDE DEF e, V
<1>6. F \in [(1..n) \X V -> V] /\ \A k \in 1..n, v \in V : F[<<k, v>>] = Normalize(v, msgs[k], Source(id, k), id)
  BY <1>4
<1>7. PICK A : IsRun(A, n, V, e, F)
  <2> HIDE DEF F
  <2> QED
    BY <1>2, <1>3, <1>6, RunExists
<1> HIDE DEF F
<1>8. A \in [0..n -> V] /\ A[0] = e /\ \A k \in 1..n : A[k] = Normalize(A[k - 1], msgs[k], Source(id, k), id)
  BY <1>2, <1>6, <1>7 DEF IsRun
<1>9. Run(A)
  <2>1. ASSUME NEW k \in 0..n
        PROVE  A[k] = IF k = 0 THEN e ELSE Normalize(A[k - 1], msgs[k], Source(id, k), id)
    <3>1. k # 0 => k \in 1..n
      BY <1>2
    <3> QED
      BY <1>8, <3>1
  <2> QED
    BY <1>8, <2>1
<1>10. Run(B)
  <2> HIDE DEF Run
  <2> QED
    BY <1>9
<1> HIDE DEF B
<1>11. B[0] = e /\ (\A k \in 1..n : B[k] = Normalize(B[k - 1], msgs[k], Source(id, k), id)) /\ DOMAIN B = 0..n /\ B = [k \in 0..n |-> B[k]]
  <2>1. DOMAIN B = 0..n /\ B = [k \in 0..n |-> B[k]]
    BY <1>10, Zenon
  <2>2. 0 \in 0..n
    BY <1>2
  <2> QED
    BY <1>2, <1>10, <2>1, <2>2
<1> HIDE DEF Run
<1>12. B \in [0..n -> V]
  <2> DEFINE Good == {k \in 0..n : B[k] \in V}
  <2>1. 0 \in Good
    BY <1>2, <1>3, <1>11
  <2>2. \A k \in 1..n : k - 1 \in Good => k \in Good
    BY <1>2, <1>4, <1>11
  <2> HIDE DEF Good
  <2>3. 0..n \subseteq Good
    BY <1>2, <2>1, <2>2, UpTo
  <2> QED
    BY <1>11, <2>3 DEF Good
<1>13. ReceiveLoop(B, R, n, id, msgs)
  BY <1>5, <1>11, <1>12 DEF V, e, ReceiveLoop
<1> QED
  BY <1>13

-----------------------------------------------------------------------------
(* The backfill.  R are frames, and H the times of the heats.              *)

\* The last heat of H at a time.
HeatAt(H, at) == Max({0} \cup {g \in DOMAIN H : H[g] <= at})

\* The tables c with the k-th message of frame f.
Turn(c, R, H, f, k) ==
    IF IsBoard(R[f].msgs[k]) THEN Projected(c, HeatAt(H, R[f].at), Source(f, k), R[f].msgs[k]) ELSE c

TablesOf(R, H) == {d \in AllTables(R) : Len(d.current) = Len(H)}

\* A run over the messages of frame f.
FrameRun(A, R, H, f) ==
    /\ A \in [0..Len(R[f].msgs) -> TablesOf(R, H)]
    /\ \A k \in 1..Len(R[f].msgs) : A[k] = Turn(A[k - 1], R, H, f, k)

\* Frame f makes d of c.
Makes(c, R, H, f, d) == \E A : FrameRun(A, R, H, f) /\ A[0] = c /\ A[Len(R[f].msgs)] = d

Blank(H) == [ledger |-> NoRows, current |-> [g \in 1..Len(H) |-> NoRows]]

\* W are the tables after each frame, when every frame is there.
Whole(W, R, H) ==
    /\ W \in [0..Len(R) -> TablesOf(R, H)] /\ W[0] = Blank(H)
    /\ \A f \in 1..Len(R) : Makes(W[f - 1], R, H, f, W[f])

RawTyped == raw \in Seq(Frames(Seq(Messages))) /\ heats \in Seq(Nat)

\* Sound tables of the heats there are.
HeatTables == {d \in AllTables(raw) : Len(d.current) = Len(heats)}

LEMMA HeatSound ==
    ASSUME RawTyped, NEW at
    PROVE  HeatForObservation(at) \in 0..Len(heats)
<1> DEFINE T == {0} \cup {g \in DOMAIN heats : heats[g] <= at}
<1>1. Len(heats) \in Nat /\ DOMAIN heats = 1..Len(heats)
  BY DEF RawTyped
<1>2. T \in SUBSET (0..Len(heats)) /\ T # {}
  BY <1>1
<1>3. HeatForObservation(at) = Max(T)
  BY DEF HeatForObservation
<1> HIDE DEF T
<1> QED
  BY <1>1, <1>2, <1>3, MaxBounded

\* What the backfill makes of one message of a frame.
ReplayStep(c, f, k) ==
    IF IsBoard(raw[f].msgs[k]) THEN Projected(c, HeatForObservation(raw[f].at), Source(f, k), raw[f].msgs[k]) ELSE c

LEMMA ReplayStepSound ==
    ASSUME RawTyped, NEW f \in DOMAIN raw, BoardFrame(f) => HeatForObservation(raw[f].at) # 0,
           NEW c \in HeatTables, NEW k \in 1..Len(raw[f].msgs)
    PROVE  ReplayStep(c, f, k) \in HeatTables
<1>1. raw[f] \in Frames(Seq(Messages)) /\ f \in Nat \ {0}
  BY DEF RawTyped
<1>2. PICK msgs \in Seq(Messages) : msgs = raw[f].msgs
  BY <1>1 DEF Frames
<1>3. PICK m \in Messages : m = msgs[k]
  BY <1>2, ElementOfSeq
<1>4. CASE IsBoard(m)
  <2>1. BoardFrame(f)
    BY <1>2, <1>3, <1>4 DEF BoardFrame
  <2>2. PICK cc \in AllTables(raw) : cc = c /\ Len(cc.current) = Len(heats)
    BY DEF HeatTables
  <2>3. PICK heat \in 1..Len(cc.current) : heat = HeatForObservation(raw[f].at)
    <3>1. HeatForObservation(raw[f].at) \in 0..Len(heats) /\ Len(heats) \in Nat
      BY HeatSound DEF RawTyped
    <3>2. HeatForObservation(raw[f].at) \in 1..Len(heats)
      BY <2>1, <3>1
    <3> QED
      BY <2>2, <3>2
  <2>4. PICK src : src = Source(f, k)
    OBVIOUS
  <2>5. Refers(raw, src, m)
    BY <1>1, <1>2, <1>3, <2>4 DEF Refers, Source, Sources
  <2>6. PICK d : d = Projected(cc, heat, src, m)
    OBVIOUS
  <2>7. d \in AllTables(raw) /\ SameHeats(cc, d)
    BY <2>5, <2>6, ProjectedSound
  <2>8. d = ReplayStep(c, f, k)
    BY <1>2, <1>3, <1>4, <2>2, <2>3, <2>4, <2>6 DEF ReplayStep
  <2> QED
    BY <2>2, <2>7, <2>8 DEF SameHeats, HeatTables
<1>5. CASE ~ IsBoard(m)
  BY <1>2, <1>3, <1>5 DEF ReplayStep
<1> QED
  BY <1>4, <1>5

LEMMA ReplayedSound ==
    ASSUME RawTyped, NEW f \in DOMAIN raw, BoardFrame(f) => HeatForObservation(raw[f].at) # 0, NEW c \in HeatTables
    PROVE  Replayed(c, f) \in HeatTables /\ Makes(c, raw, heats, f, Replayed(c, f))
<1> DEFINE n == Len(raw[f].msgs)
           V == HeatTables
           e == c
           F == [kv \in (1..n) \X V |-> ReplayStep(kv[2], f, kv[1])]
           Run(a) == a = [k \in 0..n |-> IF k = 0 THEN e ELSE ReplayStep(a[k - 1], f, k)]
           B == CHOOSE a : Run(a)
<1>1. n \in Nat /\ n \in 0..n /\ \A k \in 1..n : k \in 0..n /\ k # 0 /\ k - 1 \in 0..n
  <2>1. raw[f] \in Frames(Seq(Messages))
    BY DEF RawTyped
  <2>2. n \in Nat
    BY <2>1 DEF Frames
  <2> HIDE DEF n
  <2> QED
    BY <2>2
<1>2. e \in V
  OBVIOUS
<1>3. \A k \in 1..n, v \in V : ReplayStep(v, f, k) \in V
  BY ReplayStepSound
<1>4. Replayed(c, f) = B[n]
  BY DEF Replayed, ReplayStep
<1> HIDE DEF e, V, n
<1>5. F \in [(1..n) \X V -> V] /\ \A k \in 1..n, v \in V : F[<<k, v>>] = ReplayStep(v, f, k)
  BY <1>3
<1>6. PICK A : IsRun(A, n, V, e, F)
  <2> HIDE DEF F
  <2> QED
    BY <1>1, <1>2, <1>5, RunExists
<1> HIDE DEF F
<1>7. A \in [0..n -> V] /\ A[0] = e /\ \A k \in 1..n : A[k] = ReplayStep(A[k - 1], f, k)
  BY <1>1, <1>5, <1>6 DEF IsRun
<1>8. Run(A)
  <2>1. ASSUME NEW k \in 0..n
        PROVE  A[k] = IF k = 0 THEN e ELSE ReplayStep(A[k - 1], f, k)
    <3>1. k # 0 => k \in 1..n
      BY <1>1
    <3> QED
      BY <1>7, <3>1
  <2> QED
    BY <1>7, <2>1
<1>9. Run(B)
  <2> HIDE DEF Run
  <2> QED
    BY <1>8
<1> HIDE DEF B
<1>10. B[0] = e /\ (\A k \in 1..n : B[k] = ReplayStep(B[k - 1], f, k)) /\ DOMAIN B = 0..n /\ B = [k \in 0..n |-> B[k]]
  <2>1. DOMAIN B = 0..n /\ B = [k \in 0..n |-> B[k]]
    BY <1>9, Zenon
  <2>2. 0 \in 0..n
    BY <1>1
  <2> QED
    BY <1>1, <1>9, <2>1, <2>2
<1> HIDE DEF Run
<1>11. B \in [0..n -> V]
  <2> DEFINE Good == {k \in 0..n : B[k] \in V}
  <2>1. 0 \in Good
    BY <1>1, <1>2, <1>10
  <2>2. \A k \in 1..n : k - 1 \in Good => k \in Good
    BY <1>1, <1>3, <1>10
  <2> HIDE DEF Good
  <2>3. 0..n \subseteq Good
    BY <1>1, <2>1, <2>2, UpTo
  <2> QED
    BY <1>10, <2>3 DEF Good
<1>12. B[n] \in V
  BY <1>1, <1>11
<1>13. FrameRun(B, raw, heats, f)
  <2>1. V = TablesOf(raw, heats)
    BY DEF V, HeatTables, TablesOf
  <2>2. \A x : HeatForObservation(x) = HeatAt(heats, x)
    BY DEF HeatForObservation, HeatAt
  <2>3. \A x, k : ReplayStep(x, f, k) = Turn(x, raw, heats, f, k)
    BY <2>2 DEF ReplayStep, Turn
  <2> QED
    BY <1>10, <1>11, <2>1, <2>3 DEF FrameRun, n
<1>14. Makes(c, raw, heats, f, B[n])
  BY <1>10, <1>13 DEF Makes, n, e
<1> QED
  BY <1>4, <1>12, <1>14 DEF V

BackfillStep(c, f) == IF raw[f].kept THEN Replayed(c, f) ELSE c

\* D are the tables after each frame, when those that are pruned are passed over.
Passes(D) ==
    /\ D \in [0..Len(raw) -> HeatTables] /\ D[0] = Blank(heats)
    /\ \A f \in 1..Len(raw) : /\ raw[f].kept => Makes(D[f - 1], raw, heats, f, D[f])
                              /\ ~ raw[f].kept => D[f] = D[f - 1]

\* A backfill makes sound tables, frame by frame.
LEMMA BackfillSound ==
    ASSUME RawTyped, Backfill
    PROVE  /\ \E c \in HeatTables : ledger' = c.ledger /\ current' = c.current
           /\ \E D : Passes(D) /\ ledger' = D[Len(raw)].ledger /\ current' = D[Len(raw)].current
<1> DEFINE n == Len(raw)
           V == HeatTables
           e == [ledger |-> NoRows, current |-> [g \in 1..Len(heats) |-> NoRows]]
           F == [kv \in (1..n) \X V |-> BackfillStep(kv[2], kv[1])]
           Run(a) == a = [k \in 0..n |-> IF k = 0 THEN e ELSE BackfillStep(a[k - 1], k)]
           B == CHOOSE a : Run(a)
<1>1. n \in Nat /\ n \in 0..n /\ \A k \in 1..n : k \in 0..n /\ k # 0 /\ k - 1 \in 0..n /\ k \in DOMAIN raw
  BY DEF RawTyped
<1>2. e \in V
  <2>1. NoRows \in [{} -> Row] /\ NoRows \in [{} -> Entries]
    BY DEF NoRows
  <2>2. NoRows \in SoundRows(raw) /\ NoRows \in Ledgers
    BY <2>1 DEF SoundRows, Rows, Ledgers
  <2>3. PICK cs : cs = [g \in 1..Len(heats) |-> NoRows]
    OBVIOUS
  <2>4. Len(heats) \in Nat
    BY DEF RawTyped
  <2>5. cs \in Seq(SoundRows(raw)) /\ Len(cs) = Len(heats)
    <3>1. cs \in [1..Len(heats) -> SoundRows(raw)]
      BY <2>2, <2>3
    <3> QED
      BY <2>4, <3>1, IsASeq, LenProperties
  <2>6. PICK d : d = [ledger |-> NoRows, current |-> cs]
    OBVIOUS
  <2>7. d \in AllTables(raw) /\ d.current = cs
    BY <2>2, <2>5, <2>6 DEF AllTables
  <2> QED
    BY <2>3, <2>5, <2>6, <2>7 DEF HeatTables
<1>3. ASSUME NEW k \in 1..n, NEW v \in V PROVE BackfillStep(v, k) \in V /\ (raw[k].kept => Makes(v, raw, heats, k, BackfillStep(v, k)))
  <2>1. k \in DOMAIN raw
    BY <1>1
  <2>2. CASE raw[k].kept
    <3>1. BoardFrame(k) => HeatForObservation(raw[k].at) # 0
      BY <2>1, <2>2 DEF Backfill
    <3>2. Replayed(v, k) \in V /\ Makes(v, raw, heats, k, Replayed(v, k))
      BY <2>1, <3>1, ReplayedSound
    <3> QED
      BY <2>2, <3>2 DEF BackfillStep
  <2>3. CASE ~ raw[k].kept
    BY <2>3 DEF BackfillStep
  <2> QED
    BY <2>2, <2>3
<1>4. ledger' = B[n].ledger /\ current' = B[n].current
  BY DEF Backfill, BackfillStep
<1> HIDE DEF e, V, n
<1>5. F \in [(1..n) \X V -> V] /\ \A k \in 1..n, v \in V : F[<<k, v>>] = BackfillStep(v, k)
  BY <1>3
<1>6. PICK A : IsRun(A, n, V, e, F)
  <2> HIDE DEF F
  <2> QED
    BY <1>1, <1>2, <1>5, RunExists
<1> HIDE DEF F
<1>7. A \in [0..n -> V] /\ A[0] = e /\ \A k \in 1..n : A[k] = BackfillStep(A[k - 1], k)
  BY <1>1, <1>5, <1>6 DEF IsRun
<1>8. Run(A)
  <2>1. ASSUME NEW k \in 0..n
        PROVE  A[k] = IF k = 0 THEN e ELSE BackfillStep(A[k - 1], k)
    <3>1. k # 0 => k \in 1..n
      BY <1>1
    <3> QED
      BY <1>7, <3>1
  <2> QED
    BY <1>7, <2>1
<1>9. Run(B)
  <2> HIDE DEF Run
  <2> QED
    BY <1>8
<1> HIDE DEF B
<1>10. B[0] = e /\ (\A k \in 1..n : B[k] = BackfillStep(B[k - 1], k)) /\ DOMAIN B = 0..n /\ B = [k \in 0..n |-> B[k]]
  <2>1. DOMAIN B = 0..n /\ B = [k \in 0..n |-> B[k]]
    BY <1>9, Zenon
  <2>2. 0 \in 0..n
    BY <1>1
  <2> QED
    BY <1>1, <1>9, <2>1, <2>2
<1> HIDE DEF Run
<1>11. B \in [0..n -> V]
  <2> DEFINE Good == {k \in 0..n : B[k] \in V}
  <2>1. 0 \in Good
    BY <1>1, <1>2, <1>10
  <2>2. \A k \in 1..n : k - 1 \in Good => k \in Good
    BY <1>1, <1>3, <1>10
  <2> HIDE DEF Good
  <2>3. 0..n \subseteq Good
    BY <1>1, <2>1, <2>2, UpTo
  <2> QED
    BY <1>10, <2>3 DEF Good
<1>12. B[n] \in V
  BY <1>1, <1>11
<1>13. Passes(B)
  <2>1. ASSUME NEW k \in 1..n
        PROVE  (raw[k].kept => Makes(B[k - 1], raw, heats, k, B[k])) /\ (~ raw[k].kept => B[k] = B[k - 1])
    <3>1. B[k - 1] \in V /\ B[k] = BackfillStep(B[k - 1], k)
      BY <1>1, <1>10, <1>11
    <3> QED
      BY <1>3, <3>1 DEF BackfillStep
  <2> QED
    BY <1>10, <1>11, <2>1 DEF Passes, Blank, n, V, e
<1> QED
  BY <1>4, <1>12, <1>13 DEF V, n

-----------------------------------------------------------------------------
(* What a message does to the provider's board, and what the rows show.    *)

Boards == UNION {[S -> Fields] : S \in SUBSET Ids}

\* The active rows are the messages b, with every field they have.
Shows(rows, b) ==
    /\ \A i \in Ids : i \in DOMAIN rows /\ rows[i].active <=> i \in DOMAIN b
    /\ \A i \in DOMAIN b : \A f \in DOMAIN b[i] : f \in DOMAIN rows[i].fields /\ rows[i].fields[f] = b[i][f]

\* The collection that a snapshot describes: the first item of an id has the last word.
Collected(items, c) ==
    /\ \A i \in Ids : i \in DOMAIN c <=> \E j \in 1..Len(items) : items[j].id = i
    /\ \A i \in DOMAIN c : \A f \in DOMAIN c[i] :
         \E j \in 1..Len(items) : /\ items[j].id = i /\ f \in DOMAIN items[j].patch /\ items[j].patch[f] = c[i][f]
                                  /\ \A h \in 1..(j - 1) : items[h].id = i => f \notin DOMAIN items[h].patch

\* The message m takes the collection b to c.
Effect(m, b, c) ==
    Readable(m) =>
      /\ m.h = "m_i" => Collected(m.items, c)
      /\ m.h = "m_c" => LET i == m.items[1].id
                        IN c = With(b, i, Merged(m.items[1].patch, IF i \in DOMAIN b THEN b[i] ELSE NoFields))
      /\ m.h = "m_d" => c = Without(b, {m.items[1].id})
      /\ m.h = "m_a" => c = NoRows

\* No record has this source.
Fresh(l, src) == \A key \in DOMAIN l : key.src # src

LEMMA UpsertShown ==
    ASSUME NEW R, NEW t \in Tables(R), NEW u \in Tables(R), NEW b \in Boards, NEW i \in Ids, NEW patch \in Fields,
           Shows(t.rows, b), Upserted(t, u, i, patch)
    PROVE  Shows(u.rows, With(b, i, Merged(patch, IF i \in DOMAIN b THEN b[i] ELSE NoFields)))
<1>1. PICK old : old = IF i \in DOMAIN b THEN b[i] ELSE NoFields
  OBVIOUS
<1>2. DOMAIN b \subseteq Ids /\ b \in [DOMAIN b -> Fields]
  BY DEF Boards
<1>3. old \in Fields
  BY <1>1, <1>2, FieldsCut
<1>4. PICK new : new = Merged(patch, old)
  OBVIOUS
<1>5. DOMAIN new = DOMAIN patch \cup DOMAIN old
      /\ \A f \in DOMAIN patch \cup DOMAIN old : new[f] = IF f \in DOMAIN patch THEN patch[f] ELSE old[f]
  BY <1>3, <1>4, FieldsMerge
<1>6. PICK c : c = With(b, i, new)
  OBVIOUS
<1>7. DOMAIN c = DOMAIN b \cup {i} /\ c[i] = new /\ \A j \in DOMAIN b : j # i => c[j] = b[j]
  BY <1>6 DEF With
<1>8. DOMAIN NoFields = {}
  BY DEF NoFields
<1>9. \A j \in Ids : j \in DOMAIN u.rows /\ u.rows[j].active <=> j \in DOMAIN c
  BY <1>7 DEF Shows, Upserted
<1>10. ASSUME NEW j \in DOMAIN c, NEW f \in DOMAIN c[j]
       PROVE  f \in DOMAIN u.rows[j].fields /\ u.rows[j].fields[f] = c[j][f]
  <2>1. CASE j # i
    <3>1. j \in DOMAIN b /\ c[j] = b[j] /\ j \in DOMAIN t.rows
      BY <1>2, <1>7, <2>1 DEF Shows
    <3>2. u.rows[j] = t.rows[j]
      BY <2>1, <3>1 DEF Upserted
    <3> QED
      BY <1>10, <3>1, <3>2 DEF Shows
  <2>2. CASE j = i /\ f \in DOMAIN patch
    BY <1>5, <1>7, <2>2 DEF Upserted
  <2>3. CASE j = i /\ f \notin DOMAIN patch
    <3>1. f \in DOMAIN old /\ c[i][f] = old[f]
      BY <1>5, <1>7, <1>10, <2>3
    <3>2. i \in DOMAIN b /\ old = b[i]
      BY <1>1, <1>8, <3>1
    <3>3. i \in DOMAIN t.rows /\ f \in DOMAIN t.rows[i].fields /\ t.rows[i].fields[f] = b[i][f]
      BY <3>1, <3>2 DEF Shows
    <3> QED
      BY <2>3, <3>1, <3>2, <3>3 DEF Upserted
  <2> QED
    BY <2>1, <2>2, <2>3
<1>11. Shows(u.rows, c)
  BY <1>9, <1>10 DEF Shows
<1> QED
  BY <1>1, <1>4, <1>6, <1>11

LEMMA RemoveShown ==
    ASSUME NEW R, NEW t \in Tables(R), NEW b \in Boards, Shows(t.rows, b), NEW rows, NEW ids,
           DOMAIN rows = DOMAIN t.rows,
           \A i \in DOMAIN t.rows : /\ rows[i].active <=> t.rows[i].active /\ i \notin ids
                                    /\ rows[i].fields = t.rows[i].fields
    PROVE  Shows(rows, Without(b, ids))
<1>1. DOMAIN b \subseteq Ids
  BY DEF Boards
<1>2. PICK c : c = Without(b, ids)
  OBVIOUS
<1>3. DOMAIN c = DOMAIN b \ ids /\ \A i \in DOMAIN c : c[i] = b[i]
  BY <1>2 DEF Without
<1>4. Shows(rows, c)
  BY <1>1, <1>3 DEF Shows
<1> QED
  BY <1>2, <1>4

\* The rows after a complete snapshot are the collection.
LEMMA SnapshotShown ==
    ASSUME NEW R, NEW t \in Tables(R), NEW heat \in Nat, NEW src, NEW m \in Messages,
           m.h = "m_i", Readable(m), Refers(R, src, m), Fresh(t.ledger, src), NEW c \in Boards, Collected(m.items, c)
    PROVE  Shows(ProjectSnapshot(t, heat, src, m.items).rows, c)
<1>1. PICK items \in Seq(ItemSet) : items = m.items
  BY DEF Messages
<1>2. src \in Sources
  BY DEF Refers
<1>3. PICK A : SnapshotLoop(A, R, t, heat, src, items)
  BY <1>2, SnapshotRun
<1> DEFINE n == Len(items)
<1>4. src \in Sources /\ n \in Nat /\ DOMAIN items = 1..n
  BY DEF Refers
<1>5. \A j \in 1..n : items[j].bad = "" /\ items[j] \in ItemSet
  <2>1. \A j \in 1..n : items[j] \in ItemSet
    BY ElementOfSeq
  <2> QED
    BY <1>1, <1>4, <2>1 DEF Readable
<1>6. SnapshotComplete(items) /\ Visible(items) = {items[j].id : j \in 1..n}
  BY <1>4, <1>5 DEF SnapshotComplete, Visible
<1>7. /\ A \in [0..n -> Tables(R)] /\ A[0] = SnapshotStart(t, heat, src, items)
      /\ \A k \in 1..n : A[k] = ProjectItem(A[k - 1], heat, src, items, k)
      /\ ProjectSnapshot(t, heat, src, items) =
           IF SnapshotComplete(items) /\ A[n].ledger # t.ledger
             THEN ReconcileSnapshotAbsences(A[n], src, Visible(items)) ELSE A[n]
  BY <1>3 DEF SnapshotLoop
<1>8. \A k \in 0..n : A[k] \in Tables(R)
  BY <1>7
<1> DEFINE Left(l, k) == \A key \in DOMAIN l : key.src = src => key.change >= n - k
           New(l, k) == k # 0 \/ n = 0 => \E key \in DOMAIN l : key.src = src
           Put(rows, k) == \A j \in (n + 1 - k)..n :
             /\ items[j].id \in DOMAIN rows /\ rows[items[j].id].active
             /\ \A f \in DOMAIN items[j].patch :
                  (\A h \in (n + 1 - k)..(j - 1) : items[h].id = items[j].id => f \notin DOMAIN items[h].patch)
                    => f \in DOMAIN rows[items[j].id].fields /\ rows[items[j].id].fields[f] = items[j].patch[f]
           P(k) == Left(A[k].ledger, k) /\ New(A[k].ledger, k) /\ Put(A[k].rows, k)
<1>9. n \in 0..n /\ 0 \in 0..n /\ \A k \in 1..n : k \in 0..n /\ k - 1 \in 0..n
  BY <1>4
<1>10. P(0)
  <2>1. Put(A[0].rows, 0)
    BY <1>4
  <2>2. CASE n = 0
    <3>1. PICK key : key = Key(heat, src, 0)
      OBVIOUS
    <3>2. key \in Keys /\ key.src = src /\ key.change = 0
      BY <1>4, <3>1 DEF Key, Keys
    <3>3. A[0] = InsertObservation(t, key, "INITIAL_SNAPSHOT", 0)
      BY <1>6, <1>7, <2>2, <3>1 DEF SnapshotStart
    <3>4. PICK op \in Ops : op = "INITIAL_SNAPSHOT"
      BY DEF Ops
    <3>5. DOMAIN A[0].ledger = DOMAIN t.ledger \cup {key}
      BY <3>2, <3>3, <3>4, InsertSound
    <3>6. Left(A[0].ledger, 0)
      BY <2>2, <3>2, <3>5 DEF Fresh
    <3>7. New(A[0].ledger, 0)
      BY <3>2, <3>5
    <3> QED
      BY <2>1, <3>6, <3>7
  <2>3. CASE n # 0
    <3>1. items[1].id \in Visible(items)
      BY <1>4, <1>6, <2>3
    <3>2. A[0] = t
      BY <1>7, <3>1 DEF SnapshotStart
    <3>3. Left(A[0].ledger, 0) /\ New(A[0].ledger, 0)
      BY <2>3, <3>2 DEF Fresh
    <3> QED
      BY <2>1, <3>3
  <2> QED
    BY <2>2, <2>3
<1>11. ASSUME NEW k \in 1..n, P(k - 1) PROVE P(k)
  <2>1. PICK v \in Tables(R) : v = A[k - 1]
    <3> HIDE DEF P, n
    <3> QED
      BY <1>8, <1>9
  <2>2. PICK j0 \in 1..n : j0 = n + 1 - k
    BY <1>4
  <2>3. PICK key : key = Key(heat, src, j0 - 1)
    OBVIOUS
  <2>4. key.src = src /\ key.change = n - k /\ key.change >= n - k
    BY <1>4, <2>2, <2>3 DEF Key
  <2>5. key \notin DOMAIN v.ledger
    <3>1. Left(v.ledger, k - 1)
      BY <1>11, <2>1
    <3>2. ~(n - k >= n - (k - 1))
      BY <1>4
    <3> QED
      BY <2>4, <3>1, <3>2
  <2>6. PICK u \in Tables(R) : u = ProjectItem(v, heat, src, items, k) /\ Recorded(v, u, key)
                               /\ Upserted(v, u, items[j0].id, items[j0].patch)
    <3>1. items[j0].bad = "" /\ Key(heat, src, j0 - 1) \notin DOMAIN v.ledger /\ j0 = Len(items) + 1 - k
      BY <1>5, <2>2, <2>3, <2>5
    <3> QED
      BY <1>4, <2>3, <3>1, ItemShown
  <2>7. A[k] = u
    BY <1>7, <2>1, <2>6
  <2>8. Left(u.ledger, k)
    <3>1. Left(v.ledger, k - 1)
      BY <1>11, <2>1
    <3>2. ASSUME NEW x \in DOMAIN u.ledger, x.src = src PROVE x.change >= n - k
      <4>1. CASE x = key
        BY <2>4, <4>1
      <4>2. CASE x # key
        <5>1. x \in DOMAIN v.ledger
          BY <2>6, <4>2 DEF Recorded
        <5>2. x.change >= n - (k - 1)
          BY <3>1, <3>2, <5>1
        <5>3. x.change \in Nat
          BY <5>1 DEF Tables, Ledgers, Keys
        <5> QED
          BY <1>4, <5>2, <5>3
      <4> QED
        BY <4>1, <4>2
    <3> QED
      BY <3>2
  <2>9. New(u.ledger, k)
    BY <2>4, <2>6 DEF Recorded
  <2>10. Put(u.rows, k)
    <3>1. Put(v.rows, k - 1)
      BY <1>11, <2>1
    <3>2. n + 1 - (k - 1) = j0 + 1 /\ n + 1 - k = j0
      BY <1>4, <2>2
    <3> SUFFICES ASSUME NEW j \in j0..n
                 PROVE  /\ items[j].id \in DOMAIN u.rows /\ u.rows[items[j].id].active
                        /\ \A f \in DOMAIN items[j].patch :
                             (\A h \in j0..(j - 1) : items[h].id = items[j].id => f \notin DOMAIN items[h].patch)
                               => f \in DOMAIN u.rows[items[j].id].fields /\ u.rows[items[j].id].fields[f] = items[j].patch[f]
      BY <3>2
    <3>3. CASE j = j0
      BY <2>6, <3>3 DEF Upserted
    <3>4. CASE j # j0
      <4>1. j \in (n + 1 - (k - 1))..n /\ j0 \in j0..(j - 1)
        BY <1>4, <3>2, <3>4
      <4>2. items[j].id \in DOMAIN v.rows /\ v.rows[items[j].id].active
        BY <3>1, <4>1
      <4>3. items[j].id \in DOMAIN u.rows /\ u.rows[items[j].id].active
        BY <2>6, <4>2 DEF Upserted
      <4>4. ASSUME NEW f \in DOMAIN items[j].patch,
                   \A h \in j0..(j - 1) : items[h].id = items[j].id => f \notin DOMAIN items[h].patch
            PROVE  f \in DOMAIN u.rows[items[j].id].fields /\ u.rows[items[j].id].fields[f] = items[j].patch[f]
        <5>1. \A h \in (n + 1 - (k - 1))..(j - 1) : h \in j0..(j - 1)
          BY <1>4, <3>2
        <5>2. f \in DOMAIN v.rows[items[j].id].fields /\ v.rows[items[j].id].fields[f] = items[j].patch[f]
          BY <3>1, <4>1, <4>4, <5>1
        <5>3. CASE items[j].id = items[j0].id
          <6>1. f \notin DOMAIN items[j0].patch
            BY <4>1, <4>4, <5>3
          <6> QED
            BY <2>6, <4>2, <5>2, <5>3, <6>1 DEF Upserted
        <5>4. CASE items[j].id # items[j0].id
          BY <2>6, <4>2, <5>2, <5>4 DEF Upserted
        <5> QED
          BY <5>3, <5>4
      <4> QED
        BY <4>3, <4>4
    <3> QED
      BY <3>3, <3>4
  <2> QED
    BY <2>7, <2>8, <2>9, <2>10
<1>12. P(n)
  <2> DEFINE Good == {k \in 0..n : P(k)}
  <2> HIDE DEF P, n
  <2>1. 0 \in Good
    BY <1>9, <1>10
  <2>2. \A k \in 1..n : k - 1 \in Good => k \in Good
    BY <1>9, <1>11
  <2> HIDE DEF Good
  <2>3. 0..n \subseteq Good
    BY <1>4, <2>1, <2>2, UpTo
  <2> QED
    BY <1>9, <2>3 DEF Good
<1>13. PICK v \in Tables(R) : v = A[n] /\ New(v.ledger, n) /\ Put(v.rows, n)
  <2>1. PICK v \in Tables(R) : v = A[n]
    <3> HIDE DEF P, n
    <3> QED
      BY <1>8, <1>9
  <2>2. New(v.ledger, n) /\ Put(v.rows, n)
    BY <1>12, <2>1
  <2> QED
    BY <2>1, <2>2
<1>14. v.ledger # t.ledger
  BY <1>13 DEF Fresh
<1>15. PICK u : u = MarkRemoved(v, src, Ids \ Visible(items))
  OBVIOUS
<1>16. ProjectSnapshot(t, heat, src, m.items) = u
  BY <1>1, <1>6, <1>7, <1>13, <1>14, <1>15 DEF ReconcileSnapshotAbsences
<1>17. DOMAIN u.rows = DOMAIN v.rows
       /\ \A i \in DOMAIN v.rows : /\ u.rows[i].active <=> v.rows[i].active /\ i \in Visible(items)
                                   /\ u.rows[i].fields = v.rows[i].fields
  <2>1. \A i \in (Ids \ Visible(items)) \cap Ids : Explains(m, i)
    <3>1. \A i \in Ids \ Visible(items) : \A j \in DOMAIN items : items[j].id # i
      BY <1>4, <1>6
    <3> QED
      BY <1>1, <3>1 DEF Explains
  <2>2. DOMAIN u.rows = DOMAIN v.rows
        /\ \A i \in DOMAIN v.rows : /\ u.rows[i].active <=> v.rows[i].active /\ i \notin Ids \ Visible(items)
                                    /\ u.rows[i].fields = v.rows[i].fields
    BY <1>15, <2>1, MarkSound
  <2>3. DOMAIN v.rows \subseteq Ids
    BY DEF Tables, SoundRows, Rows
  <2> QED
    BY <2>2, <2>3
<1>18. n + 1 - n = 1
  BY <1>4
<1>19. \A i \in Ids : i \in DOMAIN u.rows /\ u.rows[i].active <=> i \in DOMAIN c
  <2>1. \A i \in Ids : i \in DOMAIN c <=> i \in Visible(items)
    BY <1>1, <1>6 DEF Collected
  <2>2. \A i \in Visible(items) : i \in DOMAIN v.rows /\ v.rows[i].active
    BY <1>6, <1>13, <1>18
  <2> QED
    BY <1>17, <2>1, <2>2
<1>20. ASSUME NEW i \in DOMAIN c, NEW f \in DOMAIN c[i]
       PROVE  f \in DOMAIN u.rows[i].fields /\ u.rows[i].fields[f] = c[i][f]
  <2>1. PICK j \in 1..n : /\ items[j].id = i /\ f \in DOMAIN items[j].patch /\ items[j].patch[f] = c[i][f]
                          /\ \A h \in 1..(j - 1) : items[h].id = i => f \notin DOMAIN items[h].patch
    BY <1>1 DEF Collected
  <2>2. i \in DOMAIN v.rows /\ f \in DOMAIN v.rows[i].fields /\ v.rows[i].fields[f] = items[j].patch[f]
    BY <1>13, <1>18, <2>1
  <2> QED
    BY <1>17, <2>1, <2>2
<1> QED
  BY <1>16, <1>19, <1>20 DEF Shows

\* A message that can be read does to the rows what it did to the collection.
LEMMA MessageShown ==
    ASSUME NEW R, NEW t \in Tables(R), NEW heat \in Nat, NEW src, NEW m \in Messages, Refers(R, src, m),
           Fresh(t.ledger, src), IsBoard(m), Readable(m),
           NEW b \in Boards, NEW c \in Boards, Effect(m, b, c), m.h # "m_i" => Shows(t.rows, b)
    PROVE  Shows(ProjectScreenMessage(t, heat, src, m).rows, c)
<1>1. PICK items \in Seq(ItemSet) : items = m.items
  BY DEF Messages
<1>2. src \in Sources
  BY DEF Refers
<1>3. PICK key \in Keys : key = Key(heat, src, 0) /\ key.src = src
  <2>1. Key(heat, src, 0) \in Keys /\ Key(heat, src, 0).src = src
    BY <1>2 DEF Key, Keys
  <2> QED
    BY <2>1
<1>4. IsNew(t, key)
  BY <1>3 DEF IsNew, Fresh
<1>5. \A op \in Ops, id \in Ids \cup {0} :
        InsertObservation(t, key, op, id) \in Tables(R) /\ InsertObservation(t, key, op, id).rows = t.rows
  BY InsertSound
<1>6. ASSUME m.h \in {"m_c", "m_d"} PROVE items[1] \in ItemSet /\ 1 \in 1..Len(items)
  <2>1. Len(m.items) = 1
    BY <1>6 DEF Messages
  <2>2. 1 \in 1..Len(items)
    BY <1>1, <2>1
  <2> QED
    BY <2>2, ElementOfSeq
<1>7. CASE m.h = "m_i"
  <2>1. ProjectScreenMessage(t, heat, src, m) = ProjectSnapshot(t, heat, src, m.items)
    BY <1>7 DEF ProjectScreenMessage
  <2>2. Collected(m.items, c)
    BY <1>7 DEF Effect
  <2>3. Shows(ProjectSnapshot(t, heat, src, m.items).rows, c)
    BY <1>7, <2>2, SnapshotShown
  <2> QED
    BY <2>1, <2>3
<1>8. CASE m.h = "m_c"
  <2>1. items[1] \in ItemSet /\ 1 \in 1..Len(items)
    BY <1>6, <1>8
  <2>2. PICK p : p = ParsePatch(items, 1)
    OBVIOUS
  <2>3. items[1].bad = ""
    <3>1. 1 \in DOMAIN m.items
      BY <1>1, <2>1
    <3> QED
      BY <1>1, <3>1 DEF Readable
  <2>4. p.id \in Ids /\ p.patch \in Fields /\ p.change = 0 /\ p.id = items[1].id /\ p.patch = items[1].patch
    <3>1. p.id \in Ids /\ p.patch \in Fields /\ p.change = 1 - 1 /\ p.id = items[1].id /\ p.patch = items[1].patch
      BY <2>1, <2>2, <2>3, ParseSound
    <3> QED
      BY <3>1
  <2>5. PICK u : u = ProjectPatch(t, heat, src, "UPSERT", p)
    OBVIOUS
  <2>6. u \in Tables(R) /\ Upserted(t, u, p.id, p.patch)
    <3>1. PICK op \in Ops : op = "UPSERT"
      BY DEF Ops
    <3>2. p.change \in Nat /\ key = Key(heat, src, p.change) /\ key \notin DOMAIN t.ledger
      BY <1>3, <1>4, <2>4 DEF IsNew
    <3>3. u = ProjectPatch(t, heat, src, op, p)
      BY <2>5, <3>1
    <3> QED
      BY <1>2, <2>4, <3>2, <3>3, PatchSound
  <2>7. PICK i \in Ids : i = p.id
    BY <2>4
  <2>8. PICK patch \in Fields : patch = p.patch
    BY <2>4
  <2>9. c = With(b, i, Merged(patch, IF i \in DOMAIN b THEN b[i] ELSE NoFields))
    BY <1>1, <1>8, <2>4, <2>7, <2>8 DEF Effect
  <2>10. Shows(u.rows, With(b, i, Merged(patch, IF i \in DOMAIN b THEN b[i] ELSE NoFields)))
    <3>1. Upserted(t, u, i, patch) /\ Shows(t.rows, b)
      BY <1>8, <2>6, <2>7, <2>8
    <3> QED
      BY <2>6, <3>1, UpsertShown
  <2>11. ProjectScreenMessage(t, heat, src, m) = u
    BY <1>1, <1>8, <2>2, <2>5 DEF ProjectScreenMessage
  <2> QED
    BY <2>9, <2>10, <2>11
<1>9. CASE m.h = "m_d"
  <2>1. PICK id \in Ids : id = m.items[1].id
    BY <1>1, <1>6, <1>9 DEF ItemSet
  <2>2. PICK ids : ids = {id}
    OBVIOUS
  <2>3. \A i \in ids \cap Ids : Explains(m, i)
    BY <1>9, <2>1, <2>2 DEF Explains
  <2>4. "DELETE" \in Ops
    BY DEF Ops
  <2>5. PICK v \in Tables(R) : v = InsertObservation(t, key, "DELETE", id) /\ v.rows = t.rows
    BY <1>5, <2>4
  <2>6. PICK u : u = MarkRemoved(v, src, ids)
    OBVIOUS
  <2>7. DOMAIN u.rows = DOMAIN v.rows
        /\ \A i \in DOMAIN v.rows : /\ u.rows[i].active <=> v.rows[i].active /\ i \notin ids
                                    /\ u.rows[i].fields = v.rows[i].fields
    BY <2>3, <2>6, MarkSound
  <2>8. PICK rows : rows = u.rows
    OBVIOUS
  <2>9. Shows(rows, Without(b, ids))
    <3>1. DOMAIN rows = DOMAIN t.rows
          /\ \A i \in DOMAIN t.rows : /\ rows[i].active <=> t.rows[i].active /\ i \notin ids
                                      /\ rows[i].fields = t.rows[i].fields
      BY <2>5, <2>7, <2>8
    <3>2. Shows(t.rows, b)
      BY <1>9
    <3> QED
      BY <3>1, <3>2, RemoveShown
  <2>10. c = Without(b, ids)
    BY <1>9, <2>1, <2>2 DEF Effect
  <2>11. ProjectScreenMessage(t, heat, src, m) = u
    BY <1>3, <1>4, <1>9, <2>1, <2>2, <2>5, <2>6 DEF ProjectScreenMessage
  <2> QED
    BY <2>8, <2>9, <2>10, <2>11
<1>10. CASE m.h = "m_a"
  <2>1. \A i \in Ids \cap Ids : Explains(m, i)
    BY <1>10 DEF Explains
  <2>2. "CLEAR" \in Ops /\ 0 \in Ids \cup {0}
    BY DEF Ops
  <2>3. PICK v \in Tables(R) : v = InsertObservation(t, key, "CLEAR", 0) /\ v.rows = t.rows
    BY <1>5, <2>2
  <2>4. PICK u : u = MarkRemoved(v, src, Ids)
    OBVIOUS
  <2>5. DOMAIN u.rows = DOMAIN v.rows /\ \A i \in DOMAIN v.rows : u.rows[i].active <=> v.rows[i].active /\ i \notin Ids
    BY <2>1, <2>4, MarkSound
  <2>6. DOMAIN v.rows \subseteq Ids
    BY DEF Tables, SoundRows, Rows
  <2>7. DOMAIN c = {}
    BY <1>10 DEF Effect, NoRows
  <2>8. ProjectScreenMessage(t, heat, src, m) = u
    BY <1>3, <1>4, <1>10, <2>3, <2>4 DEF ProjectScreenMessage
  <2> QED
    BY <2>5, <2>6, <2>7, <2>8 DEF Shows
<1> QED
  BY <1>7, <1>8, <1>9, <1>10 DEF IsBoard, Readable, Messages

\* While a is synced, the board of its last heat is b.
Mirrors(a, b) == a.synced => Shows(a.tables.current[Len(a.heats)], b)

LEMMA NormalizeShown ==
    ASSUME NEW R, NEW a \in Accs(R), NEW m \in Messages, NEW src, Refers(R, src, m), NEW at \in Nat,
           Fresh(a.tables.ledger, src), NEW x, x = Normalize(a, m, src, at),
           NEW b \in Boards, NEW c \in Boards, Effect(m, b, c), Mirrors(a, b)
    PROVE  Mirrors(x, c)
<1>1. /\ a.tables \in AllTables(R) /\ a.heats \in Seq(Nat)
      /\ Len(a.heats) = Len(a.tables.current) /\ Len(a.heats) # 0
  BY DEF Accs
<1>2. PICK ts \in AllTables(R) : ts = a.tables
  BY <1>1
<1>3. ts.ledger \in Ledgers /\ ts.current \in Seq(SoundRows(R)) /\ Len(a.heats) \in 1..Len(ts.current)
  BY <1>1, <1>2 DEF AllTables
<1>4. CASE ~ IsBoard(m)
  BY <1>4 DEF Normalize, StartNewHeat, Mirrors
<1>5. CASE IsBoard(m)
  <2>1. PICK heat \in 1..Len(ts.current) : heat = Len(a.heats)
    BY <1>3
  <2>2. PICK d : d = Projected(ts, heat, src, m)
    OBVIOUS
  <2>3. d.current[heat] = ProjectScreenMessage([ledger |-> ts.ledger, rows |-> ts.current[heat]], heat, src, m).rows
    BY <2>2, ProjectedSound
  <2>4. x = [tables |-> d, heats |-> a.heats, synced |-> Readable(m) /\ (a.synced \/ m.h = "m_i")]
    BY <1>2, <1>5, <2>1, <2>2 DEF Normalize
  <2>5. PICK rows \in SoundRows(R) : rows = ts.current[heat]
    BY <1>3, ElementOfSeq
  <2>6. PICK t \in Tables(R) : t = [ledger |-> ts.ledger, rows |-> rows] /\ t.ledger = ts.ledger /\ t.rows = rows
    <3>1. [ledger |-> ts.ledger, rows |-> rows] \in Tables(R)
      BY <1>3 DEF Tables
    <3> QED
      BY <3>1
  <2>7. ASSUME x.synced PROVE Shows(d.current[heat], c)
    <3>1. Readable(m) /\ (a.synced \/ m.h = "m_i")
      <4>1. x.synced = (Readable(m) /\ (a.synced \/ m.h = "m_i"))
        BY <2>4
      <4> QED
        BY <2>7, <4>1
    <3>2. m.h # "m_i" => Shows(t.rows, b)
      BY <1>2, <2>1, <2>5, <2>6, <3>1 DEF Mirrors
    <3>3. Fresh(t.ledger, src) /\ heat \in Nat
      BY <1>2, <1>3, <2>6
    <3>4. Shows(ProjectScreenMessage(t, heat, src, m).rows, c)
      BY <1>5, <3>1, <3>2, <3>3, MessageShown
    <3> QED
      BY <2>3, <2>5, <2>6, <3>4
  <2>8. x.tables = d /\ x.heats = a.heats
    BY <2>4
  <2> QED
    BY <2>1, <2>7, <2>8 DEF Mirrors
<1> QED
  BY <1>4, <1>5

-----------------------------------------------------------------------------
(* Messages on their way.                                                  *)

\* The messages of out take the collections of B, one after the other, to b.
Carries(out, B, b) ==
    /\ B \in [0..Len(out) -> Boards] /\ B[Len(out)] = b
    /\ \A k \in 1..Len(out) : Effect(out[k], B[k - 1], B[k])

LEMMA CarriesMore ==
    ASSUME NEW out \in Seq(Messages), NEW B, NEW b \in Boards, Carries(out, B, b),
           NEW m \in Messages, NEW c \in Boards, Effect(m, b, c)
    PROVE  \E C : Carries(Append(out, m), C, c) /\ C[0] = B[0]
<1>1. PICK n \in Nat : n = Len(out)
  OBVIOUS
<1>2. PICK more : more = Append(out, m)
  OBVIOUS
<1>3. Len(more) = n + 1 /\ (\A k \in 1..n : more[k] = out[k]) /\ more[n + 1] = m
  BY <1>1, <1>2, AppendProperties
<1>4. B \in [0..n -> Boards] /\ B[n] = b /\ \A k \in 1..n : Effect(out[k], B[k - 1], B[k])
  BY <1>1 DEF Carries
<1>5. PICK C : C = [k \in 0..(n + 1) |-> IF k = n + 1 THEN c ELSE B[k]]
  OBVIOUS
<1>6. C[n + 1] = c /\ (\A k \in 0..n : C[k] = B[k])
  BY <1>5
<1>7. C \in [0..(n + 1) -> Boards]
  <2>1. \A k \in 0..(n + 1) : k # n + 1 => k \in 0..n
    OBVIOUS
  <2> QED
    BY <1>4, <1>5, <2>1
<1>8. ASSUME NEW k \in 1..(n + 1) PROVE Effect(more[k], C[k - 1], C[k])
  <2>1. CASE k = n + 1
    <3>1. k - 1 = n /\ n \in 0..n
      BY <2>1
    <3> QED
      BY <1>3, <1>4, <1>6, <2>1, <3>1
  <2>2. CASE k # n + 1
    <3>1. k \in 1..n /\ k \in 0..n /\ k - 1 \in 0..n
      BY <2>2
    <3> QED
      BY <1>3, <1>4, <1>6, <3>1
  <2> QED
    BY <2>1, <2>2
<1>9. Carries(more, C, c)
  BY <1>3, <1>6, <1>7, <1>8 DEF Carries
<1>10. C[0] = B[0]
  <2>1. 0 \in 0..n
    OBVIOUS
  <2> QED
    BY <1>6, <2>1
<1> QED
  BY <1>2, <1>9, <1>10

LEMMA CarriesLess ==
    ASSUME NEW out \in Seq(Messages), NEW B, NEW b \in Boards, Carries(out, B, b), NEW n \in 1..Len(out)
    PROVE  /\ SubSeq(out, n + 1, Len(out)) \in Seq(Messages)
           /\ \E C : Carries(SubSeq(out, n + 1, Len(out)), C, b) /\ C[0] = B[n]
<1>1. PICK l \in Nat : l = Len(out) /\ n \in 1..l
  OBVIOUS
<1>2. PICK rest : rest = SubSeq(out, n + 1, l)
  OBVIOUS
<1>3. rest \in Seq(Messages) /\ Len(rest) = l - n /\ l - n \in Nat /\ \A k \in 1..(l - n) : rest[k] = out[n + k]
  <2>1. \A i \in (n + 1)..l : out[i] \in Messages
    BY <1>1, ElementOfSeq
  <2>2. n + 1 \in Int /\ l \in Int
    OBVIOUS
  <2>3. /\ rest \in Seq(Messages) /\ Len(rest) = IF n + 1 <= l THEN l - (n + 1) + 1 ELSE 0
        /\ \A i \in 1..(l - (n + 1) + 1) : rest[i] = out[(n + 1) + i - 1]
    BY <1>2, <2>1, <2>2, SubSeqProperties
  <2>4. l - (n + 1) + 1 = l - n /\ \A i \in 1..(l - n) : (n + 1) + i - 1 = n + i
    BY <1>1
  <2>5. Len(rest) = l - n /\ l - n \in Nat
    BY <1>1, <2>3
  <2> QED
    BY <2>3, <2>4, <2>5
<1>4. B \in [0..l -> Boards] /\ B[l] = b /\ \A k \in 1..l : Effect(out[k], B[k - 1], B[k])
  BY <1>1 DEF Carries
<1>5. PICK C : C = [k \in 0..(l - n) |-> B[n + k]]
  OBVIOUS
<1>6. C \in [0..(l - n) -> Boards]
  <2>1. \A k \in 0..(l - n) : n + k \in 0..l
    BY <1>1
  <2> QED
    BY <1>4, <1>5, <2>1
<1>7. C[l - n] = b /\ C[0] = B[n]
  <2>1. l - n \in 0..(l - n) /\ 0 \in 0..(l - n) /\ n + (l - n) = l /\ n + 0 = n
    BY <1>1
  <2> QED
    BY <1>4, <1>5, <2>1
<1>8. ASSUME NEW k \in 1..(l - n) PROVE Effect(rest[k], C[k - 1], C[k])
  <2>1. n + k \in 1..l /\ n + (k - 1) = (n + k) - 1 /\ k \in 0..(l - n) /\ k - 1 \in 0..(l - n)
    BY <1>1
  <2>2. C[k] = B[n + k] /\ C[k - 1] = B[(n + k) - 1]
    BY <1>5, <2>1
  <2>3. PICK j \in 1..l : j = n + k
    BY <2>1
  <2>4. Effect(out[j], B[j - 1], B[j])
    BY <1>4
  <2> QED
    BY <1>3, <2>2, <2>3, <2>4
<1>9. Carries(rest, C, b)
  BY <1>3, <1>6, <1>7, <1>8 DEF Carries
<1> QED
  BY <1>1, <1>2, <1>3, <1>7, <1>9

\* Without messages on their way the collection is b.
LEMMA CarriesNone ==
    ASSUME NEW b \in Boards
    PROVE  \E B : Carries(<<>>, B, b) /\ B[0] = b
<1>1. PICK B : B = [k \in 0..0 |-> b]
  OBVIOUS
<1>2. B \in [0..0 -> Boards] /\ B[0] = b
  BY <1>1
<1>3. Carries(<<>>, B, b)
  BY <1>2 DEF Carries
<1> QED
  BY <1>2, <1>3

\* A complete snapshot alone makes the collection, whatever it was.
LEMMA CarriesSnapshot ==
    ASSUME NEW m \in Messages, m.h = "m_i", NEW b \in Boards, Collected(m.items, b)
    PROVE  \E B : Carries(<<m>>, B, b)
<1>1. PICK B : B = [k \in 0..1 |-> b]
  OBVIOUS
<1>2. B \in [0..1 -> Boards] /\ B[0] = b /\ B[1] = b
  BY <1>1
<1>3. PICK out : out = <<m>> /\ Len(out) = 1 /\ out[1] = m
  <2>1. Len(<<m>>) = 1 /\ <<m>>[1] = m
    OBVIOUS
  <2> QED
    BY <2>1
<1>4. Effect(m, b, b)
  BY DEF Effect
<1>5. \A k \in 1..1 : k = 1 /\ k - 1 = 0
  OBVIOUS
<1>6. Carries(out, B, b)
  BY <1>2, <1>3, <1>4, <1>5 DEF Carries
<1> QED
  BY <1>3, <1>6

\* The m_i of a connection: the collection in the order ids, and an older version of its first message.
ConnectWith(b, ids, bad, again, items, older, c) ==
    /\ IsFiniteSet(DOMAIN b) /\ ids \in SetToSeqs(DOMAIN b) /\ bad \in {"", "field", "id"}
    /\ DOMAIN b = {} => again = NoFields
    /\ items = [n \in DOMAIN ids |-> Item(ids[n], b[ids[n]], IF n = 1 THEN bad ELSE "")]
    /\ older = IF again = NoFields THEN <<>> ELSE <<Item(items[1].id, again, "")>>
    /\ c = IF older = <<>> THEN b ELSE [b EXCEPT ![items[1].id] = Merged(@, again)]

Errors == {"", "field", "id"}

IsItem(x, i, p, e) == x \in ItemSet /\ x.id = i /\ x.patch = p /\ x.bad = e

LEMMA ItemTyped == \A i \in Ids, p \in Fields, e \in Errors : IsItem(Item(i, p, e), i, p, e)
BY DEF Item, ItemSet, Errors, IsItem

LEMMA ConnectSends ==
    ASSUME NEW b \in Boards, NEW ids, NEW bad, NEW again \in Fields, NEW items, NEW older, NEW c,
           ConnectWith(b, ids, bad, again, items, older, c)
    PROVE  items \o older \in Seq(ItemSet) /\ c \in Boards /\ DOMAIN c = DOMAIN b /\ Collected(items \o older, c)
<1>1. DOMAIN b \subseteq Ids /\ b \in [DOMAIN b -> Fields]
  BY DEF Boards
<1>2. PICK n \in Nat : n = Cardinality(DOMAIN b)
  <2>1. IsFiniteSet(DOMAIN b)
    BY DEF ConnectWith
  <2> QED
    BY <2>1, FS_CardinalityType
<1>3. ids \in [1..n -> DOMAIN b] /\ \A i, j \in 1..n : i # j => ids[i] # ids[j]
  <2>1. ids \in SetToSeqs(DOMAIN b)
    BY DEF ConnectWith
  <2> QED
    BY <1>2, <2>1 DEF SetToSeqs
<1>4. \A i \in DOMAIN b : \E j \in 1..n : ids[j] = i
  <2>1. ids \in Injection(1..n, DOMAIN b)
    BY <1>3 DEF Injection, IsInjective
  <2>2. Cardinality(1..n) = n
    BY FS_Interval
  <2>3. IsFiniteSet(DOMAIN b)
    BY DEF ConnectWith
  <2>4. ids \in Surjection(1..n, DOMAIN b)
    BY <1>2, <2>1, <2>2, <2>3, FS_Injection
  <2> QED
    BY <2>4 DEF Surjection
<1>5. \A j \in 1..n : items[j] = Item(ids[j], b[ids[j]], IF j = 1 THEN bad ELSE "")
  <2>1. items = [j \in DOMAIN ids |-> Item(ids[j], b[ids[j]], IF j = 1 THEN bad ELSE "")] /\ DOMAIN ids = 1..n
    BY <1>3 DEF ConnectWith
  <2> QED
    BY <2>1
<1>6. \A j \in 1..n : items[j] \in ItemSet /\ items[j].id = ids[j] /\ items[j].patch = b[ids[j]]
  <2> SUFFICES ASSUME NEW j \in 1..n PROVE items[j] \in ItemSet /\ items[j].id = ids[j] /\ items[j].patch = b[ids[j]]
    OBVIOUS
  <2>1. PICK i \in Ids : i = ids[j] /\ i \in DOMAIN b
    BY <1>1, <1>3
  <2>2. PICK p \in Fields : p = b[ids[j]]
    BY <1>1, <2>1
  <2>3. PICK e \in Errors : e = IF j = 1 THEN bad ELSE ""
    BY DEF ConnectWith, Errors
  <2>4. items[j] = Item(i, p, e)
    BY <1>5, <2>1, <2>2, <2>3
  <2>5. IsItem(items[j], i, p, e)
    BY <2>4, ItemTyped
  <2> QED
    BY <2>1, <2>2, <2>5 DEF IsItem
<1>7. items \in Seq(ItemSet) /\ Len(items) = n
  <2>1. DOMAIN items = 1..n /\ items = [j \in 1..n |-> items[j]]
    BY <1>3 DEF ConnectWith
  <2>2. items \in [1..n -> ItemSet]
    BY <1>6, <2>1
  <2> QED
    BY <2>2, IsASeq, LenProperties
<1>8. CASE again = NoFields
  <2>1. older = <<>> /\ c = b
    BY <1>8 DEF ConnectWith
  <2>2. items \o older = items
    BY <1>7, <2>1, ConcatEmptySeq
  <2>3. \A i \in Ids : i \in DOMAIN b <=> \E j \in 1..n : items[j].id = i
    BY <1>3, <1>4, <1>6
  <2>4. ASSUME NEW i \in DOMAIN b, NEW f \in DOMAIN b[i]
        PROVE  \E j \in 1..n : /\ items[j].id = i /\ f \in DOMAIN items[j].patch /\ items[j].patch[f] = b[i][f]
                               /\ \A h \in 1..(j - 1) : items[h].id = i => f \notin DOMAIN items[h].patch
    <3>1. PICK j \in 1..n : ids[j] = i
      BY <1>4
    <3>2. \A h \in 1..(j - 1) : h \in 1..n /\ h # j
      OBVIOUS
    <3>3. \A h \in 1..(j - 1) : items[h].id # i
      BY <1>3, <1>6, <3>1, <3>2
    <3> QED
      BY <1>6, <3>1, <3>3
  <2>5. Collected(items, b)
    BY <1>7, <2>3, <2>4 DEF Collected
  <2> QED
    BY <1>7, <2>1, <2>2, <2>5
<1>9. CASE again # NoFields
  <2>1. PICK i1 \in DOMAIN b : i1 = ids[1] /\ i1 = items[1].id /\ 1 \in 1..n /\ items[1].patch = b[i1]
    <3>1. DOMAIN b # {}
      BY <1>9 DEF ConnectWith
    <3>2. n # 0
      BY <1>4, <3>1
    <3>3. 1 \in 1..n
      BY <3>2
    <3> QED
      BY <1>3, <1>6, <3>3
  <2>2. PICK last \in ItemSet : last = Item(i1, again, "") /\ last.id = i1 /\ last.patch = again
    <3>1. PICK e \in Errors : e = ""
      BY DEF Errors
    <3>2. i1 \in Ids
      BY <1>1
    <3>3. IsItem(Item(i1, again, e), i1, again, e)
      BY <3>2, ItemTyped
    <3> QED
      BY <3>1, <3>3 DEF IsItem
  <2>3. older = <<last>> /\ older # <<>>
    BY <1>9, <2>1, <2>2 DEF ConnectWith
  <2>4. PICK new \in Fields : /\ new = Merged(b[i1], again) /\ DOMAIN new = DOMAIN b[i1] \cup DOMAIN again
                              /\ \A f \in DOMAIN b[i1] \cup DOMAIN again : new[f] = IF f \in DOMAIN b[i1] THEN b[i1][f] ELSE again[f]
    <3>1. PICK old \in Fields : old = b[i1]
      BY <1>1
    <3>2. PICK new : new = Merged(old, again)
      OBVIOUS
    <3>3. Merged(old, again) \in Fields
      BY FieldsMerge
    <3>4. DOMAIN new = DOMAIN old \cup DOMAIN again
          /\ \A f \in DOMAIN old \cup DOMAIN again : new[f] = IF f \in DOMAIN old THEN old[f] ELSE again[f]
      BY <3>2 DEF Merged
    <3> QED
      BY <3>1, <3>2, <3>3, <3>4
  <2>5. c = [b EXCEPT ![i1] = new]
    BY <2>1, <2>3, <2>4 DEF ConnectWith
  <2>6. c \in [DOMAIN b -> Fields] /\ DOMAIN c = DOMAIN b /\ c[i1] = new /\ \A i \in DOMAIN b : i # i1 => c[i] = b[i]
    BY <1>1, <2>5
  <2>7. c \in Boards
    BY <1>1, <2>6 DEF Boards
  <2>8. PICK all : all = items \o older
    OBVIOUS
  <2>9. all \in Seq(ItemSet) /\ Len(all) = n + 1 /\ (\A j \in 1..n : all[j] = items[j]) /\ all[n + 1] = last
    <3>1. all = Append(items, last)
      BY <1>7, <2>3, <2>8, AppendIsConcat
    <3> QED
      BY <1>7, <3>1, AppendProperties
  <2>10. \A i \in Ids : i \in DOMAIN c <=> \E j \in 1..(n + 1) : all[j].id = i
    <3>1. \A j \in 1..(n + 1) : j = n + 1 \/ j \in 1..n
      OBVIOUS
    <3>2. ASSUME NEW j \in 1..(n + 1) PROVE all[j].id \in DOMAIN b
      <4>1. CASE j = n + 1
        BY <2>2, <2>9, <4>1
      <4>2. CASE j \in 1..n
        <5>1. all[j].id = ids[j]
          BY <1>6, <2>9, <4>2
        <5> QED
          BY <1>3, <4>2, <5>1
      <4> QED
        BY <3>1, <4>1, <4>2
    <3>3. \A j \in 1..n : j \in 1..(n + 1)
      OBVIOUS
    <3>4. \A i \in DOMAIN b : \E j \in 1..(n + 1) : all[j].id = i
      BY <1>4, <1>6, <2>9, <3>3
    <3> QED
      BY <2>6, <3>2, <3>4
  <2>11. ASSUME NEW i \in DOMAIN c, NEW f \in DOMAIN c[i]
         PROVE  \E j \in 1..(n + 1) : /\ all[j].id = i /\ f \in DOMAIN all[j].patch /\ all[j].patch[f] = c[i][f]
                                      /\ \A h \in 1..(j - 1) : all[h].id = i => f \notin DOMAIN all[h].patch
    <3>1. PICK j \in 1..n : ids[j] = i
      BY <1>4, <2>6
    <3>2. \A h \in 1..(j - 1) : h \in 1..n /\ h # j
      OBVIOUS
    <3>3. \A h \in 1..(j - 1) : all[h].id # i
      BY <1>3, <1>6, <2>9, <3>1, <3>2
    <3>4. j \in 1..(n + 1) /\ all[j].id = i /\ all[j].patch = b[i]
      BY <1>6, <2>9, <3>1
    <3>5. CASE f \in DOMAIN b[i]
      <4>1. c[i][f] = b[i][f]
        BY <2>4, <2>6, <3>5
      <4> QED
        BY <3>3, <3>4, <3>5, <4>1
    <3>6. CASE f \notin DOMAIN b[i]
      <4>1. i = i1
        BY <2>6, <3>6
      <4>2. f \in DOMAIN again /\ c[i][f] = again[f]
        BY <2>4, <2>6, <3>6, <4>1
      <4>3. \A h \in 1..((n + 1) - 1) : all[h].id = i => f \notin DOMAIN all[h].patch
        <5>1. (n + 1) - 1 = n
          OBVIOUS
        <5> SUFFICES ASSUME NEW h \in 1..n, all[h].id = i PROVE f \notin DOMAIN all[h].patch
          BY <5>1
        <5>2. h = j
          BY <1>3, <1>6, <2>9, <3>1
        <5> QED
          BY <3>4, <3>6, <5>2
      <4>4. n + 1 \in 1..(n + 1)
        OBVIOUS
      <4> QED
        BY <2>2, <2>9, <4>1, <4>2, <4>3, <4>4
    <3> QED
      BY <3>5, <3>6
  <2>12. Collected(all, c)
    BY <2>9, <2>10, <2>11 DEF Collected
  <2> QED
    BY <2>6, <2>7, <2>8, <2>9, <2>12
<1> QED
  BY <1>8, <1>9

-----------------------------------------------------------------------------
(* The inductive invariant of the board.                                   *)

ProviderTyped ==
    outbox \in Seq(Messages) /\ board \in Boards /\ IsFiniteSet(DOMAIN board) /\ sent \in 0..MaxSent

TablesSound ==
    /\ RawTyped /\ ledger \in Ledgers /\ current \in Seq(SoundRows(raw)) /\ Len(current) = Len(heats)
    /\ synced \in BOOLEAN

\* What the messages on their way do leads from the rows of the last heat to the provider's board.
Tracks(B) == Carries(outbox, B, board) /\ (synced => heats # <<>> /\ Shows(current[Len(heats)], B[0]))

\* The sources of records are frames there are.
Recent == \A key \in DOMAIN ledger : key.src.f <= Len(raw)

BoardInv ==
    /\ ProviderTyped /\ TablesSound
    /\ ~up => outbox = <<>> /\ ~synced
    /\ ~stopped => Recent /\ \E B : Tracks(B)

\* A state in which only provider variables differ.
LEMMA TablesKept ==
    ASSUME TablesSound, UNCHANGED <<raw, heats, ledger, current, synced>>
    PROVE  TablesSound'
BY DEF TablesSound, RawTyped

\* What is received makes a frame.
LEMMA ReceiveFrame ==
    ASSUME ProviderTyped, RawTyped, NEW n \in 1..MaxFrame, Receive(n)
    PROVE  \E id, msgs, row : Framed(n, id, msgs, row)
<1>1. outbox \in Seq(Messages) /\ raw \in Seq(Frames(Seq(Messages)))
  BY DEF ProviderTyped, RawTyped
<1>2. n \in Nat /\ 1 <= n /\ n <= Len(outbox)
  BY RaceControlAssumption DEF Receive
<1>3. n \in 1..Len(outbox)
  BY <1>1, <1>2
<1>4. PICK id \in Nat : id = Len(raw) + 1 /\ id # 0
  <2>1. Len(raw) + 1 \in Nat /\ Len(raw) + 1 # 0
    BY <1>1
  <2> QED
    BY <2>1
<1>5. PICK msgs : msgs = SubSeq(outbox, 1, n)
  OBVIOUS
<1>6. msgs \in Seq(Messages) /\ Len(msgs) = n /\ \A k \in 1..n : msgs[k] = outbox[k]
  <2>1. \A i \in 1..n : outbox[i] \in Messages
    BY <1>1, <1>3, ElementOfSeq
  <2>2. 1 \in Int /\ n \in Int
    BY <1>2
  <2>3. /\ msgs \in Seq(Messages) /\ Len(msgs) = IF 1 <= n THEN n - 1 + 1 ELSE 0
        /\ \A i \in 1..(n - 1 + 1) : msgs[i] = outbox[1 + i - 1]
    BY <1>5, <2>1, <2>2, SubSeqProperties
  <2>4. n - 1 + 1 = n /\ \A i \in 1..n : 1 + i - 1 = i
    BY <1>2
  <2> QED
    BY <1>2, <2>3, <2>4
<1>7. PICK row : row = [at |-> id, msgs |-> msgs, kept |-> TRUE]
  OBVIOUS
<1>8. row \in Frames(Seq(Messages)) /\ row.msgs = msgs
  BY <1>6, <1>7 DEF Frames
<1>9. raw' = Append(raw, row)
  BY <1>4, <1>5, <1>7 DEF Receive
<1>10. Framed(n, id, msgs, row)
  BY <1>3, <1>4, <1>5, <1>6, <1>8, <1>9 DEF Framed
<1> QED
  BY <1>10

LEMMA ReceiveStarts ==
    ASSUME TablesSound, raw' \in Seq(Frames(Seq(Messages))),
           \A f \in DOMAIN raw : f \in DOMAIN raw' /\ raw'[f] = raw[f]
    PROVE  ReceiveStart \in Accs(raw')
<1>1. raw \in Seq(Frames(Seq(Messages))) /\ heats \in Seq(Nat) /\ Len(raw) + 1 \in Nat
  BY DEF TablesSound, RawTyped
<1>2. current \in Seq(SoundRows(raw')) /\ ledger \in Ledgers /\ synced \in BOOLEAN /\ Len(current) = Len(heats)
  <2>1. PICK Q : Q = raw'
    OBVIOUS
  <2>2. \A f \in DOMAIN raw : f \in DOMAIN Q /\ Q[f].msgs = raw[f].msgs
    BY <2>1
  <2>3. current \in Seq(SoundRows(Q))
    BY <2>2, SoundMore DEF TablesSound
  <2> QED
    BY <2>1, <2>3 DEF TablesSound
<1>3. PICK cs : cs = IF current = <<>> THEN <<NoRows>> ELSE current
  OBVIOUS
<1>4. PICK hs : hs = EnsureHeat(Len(raw) + 1)
  OBVIOUS
<1>5. cs \in Seq(SoundRows(raw')) /\ hs \in Seq(Nat) /\ Len(hs) = Len(cs) /\ Len(hs) # 0
  <2>1. CASE heats = <<>>
    <3>1. current = <<>>
      BY <1>1, <1>2, <2>1
    <3>2. NoRows \in SoundRows(raw')
      <4>1. NoRows \in [{} -> Row]
        BY DEF NoRows
      <4> QED
        BY <4>1 DEF SoundRows, Rows
    <3>3. cs = <<NoRows>> /\ hs = <<Len(raw) + 1>>
      BY <1>3, <1>4, <2>1, <3>1 DEF EnsureHeat
    <3>4. PICK x \in SoundRows(raw') : x = NoRows
      BY <3>2
    <3>5. PICK y \in Nat : y = Len(raw) + 1
      BY <1>1
    <3>6. <<x>> \in Seq(SoundRows(raw')) /\ <<y>> \in Seq(Nat) /\ Len(<<x>>) = 1 /\ Len(<<y>>) = 1
      OBVIOUS
    <3> QED
      BY <3>3, <3>4, <3>5, <3>6
  <2>2. CASE heats # <<>>
    <3>1. Len(heats) # 0 /\ current # <<>>
      BY <1>1, <1>2, <2>2
    <3>2. cs = current /\ hs = heats
      BY <1>3, <1>4, <2>2, <3>1 DEF EnsureHeat
    <3> QED
      BY <1>1, <1>2, <3>1, <3>2
  <2> QED
    BY <2>1, <2>2
<1>6. PICK ts : ts = [ledger |-> ledger, current |-> cs]
  OBVIOUS
<1>7. ts \in AllTables(raw') /\ ts.current = cs
  BY <1>2, <1>5, <1>6 DEF AllTables
<1>8. ReceiveStart = [tables |-> ts, heats |-> hs, synced |-> synced]
  BY <1>3, <1>4, <1>6 DEF ReceiveStart
<1>9. PICK a : a = ReceiveStart
  OBVIOUS
<1>10. a.tables = ts /\ a.heats = hs /\ a.synced = synced /\ a \in [tables : AllTables(raw'), heats : Seq(Nat), synced : BOOLEAN]
  BY <1>2, <1>5, <1>7, <1>8, <1>9
<1>11. a \in Accs(raw')
  BY <1>5, <1>7, <1>10 DEF Accs
<1> QED
  BY <1>9, <1>11

\* At the start of a frame the last heat is the one there is, or the first one.
LEMMA ReceiveMirrors ==
    ASSUME TablesSound, NEW B, Tracks(B)
    PROVE  Mirrors(ReceiveStart, B[0]) /\ ReceiveStart.tables.ledger = ledger
<1>1. ReceiveStart.tables.ledger = ledger /\ ReceiveStart.synced = synced /\ ReceiveStart.heats = EnsureHeat(Len(raw) + 1)
      /\ ReceiveStart.tables.current = IF current = <<>> THEN <<NoRows>> ELSE current
  BY DEF ReceiveStart
<1>2. ASSUME synced PROVE Shows(ReceiveStart.tables.current[Len(ReceiveStart.heats)], B[0])
  <2>1. heats # <<>> /\ Shows(current[Len(heats)], B[0])
    BY <1>2 DEF Tracks
  <2>2. current # <<>>
    BY <2>1 DEF TablesSound, RawTyped
  <2>3. ReceiveStart.heats = heats /\ ReceiveStart.tables.current = current
    BY <1>1, <2>1, <2>2 DEF EnsureHeat
  <2> QED
    BY <2>1, <2>3
<1> QED
  BY <1>1, <1>2 DEF Mirrors

\* Every source of a record is an earlier frame, or a message of this frame up to the k-th.
Earlier(l, id, k) == \A key \in DOMAIN l : key.src.f < id \/ (key.src.f = id /\ key.src.o <= k)

LEMMA ReceiveTurn ==
    ASSUME NEW R, NEW a \in Accs(R), NEW id \in Nat, NEW k \in Nat, NEW m \in Messages, NEW src, src = Source(id, k),
           Refers(R, src, m), Earlier(a.tables.ledger, id, k - 1), NEW x, x = Normalize(a, m, src, id),
           NEW b \in Boards, NEW c \in Boards, Effect(m, b, c), Mirrors(a, b)
    PROVE  Mirrors(x, c) /\ Earlier(x.tables.ledger, id, k)
<1>1. src.f = id /\ src.o = k
  BY DEF Source
<1>2. PICK l \in Ledgers : l = a.tables.ledger /\ Earlier(l, id, k - 1)
  BY DEF Accs, AllTables
<1>3. \A key \in DOMAIN l : key.src.f \in Nat /\ key.src.o \in Nat
  BY DEF Ledgers, Keys, Sources
<1>4. Fresh(l, src)
  <2> SUFFICES ASSUME NEW key \in DOMAIN l, key.src = src PROVE FALSE
    BY DEF Fresh
  <2>1. key.src.f = id /\ key.src.o = k
    BY <1>1
  <2>2. key.src.f < id \/ key.src.o <= k - 1
    BY <1>2 DEF Earlier
  <2> QED
    BY <2>1, <2>2
<1>5. Mirrors(x, c)
  BY <1>2, <1>4, NormalizeShown
<1>6. Grown(a.tables.ledger, x.tables.ledger, src)
  BY NormalizeSound
<1>7. ASSUME NEW key \in DOMAIN x.tables.ledger
      PROVE  key.src.f < id \/ (key.src.f = id /\ key.src.o <= k)
  <2>1. CASE key \in DOMAIN l
    <3>1. key.src.f < id \/ (key.src.f = id /\ key.src.o <= k - 1)
      BY <1>2, <2>1 DEF Earlier
    <3> QED
      BY <1>3, <2>1, <3>1
  <2>2. CASE key.src = src
    BY <1>1, <2>2
  <2> QED
    BY <1>2, <1>6, <2>1, <2>2 DEF Grown
<1> QED
  BY <1>5, <1>7 DEF Earlier

\* The loop of a frame, with what its messages do to the board.
LEMMA ReceiveTracks ==
    ASSUME BoardInv, NEW n \in 1..MaxFrame, Receive(n), NEW id, NEW msgs, NEW row, Framed(n, id, msgs, row),
           raw' \in Seq(Frames(Seq(Messages))), id \in DOMAIN raw', raw'[id] = row,
           ReceiveStart \in Accs(raw'), NEW B, Tracks(B)
    PROVE  \E a \in Accs(raw') :
             /\ ledger' = a.tables.ledger /\ current' = a.tables.current /\ heats' = a.heats /\ synced' = a.synced
             /\ Mirrors(a, B[n]) /\ Earlier(a.tables.ledger, id, n)
<1>1. n \in Nat /\ n \in 1..Len(outbox) /\ id \in Nat /\ id # 0 /\ msgs \in Seq(Messages) /\ Len(msgs) = n /\ row.msgs = msgs
      /\ \A k \in 1..n : msgs[k] = outbox[k]
  BY DEF Framed
<1>2. ~stopped /\ Recent /\ outbox \in Seq(Messages) /\ TablesSound
  BY DEF Receive, BoardInv, ProviderTyped
<1>3. PICK A \in [0..n -> Accs(raw')] :
        /\ A[0] = ReceiveStart
        /\ \A k \in 1..n : A[k] = Normalize(A[k - 1], msgs[k], Source(id, k), id)
        /\ ledger' = A[n].tables.ledger /\ current' = A[n].tables.current /\ heats' = A[n].heats /\ synced' = A[n].synced
  <2>1. PICK R : R = raw'
    OBVIOUS
  <2>2. ReceiveStart \in Accs(R) /\ id \in DOMAIN R /\ R[id] = row
    BY <2>1
  <2>3. PICK L : ReceiveLoop(L, R, n, id, msgs)
    BY <2>2, ReceiveRun
  <2>4. \E x : ReceiveLoop(x, raw', n, id, msgs)
    BY <2>1, <2>3
  <2> QED
    BY <2>4 DEF ReceiveLoop
<1>4. B \in [0..Len(outbox) -> Boards] /\ \A k \in 1..Len(outbox) : Effect(outbox[k], B[k - 1], B[k])
  BY DEF Tracks, Carries
<1> DEFINE P(k) == Mirrors(A[k], B[k]) /\ Earlier(A[k].tables.ledger, id, k)
<1>5. P(0)
  <2>1. Mirrors(A[0], B[0]) /\ A[0].tables.ledger = ledger
    BY <1>2, <1>3, ReceiveMirrors
  <2>2. ASSUME NEW key \in DOMAIN ledger PROVE key.src.f < id
    <3>1. key.src.f <= Len(raw) /\ key.src.f \in Nat /\ Len(raw) \in Nat
      BY <1>2 DEF Recent, TablesSound, RawTyped, Ledgers, Keys, Sources
    <3> QED
      BY <3>1 DEF Framed
  <2> QED
    BY <2>1, <2>2 DEF Earlier
<1>6. ASSUME NEW k \in 1..n, P(k - 1) PROVE P(k)
  <2>1. k \in Nat /\ k \in 1..Len(outbox) /\ k - 1 \in 0..n /\ k \in 0..Len(outbox) /\ k - 1 \in 0..Len(outbox)
    BY <1>1, <1>2
  <2>2. PICK a \in Accs(raw') : a = A[k - 1]
    BY <1>3, <2>1
  <2>3. PICK m \in Messages : m = msgs[k] /\ m = outbox[k]
    BY <1>1, ElementOfSeq
  <2>4. PICK src : src = Source(id, k)
    OBVIOUS
  <2>5. Refers(raw', src, m)
    <3>1. src.f = id /\ src.o = k /\ src \in Sources
      BY <1>1, <2>1, <2>4 DEF Source, Sources
    <3>2. src.o \in DOMAIN raw'[src.f].msgs /\ m = raw'[src.f].msgs[src.o]
      BY <1>1, <2>3, <3>1
    <3> QED
      BY <1>1, <3>1, <3>2 DEF Refers
  <2>6. PICK b \in Boards : b = B[k - 1]
    BY <1>4, <2>1
  <2>7. PICK c \in Boards : c = B[k]
    BY <1>4, <2>1
  <2>8. Effect(m, b, c)
    BY <1>4, <2>1, <2>3, <2>6, <2>7
  <2>9. PICK x : x = Normalize(a, m, src, id)
    OBVIOUS
  <2>10. Mirrors(a, b) /\ Earlier(a.tables.ledger, id, k - 1)
    BY <1>6, <2>2, <2>6
  <2>11. Mirrors(x, c) /\ Earlier(x.tables.ledger, id, k)
    <3>1. PICK R : R = raw'
      OBVIOUS
    <3>2. a \in Accs(R) /\ Refers(R, src, m)
      BY <2>5, <3>1
    <3> QED
      BY <1>1, <2>1, <2>4, <2>8, <2>9, <2>10, <3>2, ReceiveTurn
  <2>12. A[k] = x
    BY <1>3, <2>2, <2>3, <2>4, <2>9
  <2> QED
    BY <2>7, <2>11, <2>12
<1>7. P(n)
  <2> DEFINE Good == {k \in 0..n : P(k)}
  <2> HIDE DEF P
  <2>1. 0 \in Good
    BY <1>1, <1>5
  <2>2. \A k \in 1..n : k - 1 \in Good => k \in Good
    BY <1>6
  <2> HIDE DEF Good
  <2>3. 0..n \subseteq Good
    BY <1>1, <2>1, <2>2, UpTo
  <2> QED
    BY <1>1, <2>3 DEF Good
<1>8. n \in 0..n
  BY <1>1
<1>9. A[n] \in Accs(raw')
  BY <1>3, <1>8
<1> QED
  BY <1>3, <1>7, <1>9

LEMMA ReceiveBoard ==
    ASSUME BoardInv, NEW n \in 1..MaxFrame, Receive(n)
    PROVE  BoardInv'
<1>1. ProviderTyped /\ TablesSound /\ RawTyped /\ ~stopped /\ up
  BY DEF BoardInv, TablesSound, Receive
<1>2. PICK id, msgs, row : Framed(n, id, msgs, row)
  BY <1>1, ReceiveFrame
<1>3. outbox \in Seq(Messages) /\ raw \in Seq(Frames(Seq(Messages))) /\ Len(raw) \in Nat /\ board \in Boards
  BY <1>1 DEF ProviderTyped, RawTyped
<1>4. /\ raw' \in Seq(Frames(Seq(Messages))) /\ Len(raw') = id /\ raw'[id] = row /\ id \in DOMAIN raw'
      /\ \A f \in DOMAIN raw : f \in DOMAIN raw' /\ raw'[f] = raw[f]
  <2>1. row \in Frames(Seq(Messages)) /\ raw' = Append(raw, row) /\ id = Len(raw) + 1
    BY <1>2 DEF Framed
  <2>2. PICK Q : Q = Append(raw, row)
    OBVIOUS
  <2>3. Q \in Seq(Frames(Seq(Messages))) /\ Len(Q) = id /\ Q[id] = row /\ \A f \in 1..Len(raw) : Q[f] = raw[f]
    BY <1>3, <2>1, <2>2, AppendProperties
  <2>4. id \in DOMAIN Q /\ \A f \in DOMAIN raw : f \in DOMAIN Q
    BY <1>3, <2>1, <2>3
  <2> QED
    BY <1>3, <2>1, <2>2, <2>3, <2>4
<1>5. PICK B : Tracks(B)
  BY <1>1 DEF BoardInv
<1>6. ReceiveStart \in Accs(raw')
  BY <1>1, <1>4, ReceiveStarts
<1>7. PICK a \in Accs(raw') :
        /\ ledger' = a.tables.ledger /\ current' = a.tables.current /\ heats' = a.heats /\ synced' = a.synced
        /\ Mirrors(a, B[n]) /\ Earlier(a.tables.ledger, id, n)
  BY <1>2, <1>4, <1>5, <1>6, ReceiveTracks
<1>8. UNCHANGED <<board, sent, up, stopped>> /\ outbox' = SubSeq(outbox, n + 1, Len(outbox))
  BY DEF Receive
<1>9. n \in 1..Len(outbox)
  BY <1>2 DEF Framed
<1>10. Carries(outbox, B, board)
  BY <1>5 DEF Tracks
<1>11. PICK C : Carries(outbox', C, board) /\ C[0] = B[n] /\ outbox' \in Seq(Messages)
  BY <1>3, <1>8, <1>9, <1>10, CarriesLess
<1>12. ProviderTyped'
  BY <1>1, <1>8, <1>11 DEF ProviderTyped
<1>13. a.tables \in AllTables(raw') /\ a.heats \in Seq(Nat) /\ a.synced \in BOOLEAN
       /\ Len(a.heats) = Len(a.tables.current) /\ Len(a.heats) # 0
  BY DEF Accs
<1>14. TablesSound'
  BY <1>4, <1>7, <1>13 DEF TablesSound, RawTyped, AllTables
<1>15. Recent'
  <2>1. ASSUME NEW key \in DOMAIN ledger' PROVE key.src.f <= Len(raw')
    <3>1. key.src.f \in Nat /\ id \in Nat
      BY <1>2, <1>14 DEF TablesSound, Ledgers, Keys, Sources, Framed
    <3>2. key.src.f < id \/ key.src.f = id
      BY <1>7 DEF Earlier
    <3> QED
      BY <1>4, <3>1, <3>2
  <2> QED
    BY <2>1 DEF Recent
<1>16. Tracks(C)'
  <2>1. synced' => heats' # <<>> /\ Shows(current'[Len(heats')], C[0])
    BY <1>7, <1>11, <1>13 DEF Mirrors
  <2> QED
    BY <1>8, <1>11, <2>1 DEF Tracks
<1> QED
  BY <1>1, <1>8, <1>12, <1>14, <1>15, <1>16 DEF BoardInv

LEMMA MessageTyped ==
    ASSUME NEW items \in Seq(ItemSet), NEW h, h \in {"m_i", "m_a", "m_x", "h_i"} \/ (h \in {"m_c", "m_d"} /\ Len(items) = 1)
    PROVE  Message(h, items) \in Messages /\ Message(h, items).h = h /\ Message(h, items).items = items
BY DEF Message, Messages

LEMMA OneItem == ASSUME NEW x \in ItemSet PROVE \E items \in Seq(ItemSet) : items = <<x>> /\ Len(items) = 1 /\ items[1] = x
<1>1. <<x>> \in Seq(ItemSet) /\ Len(<<x>>) = 1 /\ <<x>>[1] = x
  OBVIOUS
<1> QED
  BY <1>1

LEMMA BoardsTyped ==
    ASSUME NEW b \in Boards, IsFiniteSet(DOMAIN b), NEW i \in Ids, NEW p \in Fields
    PROVE  /\ With(b, i, Merged(p, IF i \in DOMAIN b THEN b[i] ELSE NoFields)) \in Boards
           /\ IsFiniteSet(DOMAIN With(b, i, Merged(p, IF i \in DOMAIN b THEN b[i] ELSE NoFields)))
           /\ Without(b, {i}) \in Boards /\ IsFiniteSet(DOMAIN Without(b, {i}))
<1>1. DOMAIN b \subseteq Ids /\ b \in [DOMAIN b -> Fields]
  BY DEF Boards
<1>2. PICK old \in Fields : old = IF i \in DOMAIN b THEN b[i] ELSE NoFields
  BY <1>1, FieldsCut
<1>3. PICK new \in Fields : new = Merged(p, old)
  BY FieldsMerge
<1>4. PICK c : c = With(b, i, new)
  OBVIOUS
<1>5. c \in [DOMAIN b \cup {i} -> Fields] /\ DOMAIN b \cup {i} \subseteq Ids /\ DOMAIN c = DOMAIN b \cup {i}
  BY <1>1, <1>4 DEF With
<1>6. c \in Boards /\ IsFiniteSet(DOMAIN c)
  <2>1. c \in Boards
    BY <1>5 DEF Boards
  <2>2. IsFiniteSet(DOMAIN b \cup {i})
    BY FS_AddElement
  <2> QED
    BY <1>5, <2>1, <2>2
<1>7. PICK d : d = Without(b, {i})
  OBVIOUS
<1>8. d \in [DOMAIN b \ {i} -> Fields] /\ DOMAIN b \ {i} \subseteq Ids /\ DOMAIN d = DOMAIN b \ {i}
  BY <1>1, <1>7 DEF Without
<1>9. d \in Boards /\ IsFiniteSet(DOMAIN d)
  <2>1. d \in Boards
    BY <1>8 DEF Boards
  <2>2. IsFiniteSet(DOMAIN b \ {i})
    BY FS_RemoveElement
  <2> QED
    BY <1>8, <2>1, <2>2
<1> QED
  BY <1>2, <1>3, <1>4, <1>6, <1>7, <1>9

LEMMA NoBoard == NoRows \in Boards /\ IsFiniteSet(DOMAIN NoRows)
<1>1. NoRows \in [{} -> Fields] /\ DOMAIN NoRows = {}
  BY DEF NoRows
<1> QED
  BY <1>1, FS_EmptySet DEF Boards

LEMMA PatchTyped == ASSUME NEW p \in {NoFields} \cup Patches PROVE p \in Fields
<1>1. CASE p = NoFields
  <2>1. NoFields \in [{} -> Value]
    BY DEF NoFields
  <2> QED
    BY <1>1, <2>1 DEF Fields
<1>2. CASE p \in Patches
  <2>1. p = [f \in DOMAIN p |-> p[f]] /\ DOMAIN p \subseteq {"text", "line"}
    BY <1>2, RaceControlAssumption
  <2>2. \A f \in DOMAIN p : p[f] \in Value
    BY <1>2 DEF Value
  <2>3. p \in [DOMAIN p -> Value]
    BY <2>1, <2>2
  <2> QED
    BY <2>1, <2>3 DEF Fields
<1> QED
  BY <1>1, <1>2

LEMMA SendBoard ==
    ASSUME BoardInv, ~stopped, NEW m \in Messages, Send(m), board' \in Boards, IsFiniteSet(DOMAIN board'),
           Effect(m, board, board'), UNCHANGED <<up, raw, heats, ledger, current, synced, stopped>>
    PROVE  BoardInv'
<1>1. ProviderTyped /\ TablesSound /\ Recent /\ (~up => outbox = <<>> /\ ~synced)
  BY DEF BoardInv
<1>2. PICK B : Tracks(B)
  BY DEF BoardInv
<1>3. outbox \in Seq(Messages) /\ board \in Boards
  BY <1>1 DEF ProviderTyped
<1>4. sent' \in 0..MaxSent
  BY <1>1, RaceControlAssumption DEF Send, ProviderTyped
<1>5. TablesSound' /\ Recent'
  BY <1>1, TablesKept DEF Recent
<1>6. CASE up
  <2>1. outbox' = Append(outbox, m)
    BY <1>6 DEF Send
  <2>2. outbox' \in Seq(Messages)
    BY <1>3, <2>1, AppendProperties
  <2>3. Carries(outbox, B, board)
    BY <1>2 DEF Tracks
  <2>4. PICK C : Carries(outbox', C, board') /\ C[0] = B[0]
    <3>1. PICK c \in Boards : c = board'
      OBVIOUS
    <3>2. \E C : Carries(Append(outbox, m), C, c) /\ C[0] = B[0]
      BY <1>3, <2>3, <3>1, CarriesMore
    <3> QED
      BY <2>1, <3>1, <3>2
  <2>5. Tracks(C)'
    BY <1>2, <2>4 DEF Tracks
  <2> QED
    BY <1>1, <1>4, <1>5, <1>6, <2>2, <2>5 DEF BoardInv, ProviderTyped
<1>7. CASE ~up
  <2>1. outbox' = <<>> /\ ~synced
    BY <1>1, <1>7 DEF Send
  <2>2. PICK C : Carries(<<>>, C, board')
    BY CarriesNone
  <2>3. Tracks(C)'
    BY <2>1, <2>2 DEF Tracks
  <2>4. outbox' \in Seq(Messages)
    BY <2>1
  <2> QED
    BY <1>4, <1>5, <2>1, <2>3, <2>4 DEF BoardInv, ProviderTyped
<1> QED
  BY <1>6, <1>7

LEMMA UpsertBoard ==
    ASSUME BoardInv, NEW i \in Ids, NEW p \in Patches, NEW bad \in {"", "field"}, Upsert(i, p, bad)
    PROVE  BoardInv'
<1>1. p \in Fields
  BY PatchTyped
<1>2. PICK x : x = Item(i, p, bad)
  OBVIOUS
<1>3. x \in ItemSet /\ x.id = i /\ x.patch = p
  <2>1. bad \in Errors
    BY DEF Errors
  <2>2. IsItem(x, i, p, bad)
    BY <1>1, <1>2, <2>1, ItemTyped
  <2> QED
    BY <2>2 DEF IsItem
<1>4. PICK items \in Seq(ItemSet) : items = <<x>> /\ Len(items) = 1 /\ items[1] = x
  BY <1>3, OneItem
<1>5. PICK m \in Messages : m = Message("m_c", items) /\ m.h = "m_c" /\ m.items = items
  BY <1>4, MessageTyped
<1>6. board \in Boards /\ IsFiniteSet(DOMAIN board)
  BY DEF BoardInv, ProviderTyped
<1>7. /\ ~stopped /\ Send(m) /\ board' = With(board, i, Merged(p, IF i \in DOMAIN board THEN board[i] ELSE NoFields))
      /\ UNCHANGED <<up, raw, heats, ledger, current, synced, stopped>>
  BY <1>2, <1>4, <1>5 DEF Upsert, other, table
<1>8. board' \in Boards /\ IsFiniteSet(DOMAIN board')
  BY <1>1, <1>6, <1>7, BoardsTyped
<1>9. Effect(m, board, board')
  BY <1>3, <1>4, <1>5, <1>7 DEF Effect
<1> QED
  BY <1>7, <1>8, <1>9, SendBoard

LEMMA DeleteBoard ==
    ASSUME BoardInv, NEW i \in Ids, Delete(i)
    PROVE  BoardInv'
<1>1. NoFields \in Fields
  BY PatchTyped
<1>2. PICK x : x = Item(i, NoFields, "")
  OBVIOUS
<1>3. x \in ItemSet /\ x.id = i
  <2>1. "" \in Errors
    BY DEF Errors
  <2>2. IsItem(x, i, NoFields, "")
    BY <1>1, <1>2, <2>1, ItemTyped
  <2> QED
    BY <2>2 DEF IsItem
<1>4. PICK items \in Seq(ItemSet) : items = <<x>> /\ Len(items) = 1 /\ items[1] = x
  BY <1>3, OneItem
<1>5. PICK m \in Messages : m = Message("m_d", items) /\ m.h = "m_d" /\ m.items = items
  BY <1>4, MessageTyped
<1>6. board \in Boards /\ IsFiniteSet(DOMAIN board)
  BY DEF BoardInv, ProviderTyped
<1>7. /\ ~stopped /\ Send(m) /\ board' = Without(board, {i})
      /\ UNCHANGED <<up, raw, heats, ledger, current, synced, stopped>>
  BY <1>2, <1>4, <1>5 DEF Delete, other, table
<1>8. board' \in Boards /\ IsFiniteSet(DOMAIN board')
  BY <1>1, <1>6, <1>7, BoardsTyped
<1>9. Effect(m, board, board')
  BY <1>3, <1>4, <1>5, <1>7 DEF Effect
<1> QED
  BY <1>7, <1>8, <1>9, SendBoard

\* A message without content.
LEMMA PlainBoard ==
    ASSUME BoardInv, Clear \/ Nonsense \/ NewHeat
    PROVE  BoardInv'
<1>1. PICK h \in {"m_a", "m_x", "h_i"} :
        /\ ~stopped /\ Send(Message(h, <<>>)) /\ board' = IF h = "m_a" THEN NoRows ELSE board
        /\ UNCHANGED <<up, raw, heats, ledger, current, synced, stopped>>
  BY DEF Clear, Nonsense, NewHeat, other, table
<1>2. PICK items \in Seq(ItemSet) : items = <<>>
  <2>1. <<>> \in Seq(ItemSet)
    OBVIOUS
  <2> QED
    BY <2>1
<1>3. PICK m \in Messages : m = Message(h, items) /\ m.h = h
  BY <1>2, MessageTyped
<1>4. board' \in Boards /\ IsFiniteSet(DOMAIN board')
  BY <1>1, NoBoard DEF BoardInv, ProviderTyped
<1>5. Effect(m, board, board')
  BY <1>1, <1>3 DEF Effect
<1>6. Send(m)
  BY <1>1, <1>2, <1>3
<1> QED
  BY <1>1, <1>4, <1>5, <1>6, SendBoard

LEMMA DropBoard == ASSUME BoardInv, Drop PROVE BoardInv'
<1>1. ProviderTyped /\ TablesSound /\ Recent
  BY DEF BoardInv, Drop
<1>2. /\ up' = FALSE /\ outbox' = <<>> /\ synced' = FALSE
      /\ UNCHANGED <<board, sent, raw, heats, ledger, current, stopped>>
  BY DEF Drop, table
<1>3. outbox' \in Seq(Messages)
  BY <1>2
<1>4. ProviderTyped' /\ TablesSound' /\ Recent'
  BY <1>1, <1>2, <1>3 DEF ProviderTyped, TablesSound, RawTyped, Recent
<1>5. PICK B : Carries(<<>>, B, board)
  BY <1>1, CarriesNone DEF ProviderTyped
<1>6. Tracks(B)'
  BY <1>2, <1>5 DEF Tracks
<1> QED
  BY <1>2, <1>4, <1>6 DEF BoardInv

LEMMA SentBounded == ASSUME ProviderTyped, sent < MaxSent, sent' = sent + 1 PROVE sent' \in 0..MaxSent
BY RaceControlAssumption DEF ProviderTyped

LEMMA OneMessage == ASSUME NEW m \in Messages PROVE <<m>> \in Seq(Messages)
OBVIOUS

LEMMA ConnectBoard ==
    ASSUME BoardInv, NEW ids \in SetToSeqs(DOMAIN board), NEW bad \in {"", "field", "id"},
           NEW again \in {NoFields} \cup Patches, Connect(ids, bad, again)
    PROVE  BoardInv'
<1>1. ProviderTyped /\ TablesSound /\ Recent /\ (~up => outbox = <<>> /\ ~synced)
  BY DEF BoardInv, Connect
<1>2. board \in Boards /\ IsFiniteSet(DOMAIN board)
  BY <1>1 DEF ProviderTyped
<1>3. PICK items : items = Snapshot(ids, bad)
  OBVIOUS
<1>4. PICK older : older = IF again = NoFields THEN <<>> ELSE <<Item(items[1].id, again, "")>>
  OBVIOUS
<1>5. PICK c : c = IF older = <<>> THEN board ELSE [board EXCEPT ![items[1].id] = Merged(@, again)]
  OBVIOUS
<1>6. /\ ~up /\ ~stopped /\ up' /\ sent < MaxSent /\ sent' = sent + 1
      /\ outbox' = <<Message("m_i", items \o older)>> /\ board' = c
      /\ UNCHANGED <<raw, heats, ledger, current, synced, stopped>>
  BY <1>3, <1>4, <1>5 DEF Connect, other, table
<1>7. ConnectWith(board, ids, bad, again, items, older, c)
  <2>1. items = [n \in DOMAIN ids |-> Item(ids[n], board[ids[n]], IF n = 1 THEN bad ELSE "")]
    BY <1>3 DEF Snapshot
  <2>2. DOMAIN board = {} => again = NoFields
    BY DEF Connect
  <2> QED
    BY <1>2, <1>4, <1>5, <2>1, <2>2 DEF ConnectWith
<1>8. items \o older \in Seq(ItemSet) /\ c \in Boards /\ DOMAIN c = DOMAIN board /\ Collected(items \o older, c)
  <2>1. again \in Fields
    BY PatchTyped
  <2> QED
    BY <1>2, <1>7, <2>1, ConnectSends
<1>9. PICK all \in Seq(ItemSet) : all = items \o older
  BY <1>8
<1>10. PICK m \in Messages : m = Message("m_i", all) /\ m.h = "m_i" /\ m.items = all
  BY MessageTyped
<1>11. outbox' = <<m>>
  BY <1>6, <1>9, <1>10
<1>12. PICK B : Carries(<<m>>, B, c)
  BY <1>8, <1>9, <1>10, CarriesSnapshot
<1>13. Tracks(B)'
  BY <1>1, <1>6, <1>11, <1>12 DEF Tracks
<1>14. ProviderTyped'
  <2>1. sent' \in 0..MaxSent
    <3>1. sent < MaxSent /\ sent' = sent + 1
      BY DEF Connect
    <3> QED
      BY <1>1, <3>1, SentBounded
  <2>2. <<m>> \in Seq(Messages)
    BY OneMessage
  <2> QED
    BY <1>2, <1>6, <1>8, <1>11, <2>1, <2>2 DEF ProviderTyped
<1>15. TablesSound' /\ Recent'
  BY <1>1, <1>6, TablesKept DEF Recent
<1> QED
  BY <1>6, <1>13, <1>14, <1>15 DEF BoardInv

LEMMA StopBoard == ASSUME BoardInv, Stop PROVE BoardInv'
<1>1. /\ stopped' /\ ~up' /\ board' = NoRows /\ outbox' = <<>> /\ sent' = 0 /\ synced' = FALSE
      /\ UNCHANGED <<raw, heats, ledger, current>>
  BY DEF Stop, table
<1>2. ProviderTyped'
  <2>1. <<>> \in Seq(Messages) /\ 0 \in 0..MaxSent
    BY RaceControlAssumption
  <2> QED
    BY <1>1, <2>1, NoBoard DEF ProviderTyped
<1>3. TablesSound'
  BY <1>1 DEF BoardInv, TablesSound, RawTyped
<1> QED
  BY <1>1, <1>2, <1>3 DEF BoardInv

LEMMA BackfillBoard == ASSUME BoardInv, Backfill PROVE BoardInv'
<1>1. stopped /\ UNCHANGED <<provider, raw, heats, synced, stopped>>
  BY DEF Backfill
<1>2. RawTyped /\ ProviderTyped /\ TablesSound
  BY DEF BoardInv, TablesSound
<1>3. PICK c \in HeatTables : ledger' = c.ledger /\ current' = c.current
  BY <1>2, BackfillSound
<1>4. TablesSound'
  BY <1>1, <1>2, <1>3 DEF TablesSound, RawTyped, HeatTables, AllTables
<1>5. ProviderTyped'
  BY <1>1, <1>2 DEF ProviderTyped, provider
<1> QED
  BY <1>1, <1>4, <1>5 DEF BoardInv, provider

\* A deleted frame keeps its place, so every removal that is left is still explained.
LEMMA ApplyBoard == ASSUME BoardInv, ApplyRetention PROVE BoardInv'
<1>1. UNCHANGED <<provider, heats, current, synced, stopped>>
  BY DEF ApplyRetention
<1>2. RawTyped /\ ProviderTyped /\ TablesSound
  BY DEF BoardInv, TablesSound
<1>3. ProviderTyped'
  BY <1>1, <1>2 DEF ProviderTyped, provider
<1>4. CASE UNCHANGED <<raw, ledger>>
  <2>1. TablesSound'
    BY <1>1, <1>2, <1>4, TablesKept
  <2>2. Recent => Recent'
    BY <1>4 DEF Recent
  <2>3. \A B : Tracks(B) => Tracks(B)'
    BY <1>1 DEF Tracks, provider
  <2> QED
    BY <1>1, <1>3, <2>1, <2>2, <2>3 DEF BoardInv, provider
<1>5. CASE ~UNCHANGED <<raw, ledger>>
  <2> DEFINE left == [f \in DOMAIN raw |-> raw[f].kept /\ f \notin Deleted]
  <2>1. /\ Deleted # {}
        /\ raw' = [f \in DOMAIN raw |-> [raw[f] EXCEPT !.kept = left[f]]]
        /\ ledger' = Without(ledger, {key \in DOMAIN ledger : key.src.f \in Deleted})
    BY <1>5 DEF ApplyRetention
  <2>2. stopped
    BY <2>1 DEF Deleted, Prunable
  <2>3. raw \in Seq(Frames(Seq(Messages)))
    BY <1>2 DEF RawTyped
  <2>4. DOMAIN raw = 1..Len(raw) /\ Len(raw) \in Nat /\ \A f \in DOMAIN raw : raw[f] \in Frames(Seq(Messages))
    BY <2>3
  <2>5. \A f \in DOMAIN raw : left[f] \in BOOLEAN
    OBVIOUS
  <2> HIDE DEF left
  <2>6. \A f \in DOMAIN raw : /\ [raw[f] EXCEPT !.kept = left[f]] \in Frames(Seq(Messages))
                              /\ [raw[f] EXCEPT !.kept = left[f]].msgs = raw[f].msgs
    BY <2>4, <2>5 DEF Frames
  <2>7. raw' \in [1..Len(raw) -> Frames(Seq(Messages))] /\ \A f \in DOMAIN raw : f \in DOMAIN raw' /\ raw'[f].msgs = raw[f].msgs
    BY <2>1, <2>4, <2>6
  <2>8. raw' \in Seq(Frames(Seq(Messages)))
    BY <2>4, <2>7, IsASeq
  <2>9. current \in Seq(SoundRows(raw'))
    <3>1. PICK Q : Q = raw'
      OBVIOUS
    <3>2. \A f \in DOMAIN raw : f \in DOMAIN Q /\ Q[f].msgs = raw[f].msgs
      BY <2>7, <3>1
    <3>3. current \in Seq(SoundRows(Q))
      BY <1>2, <3>2, SoundMore DEF TablesSound
    <3> QED
      BY <3>1, <3>3
  <2>10. ledger' \in Ledgers
    <3>1. ledger \in [DOMAIN ledger -> Entries] /\ DOMAIN ledger \subseteq Keys
      BY <1>2 DEF TablesSound, Ledgers
    <3>2. PICK S : S = {key \in DOMAIN ledger : key.src.f \in Deleted}
      OBVIOUS
    <3>3. ledger' \in [DOMAIN ledger \ S -> Entries]
      BY <2>1, <3>1, <3>2 DEF Without
    <3> QED
      BY <3>1, <3>3 DEF Ledgers
  <2>11. TablesSound'
    BY <1>1, <1>2, <2>8, <2>9, <2>10 DEF TablesSound, RawTyped
  <2> QED
    BY <1>1, <1>3, <2>2, <2>11 DEF BoardInv, provider
<1> QED
  BY <1>4, <1>5

LEMMA BoardInit == Init => BoardInv
<1> SUFFICES ASSUME Init PROVE BoardInv
  OBVIOUS
<1>1. /\ board = NoRows /\ outbox = <<>> /\ sent = 0 /\ up = FALSE /\ raw = <<>> /\ heats = <<>> /\ ledger = NoRows
      /\ current = <<>> /\ synced = FALSE /\ stopped = FALSE
  BY DEF Init
<1>2. ProviderTyped
  <2>1. <<>> \in Seq(Messages) /\ 0 \in 0..MaxSent
    BY RaceControlAssumption
  <2> QED
    BY <1>1, <2>1, NoBoard DEF ProviderTyped
<1>3. TablesSound
  <2>1. NoRows \in [{} -> Entries] /\ DOMAIN NoRows = {}
    BY DEF NoRows
  <2>2. NoRows \in Ledgers
    BY <2>1 DEF Ledgers
  <2>3. <<>> \in Seq(Frames(Seq(Messages))) /\ <<>> \in Seq(Nat) /\ <<>> \in Seq(SoundRows(raw))
    OBVIOUS
  <2> QED
    BY <1>1, <2>2, <2>3 DEF TablesSound, RawTyped
<1>4. Recent
  BY <1>1 DEF Recent, NoRows
<1>5. PICK B : Carries(<<>>, B, board)
  BY <1>1, NoBoard, CarriesNone
<1>6. Tracks(B)
  BY <1>1, <1>5 DEF Tracks
<1> QED
  BY <1>1, <1>2, <1>3, <1>4, <1>6 DEF BoardInv

LEMMA BoardStep == BoardInv /\ [Next]_vars => BoardInv'
<1> SUFFICES ASSUME BoardInv, [Next]_vars PROVE BoardInv'
  OBVIOUS
<1>1. CASE UNCHANGED <<provider, raw, heats, table, synced, stopped>>
  <2>1. UNCHANGED <<board, outbox, sent, up, raw, heats, ledger, current, synced, stopped>>
    BY <1>1 DEF provider, table
  <2>2. TablesSound'
    BY <2>1, TablesKept DEF BoardInv
  <2>3. \A B : Tracks(B) => Tracks(B)'
    BY <2>1 DEF Tracks
  <2> QED
    BY <2>1, <2>2, <2>3 DEF BoardInv, ProviderTyped, Recent
<1>2. ASSUME NEW i \in Ids, NEW p \in Patches, NEW bad \in {"", "field"}, Upsert(i, p, bad) PROVE BoardInv'
  BY <1>2, UpsertBoard
<1>3. ASSUME NEW i \in Ids, Delete(i) PROVE BoardInv'
  BY <1>3, DeleteBoard
<1>4. CASE Clear \/ Nonsense \/ NewHeat
  BY <1>4, PlainBoard
<1>5. CASE Drop
  BY <1>5, DropBoard
<1>6. ASSUME NEW ids \in SetToSeqs(DOMAIN board), NEW bad \in {"", "field", "id"},
             NEW again \in {NoFields} \cup Patches, Connect(ids, bad, again)
      PROVE  BoardInv'
  BY <1>6, ConnectBoard
<1>7. ASSUME NEW n \in 1..MaxFrame, Receive(n) PROVE BoardInv'
  BY <1>7, ReceiveBoard
<1>8. CASE Stop
  BY <1>8, StopBoard
<1>9. CASE Backfill
  BY <1>9, BackfillBoard
<1>10. ASSUME NEW valid, Cover(valid) PROVE UNCHANGED <<provider, raw, heats, table, synced, stopped>>
  BY <1>10 DEF Cover
<1>11. ASSUME NEW cutoff, PlanRetention(cutoff) PROVE UNCHANGED <<provider, raw, heats, table, synced, stopped>>
  BY <1>11 DEF PlanRetention
<1>12. CASE ApplyRetention
  BY <1>12, ApplyBoard
<1>13. CASE UNCHANGED vars
  BY <1>1, <1>13 DEF vars
<1> QED
  BY <1>1, <1>2, <1>3, <1>4, <1>5, <1>6, <1>7, <1>8, <1>9, <1>10, <1>11, <1>12, <1>13 DEF Next

\* The inductive invariant of the board holds of every behaviour: the messages on their way
\* lead from the rows of the last heat to what the provider shows.
THEOREM BoardInvariant == Spec => []BoardInv
BY BoardInit, BoardStep, PTL DEF Spec

\* The ledger and the current table are typed, and a message is only ever taken off the
\* board by a message that says so: whatever could not be read of a snapshot, whatever was
\* lost, sent twice, pruned or made anew by a backfill.
THEOREM BoardConsistentAlways == Spec => []BoardConsistent
<1>1. BoardInv => BoardConsistent
  <2> SUFFICES ASSUME BoardInv PROVE BoardConsistent
    OBVIOUS
  <2>1. current \in Seq(SoundRows(raw)) /\ Len(current) = Len(heats) /\ sent \in 0..MaxSent
    BY DEF BoardInv, ProviderTyped, TablesSound
  <2>2. ASSUME NEW g \in DOMAIN current, NEW i \in DOMAIN current[g]
        PROVE  SoundRow(raw, i, current[g][i]) /\ current[g][i].active \in BOOLEAN
    <3>1. g \in 1..Len(current)
      BY <2>1
    <3>2. PICK rows \in SoundRows(raw) : rows = current[g]
      BY <2>1, <3>1, ElementOfSeq
    <3>3. rows \in [DOMAIN rows -> Row]
      BY DEF SoundRows, Rows
    <3>4. rows[i] \in Row
      BY <3>2, <3>3
    <3> QED
      BY <3>2, <3>4 DEF SoundRows, Row
  <2>3. \A g \in DOMAIN current : \A i \in DOMAIN current[g] :
          current[g][i].active <=> current[g][i].removed = NoSource
    <3> SUFFICES ASSUME NEW g \in DOMAIN current, NEW i \in DOMAIN current[g]
                 PROVE  current[g][i].active <=> current[g][i].removed = NoSource
      OBVIOUS
    <3>1. SoundRow(raw, i, current[g][i])
      BY <2>2
    <3>2. NoSource.f = 0
      BY DEF NoSource
    <3> QED
      BY <3>1, <3>2 DEF SoundRow
  <2>4. RemovalExplained
    <3>1. ASSUME NEW g \in DOMAIN current, NEW i \in DOMAIN current[g], ~ current[g][i].active
          PROVE  LET m == raw[current[g][i].removed.f].msgs[current[g][i].removed.o]
                 IN \/ m.h = "m_a"
                    \/ m.h = "m_d" /\ m.items[1].id = i
                    \/ m.h = "m_i" /\ Readable(m) /\ \A n \in DOMAIN m.items : m.items[n].id # i
      <4>1. SoundRow(raw, i, current[g][i])
        BY <2>2
      <4> QED
        BY <3>1, <4>1, Zenon DEF SoundRow, Explains
    <3> QED
      BY <3>1, Zenon DEF RemovalExplained
  <2> QED
    BY <2>1, <2>3, <2>4 DEF BoardConsistent, TypeOK
<1> QED
  BY <1>1, BoardInvariant, PTL

\* Once a heat has had a complete m_i, and until something is lost or cannot be read, the
\* API shows exactly the provider's board, for any frames the messages come in.
THEOREM BoardShownAlways == Spec => []BoardShown
<1>1. BoardInv => BoardShown
  <2> SUFFICES ASSUME BoardInv, ~stopped, synced, outbox = <<>>
               PROVE  /\ DOMAIN Items(TRUE) = DOMAIN board
                      /\ \A i \in DOMAIN board : \A f \in DOMAIN board[i] :
                           f \in DOMAIN Items(TRUE)[i].fields /\ Items(TRUE)[i].fields[f] = board[i][f]
    BY DEF BoardShown
  <2>1. PICK B : Tracks(B)
    BY DEF BoardInv
  <2>2. heats # <<>> /\ Shows(current[Len(heats)], board)
    <3>1. Len(outbox) = 0
      OBVIOUS
    <3>2. B[0] = board
      BY <2>1, <3>1 DEF Tracks, Carries
    <3> QED
      BY <2>1, <3>2 DEF Tracks
  <2>3. PICK rows : rows = current[Len(heats)]
    OBVIOUS
  <2>4. Items(TRUE) = [i \in {i \in DOMAIN rows : rows[i].active} |-> rows[i]]
    BY <2>2, <2>3 DEF Items, LatestHeat
  <2>5. DOMAIN rows \subseteq Ids
    <3>1. current \in Seq(SoundRows(raw)) /\ Len(current) = Len(heats) /\ heats \in Seq(Nat)
      BY DEF BoardInv, TablesSound, RawTyped
    <3>2. Len(heats) \in 1..Len(current)
      BY <2>2, <3>1
    <3>3. rows \in SoundRows(raw)
      BY <2>3, <3>1, <3>2, ElementOfSeq
    <3> QED
      BY <3>3 DEF SoundRows, Rows
  <2>6. DOMAIN board \subseteq Ids
    BY DEF BoardInv, ProviderTyped, Boards
  <2>7. PICK shown : shown = Items(TRUE)
    OBVIOUS
  <2>8. DOMAIN shown = {i \in DOMAIN rows : rows[i].active} /\ \A i \in DOMAIN shown : shown[i] = rows[i]
    BY <2>4, <2>7
  <2>9. DOMAIN shown = DOMAIN board
    BY <2>2, <2>3, <2>5, <2>6, <2>8 DEF Shows
  <2>10. \A i \in DOMAIN board : \A f \in DOMAIN board[i] : f \in DOMAIN shown[i].fields /\ shown[i].fields[f] = board[i][f]
    BY <2>2, <2>3, <2>8, <2>9 DEF Shows
  <2> QED
    BY <2>7, <2>9, <2>10
<1> QED
  BY <1>1, BoardInvariant, PTL

-----------------------------------------------------------------------------
(* What a message records does not depend on the records of other messages. *)

\* Two ledgers have the same records of the sources in S.
Agree(l, r, S) ==
    \A key \in Keys : key.src \in S =>
      /\ key \in DOMAIN l <=> key \in DOMAIN r
      /\ key \in DOMAIN l => l[key] = r[key]

\* The ledger r is l with the entry e of a key, unless l has one.
Inserted(l, r, key, e) ==
    /\ DOMAIN r = DOMAIN l \cup {key} /\ \A x \in DOMAIN l : r[x] = l[x]
    /\ key \notin DOMAIN l => r[key] = e

\* INSERT OR IGNORE looks only at the key it adds.
LEMMA InsertLocal ==
    ASSUME NEW R, NEW t \in Tables(R), NEW key \in Keys, NEW op \in Ops, NEW id \in Ids \cup {0}
    PROVE  Inserted(t.ledger, InsertObservation(t, key, op, id).ledger, key, [op |-> op, id |-> id])
<1>1. t.ledger \in [DOMAIN t.ledger -> Entries]
  BY DEF Tables, Ledgers
<1> DEFINE e == [op |-> op, id |-> id]
           l == With(t.ledger, key, e)
<1>2. DOMAIN l = DOMAIN t.ledger \cup {key} /\ l[key] = e /\ \A x \in DOMAIN t.ledger : x # key => l[x] = t.ledger[x]
  BY DEF With
<1>3. InsertObservation(t, key, op, id) = IF IsNew(t, key) THEN [t EXCEPT !.ledger = l] ELSE t
  BY DEF InsertObservation
<1> HIDE DEF l, e
<1>4. CASE IsNew(t, key)
  <2>1. InsertObservation(t, key, op, id).ledger = l
    BY <1>3, <1>4 DEF Tables
  <2>2. Inserted(t.ledger, l, key, e)
    BY <1>2, <1>4 DEF IsNew, Inserted
  <2> QED
    BY <2>1, <2>2 DEF e
<1>5. CASE ~IsNew(t, key)
  <2>1. InsertObservation(t, key, op, id).ledger = t.ledger /\ key \in DOMAIN t.ledger
    BY <1>3, <1>5 DEF IsNew
  <2> QED
    BY <2>1 DEF Inserted
<1> QED
  BY <1>4, <1>5

\* Ledgers that have the same records of some sources have so after the same insertion.
LEMMA InsertAgree ==
    ASSUME NEW R, NEW t \in Tables(R), NEW u \in Tables(R), NEW key \in Keys, NEW op \in Ops, NEW id \in Ids \cup {0},
           NEW S, Agree(t.ledger, u.ledger, S)
    PROVE  Agree(InsertObservation(t, key, op, id).ledger, InsertObservation(u, key, op, id).ledger, S)
<1>1. PICK e : e = [op |-> op, id |-> id]
  OBVIOUS
<1>2. PICK T : T = InsertObservation(t, key, op, id).ledger
  OBVIOUS
<1>3. PICK U : U = InsertObservation(u, key, op, id).ledger
  OBVIOUS
<1>4. Inserted(t.ledger, T, key, e) /\ Inserted(u.ledger, U, key, e)
  BY <1>1, <1>2, <1>3, InsertLocal
<1>5. Agree(T, U, S)
  BY <1>4 DEF Agree, Inserted
<1> QED
  BY <1>2, <1>3, <1>5

\* The ledger that a patch leaves.
LEMMA PatchLedger ==
    ASSUME NEW R, NEW t \in Tables(R), NEW heat \in Nat, NEW src \in Sources, NEW op \in Ops,
           NEW p, p.id \in Ids, p.patch \in Fields, p.change \in Nat
    PROVE  ProjectPatch(t, heat, src, op, p).ledger = InsertObservation(t, Key(heat, src, p.change), op, p.id).ledger
<1>1. PICK key : key = Key(heat, src, p.change)
  OBVIOUS
<1>2. key \in Keys
  BY <1>1 DEF Key, Keys
<1>3. PICK v : v = InsertObservation(t, key, op, p.id)
  OBVIOUS
<1>4. v \in Tables(R)
  BY <1>2, <1>3, InsertSound
<1>5. CASE IsNew(t, key)
  <2>1. PICK u : u = UpsertCurrent(v, src, p)
    OBVIOUS
  <2>2. u.ledger = v.ledger
    BY <1>4, <2>1, UpsertSound
  <2>3. ProjectPatch(t, heat, src, op, p) = u
    BY <1>1, <1>3, <1>5, <2>1 DEF ProjectPatch
  <2> QED
    BY <1>1, <1>3, <2>2, <2>3
<1>6. CASE ~IsNew(t, key)
  <2>1. ProjectPatch(t, heat, src, op, p) = t /\ v = t
    BY <1>1, <1>3, <1>6 DEF ProjectPatch, InsertObservation
  <2> QED
    BY <1>1, <1>3, <2>1
<1> QED
  BY <1>5, <1>6

\* The ledger that the loop of a snapshot leaves after an item.
LEMMA ItemLedger ==
    ASSUME NEW R, NEW heat \in Nat, NEW src \in Sources, NEW items \in Seq(ItemSet), NEW k \in 1..Len(items),
           NEW t \in Tables(R), NEW u \in Tables(R), NEW S, Agree(t.ledger, u.ledger, S)
    PROVE  Agree(ProjectItem(t, heat, src, items, k).ledger, ProjectItem(u, heat, src, items, k).ledger, S)
<1>1. Position(items, k) \in 1..Len(items)
  BY DEF Position
<1>2. PICK n \in 1..Len(items) : n = Position(items, k)
  BY <1>1
<1>3. PICK p : p = ParsePatch(items, n)
  OBVIOUS
<1>4. p.id \in Ids /\ p.patch \in Fields /\ p.change \in Nat
  BY <1>3, ParseSound
<1>5. PICK op \in Ops : op = "INITIAL_SNAPSHOT"
  BY DEF Ops
<1>6. PICK key \in Keys : key = Key(heat, src, p.change) /\ key.src = src
  <2>1. Key(heat, src, p.change) \in Keys /\ Key(heat, src, p.change).src = src
    BY <1>4 DEF Key, Keys
  <2> QED
    BY <2>1
<1>7. CASE items[n].bad = "id"
  BY <1>2, <1>7 DEF ProjectItem
<1>8. CASE items[n].bad # "id"
  <2>1. \A v : ProjectItem(v, heat, src, items, k) = ProjectPatch(v, heat, src, op, p)
    BY <1>2, <1>3, <1>5, <1>8 DEF ProjectItem
  <2>2. \A v \in Tables(R) : ProjectItem(v, heat, src, items, k).ledger = InsertObservation(v, key, op, p.id).ledger
    BY <1>4, <1>6, <2>1, PatchLedger
  <2>3. Agree(InsertObservation(t, key, op, p.id).ledger, InsertObservation(u, key, op, p.id).ledger, S)
    BY <1>4, <1>6, InsertAgree
  <2> QED
    BY <2>2, <2>3
<1> QED
  BY <1>7, <1>8

\* The ledger that a snapshot leaves is that of its loop.
LEMMA SnapshotAgree ==
    ASSUME NEW R, NEW heat \in Nat, NEW src, NEW m \in Messages, m.h = "m_i", Refers(R, src, m),
           NEW t \in Tables(R), NEW u \in Tables(R), NEW S, Agree(t.ledger, u.ledger, S)
    PROVE  Agree(ProjectSnapshot(t, heat, src, m.items).ledger, ProjectSnapshot(u, heat, src, m.items).ledger, S)
<1>1. PICK items \in Seq(ItemSet) : items = m.items
  BY DEF Messages
<1>2. src \in Sources
  BY DEF Refers
<1>3. Len(items) \in Nat /\ Len(items) \in 0..Len(items) /\ \A k \in 1..Len(items) : k \in 0..Len(items) /\ k - 1 \in 0..Len(items)
  OBVIOUS
<1> DEFINE Loop(A, v) ==
             /\ A \in [0..Len(items) -> Tables(R)] /\ A[0] = SnapshotStart(v, heat, src, items)
             /\ \A k \in 1..Len(items) : A[k] = ProjectItem(A[k - 1], heat, src, items, k)
             /\ ProjectSnapshot(v, heat, src, items).ledger = A[Len(items)].ledger
<1>4. ASSUME NEW v \in Tables(R) PROVE \E A : Loop(A, v)
  <2>1. PICK A : SnapshotLoop(A, R, v, heat, src, items)
    BY <1>2, SnapshotRun
  <2>2. /\ A \in [0..Len(items) -> Tables(R)] /\ A[0] = SnapshotStart(v, heat, src, items)
        /\ \A k \in 1..Len(items) : A[k] = ProjectItem(A[k - 1], heat, src, items, k)
        /\ ProjectSnapshot(v, heat, src, items) =
             IF SnapshotComplete(items) /\ A[Len(items)].ledger # v.ledger
               THEN ReconcileSnapshotAbsences(A[Len(items)], src, Visible(items)) ELSE A[Len(items)]
    BY <2>1 DEF SnapshotLoop
  <2>3. PICK w \in Tables(R) : w = A[Len(items)]
    BY <1>3, <2>2
  <2>4. ReconcileSnapshotAbsences(w, src, Visible(items)).ledger = w.ledger
    BY DEF ReconcileSnapshotAbsences, MarkRemoved, Tables
  <2>5. Loop(A, v)
    BY <2>2, <2>3, <2>4
  <2> QED
    BY <2>5
<1>5. PICK A : Loop(A, t)
  <2> HIDE DEF Loop
  <2> QED
    BY <1>4
<1>6. PICK B : Loop(B, u)
  <2> HIDE DEF Loop
  <2> QED
    BY <1>4
<1> DEFINE Good == {k \in 0..Len(items) : Agree(A[k].ledger, B[k].ledger, S)}
<1>7. 0 \in Good
  <2>1. PICK key \in Keys : key = Key(heat, src, 0) /\ key.src = src
    <3>1. Key(heat, src, 0) \in Keys /\ Key(heat, src, 0).src = src
      BY <1>2 DEF Key, Keys
    <3> QED
      BY <3>1
  <2>2. PICK op \in Ops : op = IF SnapshotComplete(items) THEN "INITIAL_SNAPSHOT" ELSE "UNKNOWN"
    BY DEF Ops
  <2>3. A[0] = (IF Visible(items) = {} THEN InsertObservation(t, key, op, 0) ELSE t)
    BY <1>5, <2>1, <2>2 DEF SnapshotStart
  <2>4. B[0] = (IF Visible(items) = {} THEN InsertObservation(u, key, op, 0) ELSE u)
    BY <1>6, <2>1, <2>2 DEF SnapshotStart
  <2>5. Agree(InsertObservation(t, key, op, 0).ledger, InsertObservation(u, key, op, 0).ledger, S)
    BY <2>1, InsertAgree
  <2> HIDE DEF Loop
  <2>6. Agree(A[0].ledger, B[0].ledger, S)
    BY <2>3, <2>4, <2>5
  <2> QED
    BY <1>3, <2>6
<1>8. ASSUME NEW k \in 1..Len(items), k - 1 \in Good PROVE k \in Good
  <2>1. A[k - 1] \in Tables(R) /\ B[k - 1] \in Tables(R) /\ Agree(A[k - 1].ledger, B[k - 1].ledger, S)
    BY <1>3, <1>5, <1>6, <1>8
  <2>2. A[k] = ProjectItem(A[k - 1], heat, src, items, k) /\ B[k] = ProjectItem(B[k - 1], heat, src, items, k)
    BY <1>5, <1>6
  <2> HIDE DEF Loop
  <2>3. Agree(A[k].ledger, B[k].ledger, S)
    BY <1>2, <2>1, <2>2, ItemLedger
  <2> QED
    BY <1>3, <2>3
<1>9. Len(items) \in Good
  <2> HIDE DEF Good
  <2>1. 0..Len(items) \subseteq Good
    BY <1>3, <1>7, <1>8, UpTo
  <2> QED
    BY <1>3, <2>1
<1> QED
  BY <1>1, <1>5, <1>6, <1>9
\* A message of the board adds to the ledgers that agree on some sources the same records.
LEMMA ProjectAgree ==
    ASSUME NEW R, NEW heat \in Nat, NEW src, NEW m \in Messages, Refers(R, src, m),
           NEW t \in Tables(R), NEW u \in Tables(R), NEW S, Agree(t.ledger, u.ledger, S)
    PROVE  Agree(ProjectScreenMessage(t, heat, src, m).ledger, ProjectScreenMessage(u, heat, src, m).ledger, S)
<1>1. PICK items \in Seq(ItemSet) : items = m.items
  BY DEF Messages
<1>2. src \in Sources
  BY DEF Refers
<1>3. PICK key \in Keys : key = Key(heat, src, 0)
  BY <1>2 DEF Key, Keys
<1>4. CASE m.h = "m_i"
  <2>1. \A v : ProjectScreenMessage(v, heat, src, m) = ProjectSnapshot(v, heat, src, m.items)
    BY <1>4 DEF ProjectScreenMessage
  <2>2. Agree(ProjectSnapshot(t, heat, src, m.items).ledger, ProjectSnapshot(u, heat, src, m.items).ledger, S)
    BY <1>4, SnapshotAgree
  <2> QED
    BY <2>1, <2>2
<1>5. CASE m.h = "m_c"
  <2>1. 1 \in 1..Len(items)
    <3>1. Len(m.items) = 1
      BY <1>5 DEF Messages
    <3> QED
      BY <1>1, <3>1
  <2>2. PICK p : p = ParsePatch(items, 1)
    OBVIOUS
  <2>3. p.id \in Ids /\ p.patch \in Fields /\ p.change \in Nat
    BY <2>1, <2>2, ParseSound
  <2>4. PICK op \in Ops : op = "UPSERT"
    BY DEF Ops
  <2>5. PICK k \in Keys : k = Key(heat, src, p.change)
    BY <1>2, <2>3 DEF Key, Keys
  <2>6. \A v : ProjectScreenMessage(v, heat, src, m) = ProjectPatch(v, heat, src, op, p)
    BY <1>1, <1>5, <2>2, <2>4 DEF ProjectScreenMessage
  <2>7. \A v \in Tables(R) : ProjectScreenMessage(v, heat, src, m).ledger = InsertObservation(v, k, op, p.id).ledger
    BY <1>2, <2>3, <2>5, <2>6, PatchLedger
  <2>8. Agree(InsertObservation(t, k, op, p.id).ledger, InsertObservation(u, k, op, p.id).ledger, S)
    BY <2>3, InsertAgree
  <2> QED
    BY <2>7, <2>8
<1> DEFINE removed(v, op, id, ids) ==
             IF IsNew(v, key) THEN MarkRemoved(InsertObservation(v, key, op, id), src, ids) ELSE v
<1>6. ASSUME NEW op \in Ops, NEW id \in Ids \cup {0}, NEW ids
      PROVE  Agree(removed(t, op, id, ids).ledger, removed(u, op, id, ids).ledger, S)
  <2>1. ASSUME NEW v \in Tables(R) PROVE removed(v, op, id, ids).ledger = InsertObservation(v, key, op, id).ledger
    <3>1. PICK w \in Tables(R) : w = InsertObservation(v, key, op, id)
      BY InsertSound
    <3>2. MarkRemoved(w, src, ids).ledger = w.ledger
      BY DEF MarkRemoved, Tables
    <3>3. ~IsNew(v, key) => w = v
      BY <3>1 DEF InsertObservation
    <3> QED
      BY <3>1, <3>2, <3>3
  <2>2. Agree(InsertObservation(t, key, op, id).ledger, InsertObservation(u, key, op, id).ledger, S)
    BY InsertAgree
  <2> HIDE DEF removed
  <2> QED
    BY <2>1, <2>2
<1>7. CASE m.h = "m_d"
  <2>1. PICK id \in Ids : id = m.items[1].id
    <3>1. Len(m.items) = 1
      BY <1>7 DEF Messages
    <3>2. 1 \in 1..Len(items)
      BY <1>1, <3>1
    <3>3. items[1] \in ItemSet
      BY <3>2, ElementOfSeq
    <3> QED
      BY <1>1, <3>3 DEF ItemSet
  <2>2. \A v : ProjectScreenMessage(v, heat, src, m) = removed(v, "DELETE", id, {id})
    BY <1>3, <1>7, <2>1 DEF ProjectScreenMessage
  <2>3. "DELETE" \in Ops
    BY DEF Ops
  <2> HIDE DEF removed
  <2> QED
    BY <1>6, <2>1, <2>2, <2>3
<1>8. CASE m.h = "m_a"
  <2>1. \A v : ProjectScreenMessage(v, heat, src, m) = removed(v, "CLEAR", 0, Ids)
    BY <1>3, <1>8 DEF ProjectScreenMessage
  <2>2. "CLEAR" \in Ops /\ 0 \in Ids \cup {0}
    BY DEF Ops
  <2> HIDE DEF removed
  <2> QED
    BY <1>6, <2>1, <2>2
<1>9. CASE m.h \notin {"m_i", "m_c", "m_d", "m_a"}
  <2>1. \A v : ProjectScreenMessage(v, heat, src, m) = InsertObservation(v, key, "UNKNOWN", 0)
    BY <1>3, <1>9 DEF ProjectScreenMessage
  <2>2. "UNKNOWN" \in Ops /\ 0 \in Ids \cup {0}
    BY DEF Ops
  <2> QED
    BY <2>1, <2>2, InsertAgree
<1> QED
  BY <1>4, <1>5, <1>7, <1>8, <1>9

\* The ledger r has the records of l.
Extends(l, r) == DOMAIN l \subseteq DOMAIN r /\ \A x \in DOMAIN l : r[x] = l[x]

\* No record is lost or overwritten.
LEMMA InsertExtends ==
    ASSUME NEW R, NEW t \in Tables(R), NEW key \in Keys, NEW op \in Ops, NEW id \in Ids \cup {0}
    PROVE  Extends(t.ledger, InsertObservation(t, key, op, id).ledger)
<1>1. PICK e : e = [op |-> op, id |-> id]
  OBVIOUS
<1>2. Inserted(t.ledger, InsertObservation(t, key, op, id).ledger, key, e)
  BY <1>1, InsertLocal
<1> QED
  BY <1>2 DEF Inserted, Extends

\* So it is with an item of a snapshot.
LEMMA ItemExtends ==
    ASSUME NEW R, NEW heat \in Nat, NEW src \in Sources, NEW items \in Seq(ItemSet), NEW k \in 1..Len(items),
           NEW t \in Tables(R)
    PROVE  Extends(t.ledger, ProjectItem(t, heat, src, items, k).ledger)
<1>1. Position(items, k) \in 1..Len(items)
  BY DEF Position
<1>2. PICK n \in 1..Len(items) : n = Position(items, k)
  BY <1>1
<1>3. PICK p : p = ParsePatch(items, n)
  OBVIOUS
<1>4. p.id \in Ids /\ p.patch \in Fields /\ p.change \in Nat
  BY <1>3, ParseSound
<1>5. PICK op \in Ops : op = "INITIAL_SNAPSHOT"
  BY DEF Ops
<1>6. PICK key \in Keys : key = Key(heat, src, p.change)
  BY <1>4 DEF Key, Keys
<1>7. CASE items[n].bad = "id"
  BY <1>2, <1>7 DEF ProjectItem, Extends
<1>8. CASE items[n].bad # "id"
  <2>1. ProjectItem(t, heat, src, items, k) = ProjectPatch(t, heat, src, op, p)
    BY <1>2, <1>3, <1>5, <1>8 DEF ProjectItem
  <2>2. ProjectItem(t, heat, src, items, k).ledger = InsertObservation(t, key, op, p.id).ledger
    BY <1>4, <1>6, <2>1, PatchLedger
  <2> QED
    BY <1>4, <2>2, InsertExtends
<1> QED
  BY <1>7, <1>8

\* Nothing is taken from the ledger by a snapshot.
LEMMA SnapshotExtends ==
    ASSUME NEW R, NEW heat \in Nat, NEW src, NEW m \in Messages, m.h = "m_i", Refers(R, src, m), NEW t \in Tables(R)
    PROVE  Extends(t.ledger, ProjectSnapshot(t, heat, src, m.items).ledger)
<1>1. PICK items \in Seq(ItemSet) : items = m.items
  BY DEF Messages
<1>2. src \in Sources
  BY DEF Refers
<1>3. Len(items) \in Nat /\ Len(items) \in 0..Len(items) /\ \A k \in 1..Len(items) : k \in 0..Len(items) /\ k - 1 \in 0..Len(items)
  OBVIOUS
<1>4. PICK A : SnapshotLoop(A, R, t, heat, src, items)
  BY <1>2, SnapshotRun
<1>5. /\ A \in [0..Len(items) -> Tables(R)] /\ A[0] = SnapshotStart(t, heat, src, items)
      /\ \A k \in 1..Len(items) : A[k] = ProjectItem(A[k - 1], heat, src, items, k)
      /\ ProjectSnapshot(t, heat, src, items) =
           IF SnapshotComplete(items) /\ A[Len(items)].ledger # t.ledger
             THEN ReconcileSnapshotAbsences(A[Len(items)], src, Visible(items)) ELSE A[Len(items)]
  BY <1>4 DEF SnapshotLoop
<1>6. PICK w \in Tables(R) : w = A[Len(items)]
  BY <1>3, <1>5
<1>7. ReconcileSnapshotAbsences(w, src, Visible(items)).ledger = w.ledger
  BY DEF ReconcileSnapshotAbsences, MarkRemoved, Tables
<1>8. ProjectSnapshot(t, heat, src, m.items).ledger = A[Len(items)].ledger
  BY <1>1, <1>5, <1>6, <1>7
<1> DEFINE Good == {k \in 0..Len(items) : Extends(t.ledger, A[k].ledger)}
<1>9. 0 \in Good
  <2>1. PICK key \in Keys : key = Key(heat, src, 0)
    BY <1>2 DEF Key, Keys
  <2>2. PICK op \in Ops : op = IF SnapshotComplete(items) THEN "INITIAL_SNAPSHOT" ELSE "UNKNOWN"
    BY DEF Ops
  <2>3. A[0] = (IF Visible(items) = {} THEN InsertObservation(t, key, op, 0) ELSE t)
    BY <1>5, <2>1, <2>2 DEF SnapshotStart
  <2>4. Extends(t.ledger, InsertObservation(t, key, op, 0).ledger) /\ Extends(t.ledger, t.ledger)
    BY <2>1, InsertExtends DEF Extends
  <2>5. Extends(t.ledger, A[0].ledger)
    BY <2>3, <2>4
  <2> QED
    BY <1>3, <2>5
<1>10. ASSUME NEW k \in 1..Len(items), k - 1 \in Good PROVE k \in Good
  <2>1. A[k - 1] \in Tables(R) /\ Extends(t.ledger, A[k - 1].ledger)
    BY <1>3, <1>5, <1>10
  <2>2. Extends(A[k - 1].ledger, A[k].ledger)
    BY <1>2, <1>5, <2>1, ItemExtends
  <2>3. Extends(t.ledger, A[k].ledger)
    BY <2>1, <2>2 DEF Extends
  <2> QED
    BY <1>3, <2>3
<1>11. Len(items) \in Good
  <2> HIDE DEF Good
  <2>1. 0..Len(items) \subseteq Good
    BY <1>3, <1>9, <1>10, UpTo
  <2> QED
    BY <1>3, <2>1
<1> QED
  BY <1>8, <1>11

\* Nor by any other message.
LEMMA ProjectExtends ==
    ASSUME NEW R, NEW heat \in Nat, NEW src, NEW m \in Messages, Refers(R, src, m), NEW t \in Tables(R)
    PROVE  Extends(t.ledger, ProjectScreenMessage(t, heat, src, m).ledger)
<1>1. PICK items \in Seq(ItemSet) : items = m.items
  BY DEF Messages
<1>2. src \in Sources
  BY DEF Refers
<1>3. PICK key \in Keys : key = Key(heat, src, 0)
  BY <1>2 DEF Key, Keys
<1>4. CASE m.h = "m_i"
  <2>1. ProjectScreenMessage(t, heat, src, m) = ProjectSnapshot(t, heat, src, m.items)
    BY <1>4 DEF ProjectScreenMessage
  <2> QED
    BY <1>4, <2>1, SnapshotExtends
<1>5. CASE m.h = "m_c"
  <2>1. 1 \in 1..Len(items)
    <3>1. Len(m.items) = 1
      BY <1>5 DEF Messages
    <3> QED
      BY <1>1, <3>1
  <2>2. PICK p : p = ParsePatch(items, 1)
    OBVIOUS
  <2>3. p.id \in Ids /\ p.patch \in Fields /\ p.change \in Nat
    BY <2>1, <2>2, ParseSound
  <2>4. PICK op \in Ops : op = "UPSERT"
    BY DEF Ops
  <2>5. PICK k \in Keys : k = Key(heat, src, p.change)
    BY <1>2, <2>3 DEF Key, Keys
  <2>6. ProjectScreenMessage(t, heat, src, m) = ProjectPatch(t, heat, src, op, p)
    BY <1>1, <1>5, <2>2, <2>4 DEF ProjectScreenMessage
  <2>7. ProjectScreenMessage(t, heat, src, m).ledger = InsertObservation(t, k, op, p.id).ledger
    BY <1>2, <2>3, <2>5, <2>6, PatchLedger
  <2> QED
    BY <2>3, <2>7, InsertExtends
<1> DEFINE removed(op, id, ids) ==
             IF IsNew(t, key) THEN MarkRemoved(InsertObservation(t, key, op, id), src, ids) ELSE t
<1>6. ASSUME NEW op \in Ops, NEW id \in Ids \cup {0}, NEW ids
      PROVE  Extends(t.ledger, removed(op, id, ids).ledger)
  <2>1. PICK w \in Tables(R) : w = InsertObservation(t, key, op, id)
    BY InsertSound
  <2>2. MarkRemoved(w, src, ids).ledger = w.ledger
    BY DEF MarkRemoved, Tables
  <2>3. Extends(t.ledger, w.ledger)
    BY <2>1, InsertExtends
  <2>4. Extends(t.ledger, t.ledger)
    BY DEF Extends
  <2> QED
    BY <2>1, <2>2, <2>3, <2>4
<1>7. CASE m.h = "m_d"
  <2>1. PICK id \in Ids : id = m.items[1].id
    <3>1. Len(m.items) = 1
      BY <1>7 DEF Messages
    <3>2. 1 \in 1..Len(items)
      BY <1>1, <3>1
    <3>3. items[1] \in ItemSet
      BY <3>2, ElementOfSeq
    <3> QED
      BY <1>1, <3>3 DEF ItemSet
  <2>2. ProjectScreenMessage(t, heat, src, m) = removed("DELETE", id, {id})
    BY <1>3, <1>7, <2>1 DEF ProjectScreenMessage
  <2>3. "DELETE" \in Ops
    BY DEF Ops
  <2> HIDE DEF removed
  <2> QED
    BY <1>6, <2>1, <2>2, <2>3
<1>8. CASE m.h = "m_a"
  <2>1. ProjectScreenMessage(t, heat, src, m) = removed("CLEAR", 0, Ids)
    BY <1>3, <1>8 DEF ProjectScreenMessage
  <2>2. "CLEAR" \in Ops /\ 0 \in Ids \cup {0}
    BY DEF Ops
  <2> HIDE DEF removed
  <2> QED
    BY <1>6, <2>1, <2>2
<1>9. CASE m.h \notin {"m_i", "m_c", "m_d", "m_a"}
  <2>1. ProjectScreenMessage(t, heat, src, m) = InsertObservation(t, key, "UNKNOWN", 0)
    BY <1>3, <1>9 DEF ProjectScreenMessage
  <2>2. "UNKNOWN" \in Ops /\ 0 \in Ids \cup {0}
    BY DEF Ops
  <2> QED
    BY <2>1, <2>2, InsertExtends
<1> QED
  BY <1>4, <1>5, <1>7, <1>8, <1>9

-----------------------------------------------------------------------------
(* What the frames record.                                                 *)

\* Frames and heats, and every frame has its heat.
Recorder(R, H) ==
    /\ R \in Seq(Frames(Seq(Messages))) /\ H \in Seq(Nat)
    /\ \A f \in 1..Len(R) : HeatAt(H, R[f].at) \in 1..Len(H)

\* The sources of other frames, and those of frame f.
Others(f) == {src \in Sources : src.f # f}
Its(f)    == {src \in Sources : src.f = f}

\* One message of a frame: what it records is the same on any ledger, and under its own source.
LEMMA TurnLedger ==
    ASSUME NEW R, NEW H, Recorder(R, H), NEW f \in 1..Len(R), NEW k \in 1..Len(R[f].msgs),
           NEW c \in TablesOf(R, H), NEW d \in TablesOf(R, H), NEW S, Agree(c.ledger, d.ledger, S)
    PROVE  /\ Agree(Turn(c, R, H, f, k).ledger, Turn(d, R, H, f, k).ledger, S)
           /\ Agree(c.ledger, Turn(c, R, H, f, k).ledger, Others(f))
           /\ Grown(c.ledger, Turn(c, R, H, f, k).ledger, Source(f, k))
<1>1. R[f] \in Frames(Seq(Messages)) /\ f \in Nat \ {0} /\ f \in DOMAIN R
  BY DEF Recorder
<1>2. PICK msgs \in Seq(Messages) : msgs = R[f].msgs
  BY <1>1 DEF Frames
<1>3. PICK m \in Messages : m = msgs[k]
  BY <1>2, ElementOfSeq
<1>4. PICK heat \in 1..Len(H) : heat = HeatAt(H, R[f].at)
  BY DEF Recorder
<1>5. heat \in Nat
  BY DEF Recorder
<1>6. PICK src : src = Source(f, k)
  OBVIOUS
<1>7. Refers(R, src, m) /\ src.f = f
  BY <1>1, <1>2, <1>3, <1>6 DEF Refers, Source, Sources
<1>8. ASSUME NEW x \in TablesOf(R, H)
      PROVE  \E t \in Tables(R) : /\ t.ledger = x.ledger
                                  /\ Projected(x, heat, src, m).ledger = ProjectScreenMessage(t, heat, src, m).ledger
  <2>1. x.ledger \in Ledgers /\ x.current \in Seq(SoundRows(R)) /\ heat \in 1..Len(x.current)
    BY DEF TablesOf, AllTables
  <2>2. x.current[heat] \in SoundRows(R)
    BY <2>1, ElementOfSeq
  <2>3. PICK t : t = [ledger |-> x.ledger, rows |-> x.current[heat]]
    OBVIOUS
  <2>4. t \in Tables(R) /\ t.ledger = x.ledger
    BY <2>1, <2>2, <2>3 DEF Tables
  <2>5. Projected(x, heat, src, m).ledger = ProjectScreenMessage(t, heat, src, m).ledger
    BY <2>3 DEF Projected
  <2> QED
    BY <2>4, <2>5
<1>9. PICK t \in Tables(R) : t.ledger = c.ledger /\ Projected(c, heat, src, m).ledger = ProjectScreenMessage(t, heat, src, m).ledger
  BY <1>8
<1>10. PICK u \in Tables(R) : u.ledger = d.ledger /\ Projected(d, heat, src, m).ledger = ProjectScreenMessage(u, heat, src, m).ledger
  BY <1>8
<1>11. Agree(Projected(c, heat, src, m).ledger, Projected(d, heat, src, m).ledger, S)
  BY <1>5, <1>7, <1>9, <1>10, ProjectAgree
<1>12. PICK T : T = Projected(c, heat, src, m).ledger
  OBVIOUS
<1>13. Extends(c.ledger, T) /\ Grown(c.ledger, T, src)
  <2>1. Extends(t.ledger, T)
    BY <1>5, <1>7, <1>9, <1>12, ProjectExtends
  <2>2. Grown(t.ledger, T, src)
    BY <1>5, <1>7, <1>9, <1>12, ProjectSound DEF Grown
  <2> QED
    BY <1>9, <2>1, <2>2
<1>14. Agree(c.ledger, T, Others(f))
  BY <1>7, <1>13 DEF Agree, Extends, Grown, Others
<1>15. CASE IsBoard(m)
  <2>1. \A x : Turn(x, R, H, f, k) = Projected(x, heat, src, m)
    BY <1>2, <1>3, <1>4, <1>6, <1>15 DEF Turn
  <2> QED
    BY <1>6, <1>11, <1>12, <1>13, <1>14, <2>1
<1>16. CASE ~IsBoard(m)
  <2>1. \A x : Turn(x, R, H, f, k) = x
    BY <1>2, <1>3, <1>16 DEF Turn
  <2> QED
    BY <2>1 DEF Agree, Grown
<1> QED
  BY <1>15, <1>16
\* A whole frame.
LEMMA FrameLedger ==
    ASSUME NEW R, NEW H, Recorder(R, H), NEW f \in 1..Len(R), NEW A, FrameRun(A, R, H, f), NEW B, FrameRun(B, R, H, f),
           Agree(A[0].ledger, B[0].ledger, Its(f)), NEW n, n = Len(R[f].msgs)
    PROVE  /\ Agree(A[n].ledger, B[n].ledger, Its(f))
           /\ Agree(A[0].ledger, A[n].ledger, Others(f))
           /\ \A key \in DOMAIN A[n].ledger : key \in DOMAIN A[0].ledger \/ key.src.f = f
<1>1. n \in Nat /\ n \in 0..n /\ 0 \in 0..n /\ \A k \in 1..n : k \in 0..n /\ k - 1 \in 0..n
  <2>1. R[f] \in Frames(Seq(Messages))
    BY DEF Recorder
  <2>2. n \in Nat
    BY <2>1 DEF Frames
  <2> QED
    BY <2>2
<1>2. /\ A \in [0..n -> TablesOf(R, H)] /\ \A k \in 1..n : A[k] = Turn(A[k - 1], R, H, f, k)
      /\ B \in [0..n -> TablesOf(R, H)] /\ \A k \in 1..n : B[k] = Turn(B[k - 1], R, H, f, k)
  BY DEF FrameRun
<1> DEFINE Own(k) == \A key \in DOMAIN A[k].ledger : key \in DOMAIN A[0].ledger \/ key.src.f = f
           P(k) == /\ Agree(A[k].ledger, B[k].ledger, Its(f))
                   /\ Agree(A[0].ledger, A[k].ledger, Others(f)) /\ Own(k)
           Good == {k \in 0..n : P(k)}
<1>3. P(0)
  BY DEF Agree
<1>4. ASSUME NEW k \in 1..n, P(k - 1) PROVE P(k)
  <2>1. PICK c \in TablesOf(R, H) : c = A[k - 1]
    BY <1>1, <1>2
  <2>2. PICK d \in TablesOf(R, H) : d = B[k - 1]
    BY <1>1, <1>2
  <2>3. k \in 1..Len(R[f].msgs) /\ A[k] = Turn(c, R, H, f, k) /\ B[k] = Turn(d, R, H, f, k)
    BY <1>2, <2>1, <2>2
  <2>4. /\ Agree(A[k].ledger, B[k].ledger, Its(f))
        /\ Agree(c.ledger, A[k].ledger, Others(f))
        /\ Grown(c.ledger, A[k].ledger, Source(f, k))
    BY <1>4, <2>1, <2>2, <2>3, TurnLedger
  <2>5. Own(k)
    <3>1. Source(f, k).f = f
      BY DEF Source
    <3> QED
      BY <1>4, <2>1, <2>4, <3>1 DEF Grown
  <2>6. Agree(A[0].ledger, A[k].ledger, Others(f))
    BY <1>4, <2>1, <2>4 DEF Agree
  <2> HIDE DEF Own
  <2> QED
    BY <2>4, <2>5, <2>6
<1>5. n \in Good
  <2> HIDE DEF P
  <2>1. 0 \in Good /\ \A k \in 1..n : k - 1 \in Good => k \in Good
    BY <1>1, <1>3, <1>4
  <2> HIDE DEF Good
  <2>2. 0..n \subseteq Good
    BY <1>1, <2>1, UpTo
  <2> QED
    BY <1>1, <2>2
<1> QED
  BY <1>5

\* A frame makes one thing of the tables.
LEMMA MakesOne ==
    ASSUME NEW R, NEW H, Recorder(R, H), NEW f \in 1..Len(R), NEW c, NEW d, NEW e,
           Makes(c, R, H, f, d), Makes(c, R, H, f, e)
    PROVE  d = e
<1> DEFINE n == Len(R[f].msgs)
<1>1. n \in Nat /\ n \in 0..n /\ \A k \in 1..n : k \in 0..n
  <2>1. R[f] \in Frames(Seq(Messages))
    BY DEF Recorder
  <2>2. n \in Nat
    BY <2>1 DEF Frames
  <2> HIDE DEF n
  <2> QED
    BY <2>2
<1>2. PICK A : FrameRun(A, R, H, f) /\ A[0] = c /\ A[n] = d
  BY DEF Makes
<1>3. PICK B : FrameRun(B, R, H, f) /\ B[0] = c /\ B[n] = e
  BY DEF Makes
<1>4. \A k \in 1..n : A[k] = Turn(A[k - 1], R, H, f, k) /\ B[k] = Turn(B[k - 1], R, H, f, k)
  BY <1>2, <1>3 DEF FrameRun
<1> HIDE DEF n
<1> DEFINE Good == {k \in 0..n : A[k] = B[k]}
<1>5. 0 \in Good /\ \A k \in 1..n : k - 1 \in Good => k \in Good
  BY <1>1, <1>2, <1>3, <1>4
<1>6. n \in Good
  <2> HIDE DEF Good
  <2>1. 0..n \subseteq Good
    BY <1>1, <1>5, UpTo
  <2> QED
    BY <1>1, <2>1
<1> QED
  BY <1>2, <1>3, <1>6

\* What the frames that are kept record is what all of them record, but for the others' records.
LEMMA PassesLedger ==
    ASSUME RawTyped, Recorder(raw, heats), NEW W, Whole(W, raw, heats), NEW D, Passes(D), NEW N, N = Len(raw)
    PROVE  /\ \A key \in Keys :
                /\ key \in DOMAIN D[N].ledger <=> key \in DOMAIN W[N].ledger /\ raw[key.src.f].kept
                /\ key \in DOMAIN D[N].ledger => D[N].ledger[key] = W[N].ledger[key]
           /\ \A key \in DOMAIN W[N].ledger : key.src.f \in 1..N
           /\ (\A f \in DOMAIN raw : raw[f].kept) => D[N] = W[N]
<1>1. N \in Nat /\ N \in 0..N /\ 0 \in 0..N /\ (\A f \in 1..N : f \in 0..N /\ f - 1 \in 0..N) /\ DOMAIN raw = 1..N
  BY DEF RawTyped
<1>2. HeatTables = TablesOf(raw, heats)
  BY DEF HeatTables, TablesOf
<1>3. /\ W \in [0..N -> TablesOf(raw, heats)] /\ W[0] = Blank(heats)
      /\ \A f \in 1..N : Makes(W[f - 1], raw, heats, f, W[f])
  BY DEF Whole
<1>4. /\ D \in [0..N -> TablesOf(raw, heats)] /\ D[0] = Blank(heats)
      /\ \A f \in 1..N : /\ raw[f].kept => Makes(D[f - 1], raw, heats, f, D[f])
                         /\ ~ raw[f].kept => D[f] = D[f - 1]
  BY <1>2 DEF Passes
<1> DEFINE Left(d, w) == \A key \in Keys :
             /\ key \in DOMAIN d <=> key \in DOMAIN w /\ raw[key.src.f].kept
             /\ key \in DOMAIN d => d[key] = w[key]
           Known(w, f) == \A key \in DOMAIN w : key.src.f \in 1..f
           P(f) == Left(D[f].ledger, W[f].ledger) /\ Known(W[f].ledger, f)
           Q(f) == (\A g \in DOMAIN raw : raw[g].kept) => D[f] = W[f]
           Good == {f \in 0..N : P(f) /\ Q(f)}
<1>5. P(0) /\ Q(0)
  BY <1>3, <1>4 DEF Blank, NoRows
<1>6. ASSUME NEW f \in 1..N, P(f - 1), Q(f - 1) PROVE P(f) /\ Q(f)
  <2>1. f \in 1..Len(raw) /\ f \in Nat /\ W[f - 1] \in TablesOf(raw, heats) /\ D[f - 1] \in TablesOf(raw, heats)
    BY <1>1, <1>3, <1>4
  <2>2. PICK n : n = Len(raw[f].msgs)
    OBVIOUS
  <2>3. PICK A : FrameRun(A, raw, heats, f) /\ A[0] = W[f - 1] /\ A[n] = W[f]
    BY <1>3, <2>2 DEF Makes
  <2>4. /\ Agree(W[f - 1].ledger, W[f].ledger, Others(f))
        /\ \A key \in DOMAIN W[f].ledger : key \in DOMAIN W[f - 1].ledger \/ key.src.f = f
    <3>1. Agree(A[0].ledger, A[0].ledger, Its(f))
      BY DEF Agree
    <3> QED
      BY <2>1, <2>2, <2>3, <3>1, FrameLedger
  <2>5. Known(W[f].ledger, f)
    <3> SUFFICES ASSUME NEW key \in DOMAIN W[f].ledger PROVE key.src.f \in 1..f
      OBVIOUS
    <3>1. key.src.f \in 1..(f - 1) \/ key.src.f = f
      BY <1>6, <2>4
    <3> QED
      BY <2>1, <3>1
  <2>6. \A key \in Keys : key.src.f = f => key \notin DOMAIN W[f - 1].ledger /\ key \notin DOMAIN D[f - 1].ledger
    <3> SUFFICES ASSUME NEW key \in Keys, key.src.f = f
                 PROVE  key \notin DOMAIN W[f - 1].ledger /\ key \notin DOMAIN D[f - 1].ledger
      OBVIOUS
    <3>1. f \notin 1..(f - 1)
      BY <2>1
    <3> QED
      BY <1>6, <3>1
  <2>7. ASSUME NEW key \in Keys
        PROVE  key.src \in Its(f) \/ key.src \in Others(f)
    BY DEF Keys, Its, Others
  <2>8. CASE raw[f].kept
    <3>1. PICK B : FrameRun(B, raw, heats, f) /\ B[0] = D[f - 1] /\ B[n] = D[f]
      BY <1>4, <2>2, <2>8 DEF Makes
    <3>2. Agree(B[0].ledger, A[0].ledger, Its(f))
      BY <2>3, <2>6, <3>1 DEF Agree, Its
    <3>3. Agree(D[f].ledger, W[f].ledger, Its(f)) /\ Agree(D[f - 1].ledger, D[f].ledger, Others(f))
      BY <2>1, <2>2, <2>3, <3>1, <3>2, FrameLedger
    <3>4. Left(D[f].ledger, W[f].ledger)
      <4> SUFFICES ASSUME NEW key \in Keys
                   PROVE  /\ key \in DOMAIN D[f].ledger <=> key \in DOMAIN W[f].ledger /\ raw[key.src.f].kept
                          /\ key \in DOMAIN D[f].ledger => D[f].ledger[key] = W[f].ledger[key]
        OBVIOUS
      <4>1. CASE key.src \in Its(f)
        <5>1. key.src.f = f
          BY <4>1 DEF Its
        <5> QED
          BY <2>8, <3>3, <4>1, <5>1 DEF Agree
      <4>2. CASE key.src \in Others(f)
        BY <1>6, <2>4, <3>3, <4>2 DEF Agree
      <4> QED
        BY <2>7, <4>1, <4>2
    <3>5. Q(f)
      <4> SUFFICES ASSUME \A g \in DOMAIN raw : raw[g].kept PROVE D[f] = W[f]
        OBVIOUS
      <4>1. D[f - 1] = W[f - 1]
        BY <1>6
      <4>2. Makes(W[f - 1], raw, heats, f, D[f]) /\ Makes(W[f - 1], raw, heats, f, W[f])
        BY <1>3, <1>4, <2>8, <4>1
      <4> QED
        BY <2>1, <4>2, MakesOne
    <3> HIDE DEF Left, Known, Q
    <3> QED
      BY <2>5, <3>4, <3>5
  <2>9. CASE ~ raw[f].kept
    <3>1. D[f] = D[f - 1]
      BY <1>4, <2>9
    <3>2. Left(D[f].ledger, W[f].ledger)
      <4> SUFFICES ASSUME NEW key \in Keys
                   PROVE  /\ key \in DOMAIN D[f].ledger <=> key \in DOMAIN W[f].ledger /\ raw[key.src.f].kept
                          /\ key \in DOMAIN D[f].ledger => D[f].ledger[key] = W[f].ledger[key]
        OBVIOUS
      <4>1. CASE key.src \in Its(f)
        <5>1. key.src.f = f
          BY <4>1 DEF Its
        <5> QED
          BY <2>6, <2>9, <3>1, <5>1
      <4>2. CASE key.src \in Others(f)
        BY <1>6, <2>4, <3>1, <4>2 DEF Agree
      <4> QED
        BY <2>7, <4>1, <4>2
    <3>3. Q(f)
      BY <1>1, <2>9
    <3> HIDE DEF Left, Known, Q
    <3> QED
      BY <2>5, <3>2, <3>3
  <2> QED
    BY <2>8, <2>9
<1>7. N \in Good
  <2> HIDE DEF P, Q
  <2>1. 0 \in Good /\ \A f \in 1..N : f - 1 \in Good => f \in Good
    BY <1>1, <1>5, <1>6
  <2> HIDE DEF Good
  <2>2. 0..N \subseteq Good
    BY <1>1, <2>1, UpTo
  <2> QED
    BY <1>1, <2>2
<1> QED
  BY <1>7
-----------------------------------------------------------------------------
(* More heats: the tables of the heats so far are those of more heats, with *)
(* no rows of the others.                                                  *)

Wide(c, N) ==
    [ledger |-> c.ledger, current |-> [g \in 1..N |-> IF g <= Len(c.current) THEN c.current[g] ELSE NoRows]]

NoRowsSound == \A R : NoRows \in SoundRows(R)

\* No rows need no explanation.
LEMMA NoRowsAreSound == NoRowsSound
<1>1. NoRows \in [{} -> Row]
  BY DEF NoRows
<1> QED
  BY <1>1 DEF NoRowsSound, SoundRows, Rows

\* The tables w are c, and no rows of the heats up to the n-th.
Widens(c, w, n) ==
    /\ w.ledger = c.ledger
    /\ \A g \in 1..n : w.current[g] = IF g <= Len(c.current) THEN c.current[g] ELSE NoRows

\* Wider tables are sound, and tables of every heat are as wide as they get.
LEMMA WideSound ==
    ASSUME NEW R, NEW H \in Seq(Nat), NEW c \in AllTables(R), Len(c.current) <= Len(H), NEW w, w = Wide(c, Len(H))
    PROVE  /\ w \in TablesOf(R, H) /\ Widens(c, w, Len(H))
           /\ Len(c.current) = Len(H) => w = c
<1>1. c.ledger \in Ledgers /\ c.current \in Seq(SoundRows(R)) /\ c = [ledger |-> c.ledger, current |-> c.current]
  BY DEF AllTables
<1>2. Len(c.current) \in Nat /\ Len(H) \in Nat /\ \A g \in 1..Len(c.current) : c.current[g] \in SoundRows(R)
  BY <1>1, ElementOfSeq
<1>3. PICK cs : cs = [g \in 1..Len(H) |-> IF g <= Len(c.current) THEN c.current[g] ELSE NoRows]
  OBVIOUS
<1>4. \A g \in 1..Len(H) : cs[g] = (IF g <= Len(c.current) THEN c.current[g] ELSE NoRows) /\ cs[g] \in SoundRows(R)
  <2> SUFFICES ASSUME NEW g \in 1..Len(H)
               PROVE  cs[g] = (IF g <= Len(c.current) THEN c.current[g] ELSE NoRows) /\ cs[g] \in SoundRows(R)
    OBVIOUS
  <2>1. cs[g] = IF g <= Len(c.current) THEN c.current[g] ELSE NoRows
    BY <1>3
  <2>2. g <= Len(c.current) => g \in 1..Len(c.current)
    BY <1>2
  <2> QED
    BY <1>2, <2>1, <2>2, NoRowsAreSound DEF NoRowsSound
<1>5. cs \in [1..Len(H) -> SoundRows(R)] /\ DOMAIN cs = 1..Len(H)
  BY <1>3, <1>4
<1>6. cs \in Seq(SoundRows(R)) /\ Len(cs) = Len(H)
  BY <1>2, <1>5, IsASeq, LenProperties
<1>7. w = [ledger |-> c.ledger, current |-> cs]
  BY <1>3 DEF Wide
<1>8. w \in AllTables(R) /\ w.current = cs /\ w.ledger = c.ledger
  BY <1>1, <1>6, <1>7 DEF AllTables
<1>9. ASSUME Len(c.current) = Len(H) PROVE cs = c.current
  <2>1. \A g \in 1..Len(cs) : cs[g] = c.current[g]
    BY <1>2, <1>4, <1>6, <1>9
  <2> QED
    BY <1>1, <1>6, <1>9, <2>1, SeqEqual
<1> QED
  BY <1>1, <1>4, <1>6, <1>7, <1>8, <1>9 DEF TablesOf, Widens

\* A message goes to its heat, however many there are.
LEMMA WideProjected ==
    ASSUME NEW R, NEW H \in Seq(Nat), NEW c \in AllTables(R), Len(c.current) <= Len(H), NEW heat \in 1..Len(c.current),
           NEW src, NEW m \in Messages, Refers(R, src, m), NEW d, d = Projected(c, heat, src, m)
    PROVE  d \in AllTables(R) /\ Len(d.current) = Len(c.current) /\ Projected(Wide(c, Len(H)), heat, src, m) = Wide(d, Len(H))
<1>1. c.ledger \in Ledgers /\ c.current \in Seq(SoundRows(R))
  BY DEF AllTables
<1>2. Len(c.current) \in Nat /\ Len(H) \in Nat /\ heat \in Nat /\ heat <= Len(c.current) /\ heat \in 1..Len(H)
  BY <1>1
<1>3. d \in AllTables(R) /\ Len(d.current) = Len(c.current)
  <2>1. d \in AllTables(R) /\ SameHeats(c, d)
    BY ProjectedSound
  <2> QED
    BY <2>1 DEF SameHeats
<1>4. PICK w : w = Wide(c, Len(H))
  OBVIOUS
<1>5. w \in TablesOf(R, H) /\ w.ledger = c.ledger /\ w.current[heat] = c.current[heat]
      /\ \A g \in 1..Len(H) : w.current[g] = IF g <= Len(c.current) THEN c.current[g] ELSE NoRows
  <2>1. w \in TablesOf(R, H) /\ Widens(c, w, Len(H))
    BY <1>4, WideSound
  <2> QED
    BY <1>2, <2>1 DEF Widens
<1>6. PICK u : u = ProjectScreenMessage([ledger |-> c.ledger, rows |-> c.current[heat]], heat, src, m)
  OBVIOUS
<1>7. d = [ledger |-> u.ledger, current |-> [c.current EXCEPT ![heat] = u.rows]]
  BY <1>6 DEF Projected
<1>8. Projected(w, heat, src, m) = [ledger |-> u.ledger, current |-> [w.current EXCEPT ![heat] = u.rows]]
  BY <1>5, <1>6 DEF Projected
<1>9. DOMAIN c.current = 1..Len(c.current) /\ DOMAIN w.current = 1..Len(H) /\ DOMAIN d.current = 1..Len(c.current)
  BY <1>1, <1>3, <1>5 DEF TablesOf, AllTables
<1>10. PICK x : x = [w.current EXCEPT ![heat] = u.rows]
  OBVIOUS
<1>11. w.current = [g \in 1..Len(H) |-> w.current[g]]
  BY <1>4 DEF Wide
<1>12. x = [g \in 1..Len(H) |-> IF g <= Len(d.current) THEN d.current[g] ELSE NoRows]
  <2>1. DOMAIN x = 1..Len(H) /\ x = [g \in 1..Len(H) |-> x[g]]
    BY <1>9, <1>10
  <2>2. ASSUME NEW g \in 1..Len(H) PROVE x[g] = IF g <= Len(d.current) THEN d.current[g] ELSE NoRows
    <3>1. x[g] = IF g = heat THEN u.rows ELSE w.current[g]
      BY <1>9, <1>10
    <3>2. d.current = [c.current EXCEPT ![heat] = u.rows]
      BY <1>7
    <3>3. g <= Len(c.current) => g \in DOMAIN c.current
      BY <1>2, <1>9
    <3>4. g <= Len(c.current) => d.current[g] = IF g = heat THEN u.rows ELSE c.current[g]
      BY <3>2, <3>3
    <3> QED
      BY <1>2, <1>3, <1>5, <3>1, <3>4
  <2> QED
    BY <2>1, <2>2
<1>13. Projected(w, heat, src, m) = Wide(d, Len(H))
  <2>1. Projected(w, heat, src, m) = [ledger |-> u.ledger, current |-> x] /\ d.ledger = u.ledger
    BY <1>7, <1>8, <1>10
  <2> QED
    BY <1>12, <2>1 DEF Wide
<1> QED
  BY <1>3, <1>4, <1>13

\* The frames and heats so far are the first of Q and G, and later heats begin later.
Continued(R, H, Q, G) ==
    /\ Recorder(R, H) /\ Recorder(Q, G) /\ Len(R) <= Len(Q) /\ Len(H) <= Len(G)
    /\ \A f \in 1..Len(R) : Q[f] = R[f] /\ HeatAt(G, Q[f].at) = HeatAt(H, R[f].at)

\* What a frame made, it makes of the wider tables.
LEMMA WideMakes ==
    ASSUME NEW R, NEW H, NEW Q, NEW G, Continued(R, H, Q, G), NEW f \in 1..Len(R),
           NEW c \in TablesOf(R, H), NEW d \in TablesOf(R, H), Makes(c, R, H, f, d)
    PROVE  Makes(Wide(c, Len(G)), Q, G, f, Wide(d, Len(G)))
<1>1. /\ Recorder(R, H) /\ H \in Seq(Nat) /\ G \in Seq(Nat) /\ Len(H) <= Len(G) /\ Len(H) \in Nat
      /\ R \in Seq(Frames(Seq(Messages))) /\ Q \in Seq(Frames(Seq(Messages))) /\ Len(R) <= Len(Q)
  BY DEF Continued, Recorder
<1>2. R[f] \in Frames(Seq(Messages)) /\ f \in Nat \ {0} /\ f \in DOMAIN R /\ f \in DOMAIN Q /\ Q[f] = R[f]
  BY <1>1 DEF Continued
<1>3. PICK msgs \in Seq(Messages) : msgs = R[f].msgs /\ msgs = Q[f].msgs
  BY <1>2 DEF Frames
<1>4. PICK n \in Nat : n = Len(msgs) /\ 0 \in 0..n /\ n \in 0..n /\ \A k \in 1..n : k \in 0..n /\ k - 1 \in 0..n
  OBVIOUS
<1>5. PICK A : FrameRun(A, R, H, f) /\ A[0] = c /\ A[n] = d
  BY <1>3, <1>4 DEF Makes
<1>6. A \in [0..n -> TablesOf(R, H)] /\ \A k \in 1..n : A[k] = Turn(A[k - 1], R, H, f, k)
  BY <1>3, <1>4, <1>5 DEF FrameRun
<1>7. TablesOf(R, H) \subseteq AllTables(Q) /\ \A x \in TablesOf(R, H) : Len(x.current) = Len(H)
  <2>1. \A g \in DOMAIN R : g \in DOMAIN Q /\ Q[g].msgs = R[g].msgs
    <3> SUFFICES ASSUME NEW g \in DOMAIN R PROVE g \in DOMAIN Q /\ Q[g].msgs = R[g].msgs
      OBVIOUS
    <3>1. g \in 1..Len(R) /\ g \in 1..Len(Q) /\ DOMAIN Q = 1..Len(Q)
      BY <1>1
    <3>2. Q[g] = R[g]
      BY <3>1 DEF Continued
    <3> QED
      BY <3>1, <3>2
  <2>2. \A rows \in Seq(SoundRows(R)) : rows \in Seq(SoundRows(Q))
    BY <2>1, SoundMore
  <2> QED
    BY <2>2 DEF TablesOf, AllTables
<1> DEFINE B == [k \in 0..n |-> Wide(A[k], Len(G))]
<1>8. \A x \in TablesOf(R, H) : Wide(x, Len(G)) \in TablesOf(Q, G)
  BY <1>1, <1>7, WideSound
<1>9. B \in [0..n -> TablesOf(Q, G)]
  BY <1>6, <1>8
<1>10. PICK heat \in 1..Len(H) : heat = HeatAt(H, R[f].at) /\ heat = HeatAt(G, Q[f].at)
  BY DEF Continued, Recorder
<1>11. ASSUME NEW k \in 1..n PROVE B[k] = Turn(B[k - 1], Q, G, f, k)
  <2>1. PICK x \in TablesOf(R, H) : x = A[k - 1]
    BY <1>4, <1>6
  <2>2. B[k] = Wide(A[k], Len(G)) /\ B[k - 1] = Wide(x, Len(G)) /\ A[k] = Turn(x, R, H, f, k)
    BY <1>4, <1>6, <2>1
  <2> HIDE DEF B
  <2>3. PICK m \in Messages : m = msgs[k]
    BY <1>4, ElementOfSeq
  <2>4. PICK src : src = Source(f, k)
    OBVIOUS
  <2>5. Refers(Q, src, m)
    BY <1>2, <1>3, <1>4, <2>3, <2>4 DEF Refers, Source, Sources
  <2>6. CASE IsBoard(m)
    <3>1. A[k] = Projected(x, heat, src, m)
      BY <1>3, <1>10, <2>2, <2>3, <2>4, <2>6 DEF Turn
    <3>2. Turn(B[k - 1], Q, G, f, k) = Projected(Wide(x, Len(G)), heat, src, m)
      BY <1>3, <1>10, <2>2, <2>3, <2>4, <2>6 DEF Turn
    <3>3. x \in AllTables(Q) /\ Len(x.current) <= Len(G) /\ heat \in 1..Len(x.current)
      BY <1>1, <1>7
    <3>4. PICK y : y = Projected(x, heat, src, m)
      OBVIOUS
    <3>5. Projected(Wide(x, Len(G)), heat, src, m) = Wide(y, Len(G))
      BY <1>1, <2>5, <3>3, <3>4, WideProjected
    <3> QED
      BY <2>2, <3>1, <3>2, <3>4, <3>5
  <2>7. CASE ~IsBoard(m)
    BY <1>3, <2>2, <2>3, <2>7 DEF Turn
  <2> QED
    BY <2>6, <2>7
<1>12. B[0] = Wide(c, Len(G)) /\ B[n] = Wide(d, Len(G))
  BY <1>4, <1>5
<1> HIDE DEF B
<1>13. FrameRun(B, Q, G, f)
  BY <1>3, <1>4, <1>9, <1>11 DEF FrameRun
<1> QED
  BY <1>3, <1>4, <1>12, <1>13 DEF Makes
-----------------------------------------------------------------------------
(* The heats that a frame begins.                                           *)

\* The heats g are h, and then heats that begin at a time.
Begun(h, g, at) ==
    /\ Len(h) <= Len(g)
    /\ \A i \in 1..Len(h) : g[i] = h[i]
    /\ \A i \in 1..Len(g) : i > Len(h) => g[i] = at

\* No message of the board comes before one that begins a heat.
Ordinary(msgs) == \A j, k \in DOMAIN msgs : j < k /\ IsBoard(msgs[j]) => IsBoard(msgs[k])

\* A message of the board goes to the last heat, and any other begins one without rows.
LEMMA NormalizeBegins ==
    ASSUME NEW R, NEW a \in Accs(R), NEW m, NEW src, NEW at \in Nat, NEW b, b = Normalize(a, m, src, at)
    PROVE  /\ IsBoard(m) => b.heats = a.heats /\ b.tables = Projected(a.tables, Len(a.heats), src, m)
           /\ ~IsBoard(m) => /\ b.heats = Append(a.heats, at)
                             /\ b.tables.ledger = a.tables.ledger
                             /\ b.tables.current = Append(a.tables.current, NoRows)
<1>1. CASE IsBoard(m)
  BY <1>1 DEF Normalize
<1>2. CASE ~IsBoard(m)
  <2>1. PICK c \in AllTables(R) : c = a.tables
    BY DEF Accs
  <2>2. PICK cs : cs = Append(c.current, NoRows)
    OBVIOUS
  <2>3. PICK d : d = [c EXCEPT !.current = cs]
    OBVIOUS
  <2>4. b.tables = d /\ b.heats = Append(a.heats, at)
    BY <1>2, <2>1, <2>2, <2>3 DEF Normalize, StartNewHeat
  <2>5. d.ledger = c.ledger /\ d.current = cs
    BY <2>3 DEF AllTables
  <2> QED
    BY <1>2, <2>1, <2>2, <2>4, <2>5
<1> QED
  BY <1>1, <1>2

\* A is a run over the messages of frame id.
Normalizes(A, R, n, id, msgs) ==
    /\ n \in Nat /\ id \in Nat /\ msgs \in Seq(Messages) /\ Len(msgs) = n /\ A \in [0..n -> Accs(R)]
    /\ \A k \in 1..n : A[k] = Normalize(A[k - 1], msgs[k], Source(id, k), id)

\* The heats that a run begins begin with its frame.
LEMMA ReceiveBegins ==
    ASSUME NEW R, NEW n, NEW id, NEW msgs, NEW A, Normalizes(A, R, n, id, msgs),
           NEW h \in Seq(Nat), Begun(h, A[0].heats, id), NEW k \in 0..n
    PROVE  Begun(h, A[k].heats, id)
<1>0. /\ n \in Nat /\ id \in Nat /\ msgs \in Seq(Messages) /\ Len(msgs) = n /\ A \in [0..n -> Accs(R)]
      /\ \A i \in 1..n : A[i] = Normalize(A[i - 1], msgs[i], Source(id, i), id)
  BY DEF Normalizes
<1>1. 0 \in 0..n /\ \A i \in 1..n : i \in 0..n /\ i - 1 \in 0..n
  BY <1>0
<1> DEFINE Good == {i \in 0..n : Begun(h, A[i].heats, id)}
<1>2. 0 \in Good
  BY <1>1
<1>3. ASSUME NEW i \in 1..n, i - 1 \in Good PROVE i \in Good
  <2>1. PICK a \in Accs(R) : a = A[i - 1] /\ Begun(h, a.heats, id)
    BY <1>0, <1>1, <1>3
  <2>2. a.heats \in Seq(Nat) /\ Len(a.heats) \in Nat /\ Len(h) \in Nat
    BY DEF Accs
  <2>3. PICK b : b = Normalize(a, msgs[i], Source(id, i), id) /\ b = A[i]
    BY <1>0, <2>1
  <2>4. b.heats = a.heats \/ b.heats = Append(a.heats, id)
    BY <2>3 DEF Normalize, StartNewHeat
  <2>5. Begun(h, Append(a.heats, id), id)
    <3>0. id \in Nat
      BY <1>0
    <3>1. PICK g : g = Append(a.heats, id)
      OBVIOUS
    <3>2. Len(g) = Len(a.heats) + 1 /\ g[Len(a.heats) + 1] = id /\ \A j \in 1..Len(a.heats) : g[j] = a.heats[j]
      BY <2>2, <3>0, <3>1, AppendProperties
    <3>3. Len(h) <= Len(g) /\ \A j \in 1..Len(h) : j \in 1..Len(a.heats)
      BY <2>1, <2>2, <3>2 DEF Begun
    <3>4. \A j \in 1..Len(h) : g[j] = h[j]
      BY <2>1, <3>2, <3>3 DEF Begun
    <3>5. ASSUME NEW j \in 1..Len(g), j > Len(h) PROVE g[j] = id
      <4>1. j \in 1..Len(a.heats) \/ j = Len(a.heats) + 1
        BY <2>2, <3>2
      <4> QED
        BY <2>1, <3>2, <3>5, <4>1 DEF Begun
    <3> QED
      BY <3>1, <3>3, <3>4, <3>5 DEF Begun
  <2>6. Begun(h, b.heats, id)
    BY <2>1, <2>4, <2>5
  <2> QED
    BY <1>1, <2>3, <2>6
<1>4. 0..n \subseteq Good
  <2> HIDE DEF Good
  <2> QED
    BY <1>0, <1>2, <1>3, UpTo
<1> QED
  BY <1>4

\* When a message of the board comes, every heat of an ordinary frame has begun.
LEMMA ReceiveSettled ==
    ASSUME NEW R, NEW n, NEW id, NEW msgs, NEW A, Normalizes(A, R, n, id, msgs), Ordinary(msgs),
           NEW k \in 1..n, IsBoard(msgs[k])
    PROVE  A[k - 1].heats = A[n].heats
<1>0. /\ n \in Nat /\ id \in Nat /\ msgs \in Seq(Messages) /\ Len(msgs) = n /\ A \in [0..n -> Accs(R)]
      /\ \A i \in 1..n : A[i] = Normalize(A[i - 1], msgs[i], Source(id, i), id)
  BY DEF Normalizes
<1>1. 0 \in 0..n /\ n \in 0..n /\ k \in Nat /\ k - 1 \in Nat /\ k <= n /\ \A i \in 1..n : i \in 0..n /\ i - 1 \in 0..n
  BY <1>0
<1> DEFINE Good == {i \in 0..n : i >= k - 1 => A[i].heats = A[k - 1].heats}
<1>2. 0 \in Good
  <2>1. 0 >= k - 1 => 0 = k - 1
    BY <1>1
  <2> QED
    BY <1>1, <2>1
<1>3. ASSUME NEW i \in 1..n, i - 1 \in Good PROVE i \in Good
  <2> SUFFICES ASSUME i >= k - 1 PROVE A[i].heats = A[k - 1].heats
    BY <1>1
  <2>1. CASE i = k - 1
    BY <2>1
  <2>2. CASE i # k - 1
    <3>1. i >= k /\ i - 1 >= k - 1
      BY <1>1, <2>2
    <3>2. A[i - 1].heats = A[k - 1].heats
      BY <1>3, <3>1
    <3>3. IsBoard(msgs[i])
      <4>1. DOMAIN msgs = 1..n /\ (i = k \/ k < i)
        BY <1>0, <1>1, <3>1
      <4> QED
        BY <4>1 DEF Ordinary
    <3>4. PICK a \in Accs(R) : a = A[i - 1]
      BY <1>0, <1>1
    <3>5. PICK b : b = Normalize(a, msgs[i], Source(id, i), id) /\ b = A[i]
      BY <1>0, <3>4
    <3>6. b.heats = a.heats
      BY <3>3, <3>5 DEF Normalize
    <3> QED
      BY <3>2, <3>4, <3>5, <3>6
  <2> QED
    BY <2>1, <2>2
<1>4. 0..n \subseteq Good
  <2> HIDE DEF Good
  <2> QED
    BY <1>0, <1>2, <1>3, UpTo
<1> QED
  BY <1>1, <1>4

\* The heats that begin with a frame are not those of the frames before, and its own are all of them.
LEMMA HeatAtBegun ==
    ASSUME NEW h \in Seq(Nat), NEW g \in Seq(Nat), NEW id \in Nat, Begun(h, g, id),
           \A i \in 1..Len(h) : h[i] <= id
    PROVE  /\ \A at \in Nat : at < id => HeatAt(g, at) = HeatAt(h, at)
           /\ HeatAt(g, id) = Len(g)
<1>1. Len(h) \in Nat /\ Len(g) \in Nat /\ DOMAIN h = 1..Len(h) /\ DOMAIN g = 1..Len(g)
      /\ \A i \in 1..Len(g) : g[i] \in Nat
  OBVIOUS
<1>2. ASSUME NEW at \in Nat, at < id PROVE HeatAt(g, at) = HeatAt(h, at)
  <2>1. {i \in DOMAIN g : g[i] <= at} = {i \in DOMAIN h : h[i] <= at}
    <3>1. ASSUME NEW i \in 1..Len(g), g[i] <= at PROVE i \in 1..Len(h)
      <4>1. g[i] # id
        BY <1>1, <1>2, <3>1
      <4>2. ~(i > Len(h))
        BY <3>1, <4>1 DEF Begun
      <4> QED
        BY <1>1, <4>2
    <3>2. \A i \in 1..Len(h) : i \in 1..Len(g) /\ g[i] = h[i]
      BY <1>1 DEF Begun
    <3> QED
      BY <1>1, <3>1, <3>2
  <2> QED
    BY <2>1 DEF HeatAt
<1>3. HeatAt(g, id) = Len(g)
  <2>1. \A i \in 1..Len(g) : g[i] <= id
    <3> SUFFICES ASSUME NEW i \in 1..Len(g) PROVE g[i] <= id
      OBVIOUS
    <3>1. CASE i > Len(h)
      BY <1>1, <3>1 DEF Begun
    <3>2. CASE ~(i > Len(h))
      <4>1. i \in 1..Len(h)
        BY <1>1, <3>2
      <4> QED
        BY <4>1 DEF Begun
    <3> QED
      BY <3>1, <3>2
  <2> DEFINE T == {0} \cup {i \in DOMAIN g : g[i] <= id}
  <2>2. T = 0..Len(g)
    BY <1>1, <2>1
  <2>3. HeatAt(g, id) = Max(T)
    BY DEF HeatAt
  <2> HIDE DEF T
  <2>4. T \in SUBSET (0..Len(g)) /\ T # {} /\ Len(g) \in T /\ 0 \in T
    BY <1>1, <2>2
  <2>5. Max(T) \in T /\ \A x \in T : x <= Max(T)
    BY <1>1, <2>4, MaxBounded
  <2>6. Len(g) <= Max(T) /\ Max(T) \in 0..Len(g)
    BY <2>2, <2>4, <2>5
  <2> QED
    BY <1>1, <2>3, <2>6
<1> QED
  BY <1>2, <1>3

-----------------------------------------------------------------------------
(* The invariant: what the worker wrote is what the frames make, one after  *)
(* another, of the heats there are now.                                     *)

\* Frame f is received at f, and a heat begins with the frame that is received then.
Timed(R, H) ==
    /\ R \in Seq(Frames(Seq(Messages))) /\ H \in Seq(Nat)
    /\ \A f \in 1..Len(R) : R[f].at = f
    /\ \A g \in 1..Len(H) : H[g] <= Len(R)
    /\ Len(H) = 0 <=> Len(R) = 0
    /\ Len(H) # 0 => H[1] = 1

\* Every frame has its heat.
LEMMA TimedRecorder ==
    ASSUME NEW R, NEW H, Timed(R, H)
    PROVE  Recorder(R, H)
<1> SUFFICES ASSUME NEW f \in 1..Len(R) PROVE HeatAt(H, R[f].at) \in 1..Len(H)
  BY DEF Timed, Recorder
<1>1. Len(R) \in Nat /\ Len(H) \in Nat /\ DOMAIN H = 1..Len(H) /\ R[f].at = f /\ f \in Nat /\ 1 <= f
  BY DEF Timed
<1>2. Len(H) # 0 /\ H[1] = 1 /\ 1 \in 1..Len(H)
  BY <1>1 DEF Timed
<1> DEFINE T == {0} \cup {g \in DOMAIN H : H[g] <= f}
<1>3. T \in SUBSET (0..Len(H)) /\ T # {} /\ 1 \in T
  BY <1>1, <1>2
<1>4. HeatAt(H, R[f].at) = Max(T)
  BY <1>1 DEF HeatAt
<1> HIDE DEF T
<1>5. Max(T) \in 0..Len(H) /\ 1 <= Max(T)
  BY <1>1, <1>3, MaxBounded
<1> QED
  BY <1>1, <1>4, <1>5

\* Every record is of a frame there is.
LEMMA WholeRecords ==
    ASSUME NEW R, NEW H, Recorder(R, H), NEW W, Whole(W, R, H), NEW N, N = Len(R)
    PROVE  \A key \in DOMAIN W[N].ledger : key.src.f \in 1..N
<1>1. N \in Nat /\ N \in 0..N /\ 0 \in 0..N /\ \A f \in 1..N : f \in 0..N /\ f - 1 \in 0..N
  BY DEF Recorder
<1>2. /\ W \in [0..N -> TablesOf(R, H)] /\ W[0] = Blank(H)
      /\ \A f \in 1..N : Makes(W[f - 1], R, H, f, W[f])
  BY DEF Whole
<1> DEFINE Good == {f \in 0..N : \A key \in DOMAIN W[f].ledger : key.src.f \in 1..f}
<1>3. 0 \in Good
  BY <1>1, <1>2 DEF Blank, NoRows
<1>4. ASSUME NEW f \in 1..N, f - 1 \in Good PROVE f \in Good
  <2>1. PICK n : n = Len(R[f].msgs)
    OBVIOUS
  <2>2. PICK A : FrameRun(A, R, H, f) /\ A[0] = W[f - 1] /\ A[n] = W[f]
    BY <1>2, <2>1 DEF Makes
  <2>3. \A key \in DOMAIN W[f].ledger : key \in DOMAIN W[f - 1].ledger \/ key.src.f = f
    <3>1. Agree(A[0].ledger, A[0].ledger, Its(f))
      BY DEF Agree
    <3> QED
      BY <2>1, <2>2, <3>1, FrameLedger
  <2>4. ASSUME NEW key \in DOMAIN W[f].ledger PROVE key.src.f \in 1..f
    <3>1. key.src.f \in 1..(f - 1) \/ key.src.f = f
      BY <1>4, <2>3
    <3> QED
      BY <1>1, <3>1
  <2> QED
    BY <1>1, <2>4
<1> HIDE DEF Good
<1>5. 0..N \subseteq Good
  BY <1>1, <1>3, <1>4, UpTo
<1> QED
  BY <1>1, <1>5 DEF Good

\* No rows of some heats are no rows of more.
LEMMA WideBlank ==
    ASSUME NEW H \in Seq(Nat), NEW G \in Seq(Nat)
    PROVE  Wide(Blank(H), Len(G)) = Blank(G)
<1>1. PICK cs : cs = [g \in 1..Len(H) |-> NoRows]
  OBVIOUS
<1>2. Len(H) \in Nat /\ Len(G) \in Nat
  OBVIOUS
<1>3. Len(cs) = Len(H)
  <2>1. PICK n \in Nat : n = Len(H)
    BY <1>2
  <2>2. PICK none : none = NoRows
    OBVIOUS
  <2>3. cs = [g \in 1..n |-> none]
    BY <1>1, <2>1, <2>2
  <2>4. cs \in Seq({none})
    <3>1. \A g \in 1..n : none \in {none}
      OBVIOUS
    <3>2. [g \in 1..n |-> none] \in Seq({none})
      BY <3>1, IsASeq
    <3> QED
      BY <2>3, <3>2
  <2>5. DOMAIN cs = 1..n
    BY <2>3
  <2>6. Len(cs) = n
    BY <2>1, <2>4, <2>5, LenProperties
  <2> QED
    BY <2>1, <2>6
<1>4. Blank(H).current = cs /\ Blank(H).ledger = NoRows
  BY <1>1 DEF Blank
<1>5. \A g \in 1..Len(G) : (IF g <= Len(cs) THEN cs[g] ELSE NoRows) = NoRows
  BY <1>1, <1>2, <1>3
<1> QED
  BY <1>4, <1>5 DEF Wide, Blank

\* A heat without rows changes nothing of wider tables.
LEMMA WideAppend ==
    ASSUME NEW R, NEW c \in AllTables(R), NEW d, d.ledger = c.ledger, d.current = Append(c.current, NoRows), NEW N \in Nat
    PROVE  Wide(d, N) = Wide(c, N)
<1>1. c.current \in Seq(SoundRows(R)) /\ Len(c.current) \in Nat
  BY DEF AllTables
<1>2. PICK ds : ds = d.current
  OBVIOUS
<1>3. Len(ds) = Len(c.current) + 1 /\ ds[Len(c.current) + 1] = NoRows /\ \A g \in 1..Len(c.current) : ds[g] = c.current[g]
  <2>1. NoRows \in SoundRows(R)
    BY NoRowsAreSound DEF NoRowsSound
  <2> QED
    BY <1>1, <1>2, <2>1, AppendProperties
<1>4. ASSUME NEW g \in 1..N
      PROVE  (IF g <= Len(ds) THEN ds[g] ELSE NoRows) = IF g <= Len(c.current) THEN c.current[g] ELSE NoRows
  <2>1. CASE g <= Len(c.current)
    <3>1. g \in 1..Len(c.current) /\ g <= Len(ds)
      BY <1>1, <1>3, <2>1
    <3> QED
      BY <1>3, <2>1, <3>1
  <2>2. CASE ~(g <= Len(c.current))
    <3>1. g <= Len(ds) => g = Len(c.current) + 1
      BY <1>1, <1>3, <2>2
    <3> QED
      BY <1>3, <2>2, <3>1
  <2> QED
    BY <2>1, <2>2
<1> QED
  BY <1>2, <1>4 DEF Wide

\* A frame's heats only become more.
LEMMA ReceiveGrows ==
    ASSUME NEW R, NEW n, NEW id, NEW msgs, NEW A, Normalizes(A, R, n, id, msgs),
           NEW k \in 0..n
    PROVE  Len(A[k].heats) <= Len(A[n].heats)
<1>0. /\ n \in Nat /\ id \in Nat /\ msgs \in Seq(Messages) /\ Len(msgs) = n /\ A \in [0..n -> Accs(R)]
      /\ \A i \in 1..n : A[i] = Normalize(A[i - 1], msgs[i], Source(id, i), id)
  BY DEF Normalizes
<1>1. 0 \in 0..n /\ n \in 0..n /\ \A i \in 1..n : i \in 0..n /\ i - 1 \in 0..n
  BY <1>0
<1>2. \A i \in 0..n : Len(A[i].heats) \in Nat
  BY <1>0 DEF Accs
<1> DEFINE Good == {i \in 0..n : \A j \in 0..i : Len(A[j].heats) <= Len(A[i].heats)}
<1>3. 0 \in Good
  <2>1. \A j \in 0..0 : j = 0
    OBVIOUS
  <2> QED
    BY <1>1, <1>2, <2>1
<1>4. ASSUME NEW i \in 1..n, i - 1 \in Good PROVE i \in Good
  <2>1. PICK a \in Accs(R) : a = A[i - 1]
    BY <1>0, <1>1
  <2>2. PICK b : b = Normalize(a, msgs[i], Source(id, i), id) /\ b = A[i]
    BY <1>0, <2>1
  <2>3. b.heats = a.heats \/ b.heats = Append(a.heats, id)
    BY <2>2 DEF Normalize, StartNewHeat
  <2>4. Len(A[i - 1].heats) <= Len(A[i].heats)
    <3>1. a.heats \in Seq(Nat) /\ Len(a.heats) \in Nat
      BY DEF Accs
    <3>2. Len(b.heats) = Len(a.heats) \/ Len(b.heats) = Len(a.heats) + 1
      BY <1>0, <2>3, <3>1, AppendProperties
    <3> QED
      BY <2>1, <2>2, <3>1, <3>2
  <2>5. ASSUME NEW j \in 0..i PROVE Len(A[j].heats) <= Len(A[i].heats)
    <3>1. CASE j = i
      BY <1>1, <1>2, <3>1
    <3>2. CASE j # i
      <4>1. j \in 0..(i - 1) /\ j \in 0..n /\ i - 1 \in 0..n /\ i \in 0..n
        BY <1>0, <1>1, <3>2
      <4>2. Len(A[j].heats) <= Len(A[i - 1].heats)
        BY <1>4, <4>1
      <4>3. Len(A[j].heats) \in Nat /\ Len(A[i - 1].heats) \in Nat /\ Len(A[i].heats) \in Nat
        BY <1>2, <4>1
      <4>4. PICK x \in Nat : x = Len(A[j].heats)
        BY <4>3
      <4>5. PICK y \in Nat : y = Len(A[i - 1].heats)
        BY <4>3
      <4>6. PICK z \in Nat : z = Len(A[i].heats)
        BY <4>3
      <4>7. y <= z
        BY <2>4, <4>5, <4>6
      <4>8. x <= y
        BY <4>2, <4>4, <4>5
      <4>9. x <= z
        BY <4>7, <4>8
      <4> QED
        BY <4>4, <4>6, <4>9
    <3> QED
      BY <3>1, <3>2
  <2> QED
    BY <1>1, <2>5
<1> HIDE DEF Good
<1>5. 0..n \subseteq Good
  BY <1>0, <1>1, <1>3, <1>4, UpTo
<1> QED
  BY <1>0, <1>1, <1>5 DEF Good

\* A frame that was received makes, of the tables before it, what the worker made: the
\* heats it began are there already, and none of its messages was for an earlier one.
LEMMA ReceiveMakes ==
    ASSUME NEW R, NEW n, NEW id, NEW msgs, NEW A, Normalizes(A, R, n, id, msgs), Ordinary(msgs), id # 0,
           R \in Seq(Frames(Seq(Messages))), id \in DOMAIN R, R[id].msgs = msgs, R[id].at = id,
           NEW G \in Seq(Nat), G = A[n].heats, HeatAt(G, id) = Len(G)
    PROVE  /\ Makes(Wide(A[0].tables, Len(G)), R, G, id, A[n].tables)
           /\ A[n].tables \in TablesOf(R, G) /\ Wide(A[0].tables, Len(G)) \in TablesOf(R, G)
<1>0. /\ n \in Nat /\ id \in Nat /\ msgs \in Seq(Messages) /\ Len(msgs) = n /\ A \in [0..n -> Accs(R)]
      /\ \A i \in 1..n : A[i] = Normalize(A[i - 1], msgs[i], Source(id, i), id)
  BY DEF Normalizes
<1>1. 0 \in 0..n /\ n \in 0..n /\ \A k \in 1..n : k \in 0..n /\ k - 1 \in 0..n /\ k \in Nat
  BY <1>0
<1>2. ASSUME NEW k \in 0..n
      PROVE  /\ A[k].tables \in AllTables(R) /\ Len(A[k].tables.current) = Len(A[k].heats)
             /\ Len(A[k].tables.current) <= Len(G) /\ Len(A[k].heats) # 0
  <2>1. A[k] \in Accs(R)
    BY <1>0
  <2>2. Len(A[k].heats) <= Len(A[n].heats)
    BY ReceiveGrows
  <2> QED
    BY <2>1, <2>2 DEF Accs
<1> DEFINE B == [k \in 0..n |-> Wide(A[k].tables, Len(G))]
<1>3. \A k \in 0..n : Wide(A[k].tables, Len(G)) \in TablesOf(R, G)
  BY <1>2, WideSound
<1>4. B \in [0..n -> TablesOf(R, G)]
  BY <1>3
<1>5. B[0] = Wide(A[0].tables, Len(G)) /\ B[n] = A[n].tables
  <2>1. PICK c \in AllTables(R) : c = A[n].tables /\ Len(c.current) = Len(G)
    BY <1>1, <1>2
  <2>2. PICK w : w = Wide(c, Len(G))
    OBVIOUS
  <2>3. w = c
    <3>1. Len(c.current) <= Len(G)
      BY <2>1
    <3>2. Len(c.current) = Len(G)
      BY <2>1
    <3> QED
      BY ONLY <2>2, <3>1, <3>2, c \in AllTables(R), G \in Seq(Nat), WideSound
  <2> QED
    BY <1>1, <2>1, <2>2, <2>3
<1>6. \A k \in 1..n : B[k] = Wide(A[k].tables, Len(G)) /\ B[k - 1] = Wide(A[k - 1].tables, Len(G))
  BY <1>1
<1> HIDE DEF B
<1>7. ASSUME NEW k \in 1..n PROVE B[k] = Turn(B[k - 1], R, G, id, k)
  <2>1. PICK m \in Messages : m = msgs[k]
    BY <1>0, ElementOfSeq
  <2>2. PICK src : src = Source(id, k)
    OBVIOUS
  <2>3. Refers(R, src, m)
    BY <1>0, <1>1, <2>1, <2>2 DEF Refers, Source, Sources
  <2>4. PICK a \in Accs(R) : a = A[k - 1]
    BY <1>0, <1>1
  <2>5. PICK b \in Accs(R) : b = A[k]
    BY <1>0, <1>1
  <2>6. b = Normalize(a, m, src, id)
    BY <1>0, <2>1, <2>2, <2>4, <2>5
  <2>7. a.tables \in AllTables(R) /\ Len(a.tables.current) = Len(a.heats) /\ Len(a.tables.current) <= Len(G) /\ Len(a.heats) # 0
    BY <1>1, <1>2, <2>4
  <2>8. PICK c \in AllTables(R) : c = a.tables /\ Len(c.current) \in Nat
    BY <2>7 DEF AllTables
  <2>9. CASE IsBoard(m)
    <3>1. a.heats = G
      <4>1. IsBoard(msgs[k])
        BY <2>1, <2>9
      <4>2. A[k - 1].heats = A[n].heats
        BY <4>1, ReceiveSettled
      <4> QED
        BY <2>4, <4>2
    <3>2. PICK heat \in 1..Len(c.current) : heat = Len(G)
      BY <2>7, <2>8, <3>1
    <3>3. PICK d : d = Projected(c, heat, src, m)
      OBVIOUS
    <3>4. b.tables = d
      BY <2>6, <2>8, <2>9, <3>1, <3>2, <3>3 DEF Normalize
    <3>5. Projected(Wide(c, Len(G)), heat, src, m) = Wide(d, Len(G))
      <4>1. Len(c.current) <= Len(G)
        BY <2>7, <2>8
      <4> QED
        BY <2>3, <3>3, <4>1, WideProjected
    <3>6. Turn(B[k - 1], R, G, id, k) = Projected(Wide(c, Len(G)), heat, src, m)
      BY <1>6, <2>1, <2>2, <2>4, <2>8, <2>9, <3>2 DEF Turn
    <3> QED
      BY <1>6, <2>5, <3>4, <3>5, <3>6
  <2>10. CASE ~IsBoard(m)
    <3>1. b.tables.ledger = c.ledger /\ b.tables.current = Append(c.current, NoRows)
      BY <1>0, <2>6, <2>8, <2>10, NormalizeBegins
    <3>2. PICK d : d = b.tables
      OBVIOUS
    <3>3. Wide(d, Len(G)) = Wide(c, Len(G))
      <4>1. d.ledger = c.ledger /\ d.current = Append(c.current, NoRows) /\ Len(G) \in Nat
        BY <3>1, <3>2
      <4> QED
        BY <4>1, WideAppend
    <3>4. Turn(B[k - 1], R, G, id, k) = B[k - 1]
      BY <2>1, <2>10 DEF Turn
    <3> QED
      BY <1>6, <2>4, <2>5, <2>8, <3>2, <3>3, <3>4
  <2> QED
    BY <2>9, <2>10
<1>8. FrameRun(B, R, G, id)
  BY <1>0, <1>4, <1>7 DEF FrameRun
<1>9. A[n].tables \in TablesOf(R, G) /\ Wide(A[0].tables, Len(G)) \in TablesOf(R, G)
  BY <1>1, <1>4, <1>5
<1>10. Makes(Wide(A[0].tables, Len(G)), R, G, id, A[n].tables)
  BY <1>0, <1>5, <1>8 DEF Makes
<1> QED
  BY <1>9, <1>10

\* The frames Q and heats G are R and H after frame id with the messages msgs, of the run A.
Received(R, H, Q, G, A, n, id, msgs) ==
    /\ Timed(R, H) /\ id = Len(R) + 1 /\ Normalizes(A, Q, n, id, msgs) /\ G = A[n].heats
    /\ Q \in Seq(Frames(Seq(Messages))) /\ Len(Q) = id /\ \A f \in 1..Len(R) : Q[f] = R[f]
    /\ Q[id].msgs = msgs /\ Q[id].at = id /\ Begun(H, A[0].heats, id)

\* A frame is received at its number, and so begin the heats it begins.
LEMMA ReceiveTimed ==
    ASSUME NEW R, NEW H, NEW Q, NEW G, NEW A, NEW n, NEW id, NEW msgs, Received(R, H, Q, G, A, n, id, msgs)
    PROVE  Timed(Q, G) /\ Begun(H, G, id)
<1>0. /\ Timed(R, H) /\ id = Len(R) + 1 /\ Normalizes(A, Q, n, id, msgs) /\ G = A[n].heats
      /\ Q \in Seq(Frames(Seq(Messages))) /\ Len(Q) = id /\ \A f \in 1..Len(R) : Q[f] = R[f]
      /\ Q[id].at = id /\ Begun(H, A[0].heats, id)
  BY DEF Received
<1> USE <1>0
<1>1. /\ R \in Seq(Frames(Seq(Messages))) /\ H \in Seq(Nat) /\ Len(R) \in Nat /\ Len(H) \in Nat /\ id \in Nat /\ id # 0
      /\ \A f \in 1..Len(R) : R[f].at = f
      /\ \A g \in 1..Len(H) : H[g] <= Len(R)
      /\ Len(H) = 0 <=> Len(R) = 0
      /\ Len(H) # 0 => H[1] = 1
  BY DEF Timed
<1>2. n \in Nat /\ n \in 0..n /\ 0 \in 0..n
  BY DEF Normalizes
<1>3. G \in Seq(Nat) /\ Len(G) \in Nat /\ Len(G) # 0
  BY <1>2 DEF Normalizes, Accs
<1>4. Begun(H, G, id)
  BY <1>1, <1>2, ReceiveBegins
<1>5. Len(H) <= Len(G) /\ (\A g \in 1..Len(H) : G[g] = H[g]) /\ \A g \in 1..Len(G) : g > Len(H) => G[g] = id
  BY <1>4 DEF Begun
<1>6. Timed(Q, G)
  <2>1. ASSUME NEW f \in 1..Len(Q) PROVE Q[f].at = f
    <3>1. f = id \/ f \in 1..Len(R)
      BY <1>1
    <3> QED
      BY <1>1, <3>1
  <2>2. ASSUME NEW g \in 1..Len(G) PROVE G[g] <= Len(Q)
    <3>1. CASE g > Len(H)
      BY <1>1, <1>5, <3>1
    <3>2. CASE ~(g > Len(H))
      <4>1. g \in 1..Len(H)
        BY <1>1, <1>3, <3>2
      <4>2. G[g] = H[g] /\ H[g] <= Len(R) /\ H[g] \in Nat
        BY <1>1, <1>5, <4>1, ElementOfSeq
      <4> QED
        BY <1>1, <4>2
    <3> QED
      BY <3>1, <3>2
  <2>3. G[1] = 1
    <3>1. CASE Len(H) = 0
      <4>1. id = 1 /\ 1 > Len(H) /\ 1 \in 1..Len(G)
        BY <1>1, <1>3, <3>1
      <4> QED
        BY <1>5, <4>1
    <3>2. CASE Len(H) # 0
      <4>1. 1 \in 1..Len(H)
        BY <1>1, <3>2
      <4> QED
        BY <1>1, <1>5, <3>2, <4>1
    <3> QED
      BY <3>1, <3>2
  <2> QED
    BY <1>1, <1>3, <2>1, <2>2, <2>3 DEF Timed
<1> QED
  BY <1>4, <1>6

\* When every frame is there, one more frame adds what the worker made of it.
LEMMA ReceiveWhole ==
    ASSUME NEW R, NEW H, NEW Q, NEW G, NEW A, NEW n, NEW id, NEW msgs, Received(R, H, Q, G, A, n, id, msgs),
           Ordinary(msgs), NEW W, Whole(W, R, H), Wide(W[Len(R)], Len(G)) = Wide(A[0].tables, Len(G))
    PROVE  \E V : Whole(V, Q, G) /\ V[id] = A[n].tables
<1>0. /\ Timed(R, H) /\ id = Len(R) + 1 /\ Normalizes(A, Q, n, id, msgs) /\ G = A[n].heats
      /\ Q \in Seq(Frames(Seq(Messages))) /\ Len(Q) = id /\ \A f \in 1..Len(R) : Q[f] = R[f]
      /\ Q[id].msgs = msgs /\ Q[id].at = id /\ Begun(H, A[0].heats, id)
  BY DEF Received
<1> USE <1>0
<1>1. /\ R \in Seq(Frames(Seq(Messages))) /\ H \in Seq(Nat) /\ Len(R) \in Nat /\ Len(H) \in Nat /\ id \in Nat /\ id # 0
      /\ \A f \in 1..Len(R) : R[f].at = f
      /\ \A g \in 1..Len(H) : H[g] <= Len(R)
      /\ Len(H) = 0 <=> Len(R) = 0
      /\ Len(H) # 0 => H[1] = 1
  BY DEF Timed
<1>2. n \in Nat /\ n \in 0..n /\ 0 \in 0..n
  BY DEF Normalizes
<1>3. G \in Seq(Nat) /\ Len(G) \in Nat /\ Len(G) # 0
  BY <1>2 DEF Normalizes, Accs
<1>4. Timed(Q, G) /\ Begun(H, G, id)
  BY ReceiveTimed
<1>5. Len(H) <= Len(G)
  BY <1>4 DEF Begun
<1>6. (\A at \in Nat : at < id => HeatAt(G, at) = HeatAt(H, at)) /\ HeatAt(G, id) = Len(G)
  <2>1. \A i \in 1..Len(H) : H[i] <= id
    <3> SUFFICES ASSUME NEW i \in 1..Len(H) PROVE H[i] <= id
      OBVIOUS
    <3>1. H[i] \in Nat /\ H[i] <= Len(R)
      BY <1>1, ElementOfSeq
    <3> QED
      BY <1>1, <3>1
  <2>2. PICK now \in Nat : now = id
    BY <1>1
  <2>3. Begun(H, G, now) /\ \A i \in 1..Len(H) : H[i] <= now
    BY <1>4, <2>1, <2>2
  <2>4. H \in Seq(Nat) /\ G \in Seq(Nat)
    BY <1>1, <1>3
  <2> HIDE <1>0
  <2>5. (\A at \in Nat : at < now => HeatAt(G, at) = HeatAt(H, at)) /\ HeatAt(G, now) = Len(G)
    BY <2>3, <2>4, HeatAtBegun
  <2> QED
    BY <2>2, <2>5
<1>7. Recorder(R, H) /\ Recorder(Q, G)
  BY <1>4, TimedRecorder
<1>8. Continued(R, H, Q, G)
  <2>1. ASSUME NEW f \in 1..Len(R) PROVE Q[f] = R[f] /\ HeatAt(G, Q[f].at) = HeatAt(H, R[f].at)
    <3>1. Q[f] = R[f] /\ R[f].at = f /\ f \in Nat /\ f < id
      BY <1>1
    <3> QED
      BY <1>6, <3>1
  <2> QED
    BY <1>1, <1>5, <1>7, <2>1 DEF Continued
<1>9. /\ W \in [0..Len(R) -> TablesOf(R, H)] /\ W[0] = Blank(H)
       /\ \A f \in 1..Len(R) : Makes(W[f - 1], R, H, f, W[f])
  BY DEF Whole
<1>10. /\ Makes(Wide(A[0].tables, Len(G)), Q, G, id, A[n].tables)
       /\ A[n].tables \in TablesOf(Q, G) /\ Wide(A[0].tables, Len(G)) \in TablesOf(Q, G)
  <2>1. id \in DOMAIN Q
    BY <1>1
  <2> QED
    BY <1>1, <1>3, <1>6, <2>1, ReceiveMakes
<1> DEFINE V == [f \in 0..id |-> IF f = id THEN A[n].tables ELSE Wide(W[f], Len(G))]
<1>11. V[id] = A[n].tables /\ \A f \in 0..Len(R) : V[f] = Wide(W[f], Len(G))
  <2>1. id \in 0..id /\ \A f \in 0..Len(R) : f \in 0..id /\ f # id
    BY <1>1
  <2> QED
    BY <2>1
<1>12. \A f \in 0..Len(R) : Wide(W[f], Len(G)) \in TablesOf(Q, G)
  <2> SUFFICES ASSUME NEW f \in 0..Len(R) PROVE Wide(W[f], Len(G)) \in TablesOf(Q, G)
    OBVIOUS
  <2>1. PICK c \in AllTables(R) : c = W[f] /\ Len(c.current) = Len(H)
    BY <1>9 DEF TablesOf
  <2>2. c \in AllTables(Q)
    <3>1. \A g \in DOMAIN R : g \in DOMAIN Q /\ Q[g].msgs = R[g].msgs
      BY <1>1
    <3>2. c.current \in Seq(SoundRows(Q))
      BY <3>1, SoundMore DEF AllTables
    <3> QED
      BY <3>2 DEF AllTables
  <2>3. PICK w : w = Wide(c, Len(G))
    OBVIOUS
  <2>4. Len(c.current) <= Len(G)
    BY <1>5, <2>1
  <2>5. w \in TablesOf(Q, G)
    BY ONLY <1>3, <2>2, <2>3, <2>4, WideSound
  <2> QED
    BY <2>1, <2>3, <2>5
<1>13. V \in [0..id -> TablesOf(Q, G)]
  <2> SUFFICES ASSUME NEW f \in 0..id PROVE (IF f = id THEN A[n].tables ELSE Wide(W[f], Len(G))) \in TablesOf(Q, G)
    OBVIOUS
  <2>1. f # id => f \in 0..Len(R)
    BY <1>1
  <2> QED
    BY <1>10, <1>12, <2>1
<1> HIDE DEF V
<1>14. V[0] = Blank(G)
  <2>1. Wide(Blank(H), Len(G)) = Blank(G)
    BY <1>1, <1>3, WideBlank
  <2>2. 0 \in 0..Len(R)
    BY <1>1
  <2> QED
    BY <1>9, <1>11, <2>1, <2>2
<1>15. ASSUME NEW f \in 1..id PROVE Makes(V[f - 1], Q, G, f, V[f])
  <2>1. CASE f = id
    <3>1. f - 1 = Len(R) /\ Len(R) \in 0..Len(R)
      BY <1>1, <2>1
    <3>2. V[f - 1] = Wide(A[0].tables, Len(G))
      BY <1>11, <3>1
    <3> QED
      BY <1>10, <1>11, <2>1, <3>2
  <2>2. CASE f # id
    <3>1. f \in 1..Len(R) /\ f \in 0..Len(R) /\ f - 1 \in 0..Len(R)
      BY <1>1, <2>2
    <3>2. PICK c \in TablesOf(R, H) : c = W[f - 1] /\ V[f - 1] = Wide(c, Len(G))
      BY <1>9, <1>11, <3>1
    <3>3. PICK d \in TablesOf(R, H) : d = W[f] /\ V[f] = Wide(d, Len(G))
      BY <1>9, <1>11, <3>1
    <3>4. Makes(c, R, H, f, d)
      BY <1>9, <3>1, <3>2, <3>3
    <3>5. Makes(Wide(c, Len(G)), Q, G, f, Wide(d, Len(G)))
      BY <1>8, <3>1, <3>4, WideMakes
    <3> QED
      BY <3>2, <3>3, <3>5
  <2> QED
    BY <2>1, <2>2
<1>16. Whole(V, Q, G)
  BY <1>13, <1>14, <1>15 DEF Whole
<1> QED
  BY <1>11, <1>16

\* The ledger holds what l does of the frames that are kept.
LeftOf(l) ==
    \A key \in Keys : /\ key \in DOMAIN ledger <=> key \in DOMAIN l /\ raw[key.src.f].kept
                      /\ key \in DOMAIN ledger => ledger[key] = l[key]

\* The worker wrote what the frames make, one after another.
Repeats(W) ==
    /\ Whole(W, raw, heats)
    /\ LeftOf(W[Len(raw)].ledger)
    /\ floor.frame = 0 => current = W[Len(raw)].current

\* The frames and heats are timed, only a stopped session is covered, and the tables are
\* what the frames make unless one of them began a heat late.
RepeatInv ==
    /\ covered => stopped
    /\ Timed(raw, heats)
    /\ ~Mixed => \E W : Repeats(W)

\* Ledgers with the same records are one.
LEMMA SameLedger ==
    ASSUME NEW l \in Ledgers, NEW r \in Ledgers,
           \A key \in Keys : (key \in DOMAIN l <=> key \in DOMAIN r) /\ (key \in DOMAIN l => l[key] = r[key])
    PROVE  l = r
<1>1. /\ l = [key \in DOMAIN l |-> l[key]] /\ DOMAIN l \subseteq Keys
      /\ r = [key \in DOMAIN r |-> r[key]] /\ DOMAIN r \subseteq Keys
  BY DEF Ledgers
<1>2. DOMAIN l = DOMAIN r
  BY <1>1
<1>3. \A key \in DOMAIN l : l[key] = r[key]
  BY <1>1
<1> QED
  BY <1>1, <1>2, <1>3

\* The first heat begins without rows.
LEMMA StartWide ==
    ASSUME TablesSound, NEW w, w.ledger = ledger, w.current = current, NEW N \in Nat
    PROVE  Wide(w, N) = Wide(ReceiveStart.tables, N)
<1>1. PICK s : s = ReceiveStart.tables
  OBVIOUS
<1>2. s.ledger = ledger /\ s.current = IF current = <<>> THEN <<NoRows>> ELSE current
  BY <1>1 DEF ReceiveStart
<1>3. CASE current = <<>>
  <2>1. Len(w.current) = 0 /\ Len(s.current) = 1 /\ s.current[1] = NoRows
    BY <1>2, <1>3
  <2>2. ASSUME NEW g \in 1..N
        PROVE  (IF g <= Len(w.current) THEN w.current[g] ELSE NoRows) = IF g <= Len(s.current) THEN s.current[g] ELSE NoRows
    <3>1. ~(g <= 0) /\ (g <= 1 => g = 1)
      OBVIOUS
    <3> QED
      BY <2>1, <3>1
  <2> QED
    BY <1>1, <1>2, <2>2 DEF Wide
<1>4. CASE current # <<>>
  BY <1>1, <1>2, <1>4 DEF Wide
<1> QED
  BY <1>3, <1>4

\* While the session is not stopped nothing is pruned.
LEMMA LiveKept ==
    ASSUME IInv, RepeatInv, RawTyped, ~stopped
    PROVE  floor.frame = 0 /\ \A f \in DOMAIN raw : raw[f].kept
<1>1. floor.frame = 0
  BY DEF IInv, FloorInv, RepeatInv
<1>2. \A f \in DOMAIN raw : f > 0
  BY DEF RawTyped
<1> QED
  BY <1>1, <1>2 DEF IInv, FloorInv

\* What was received is what its frame makes.
LEMMA ReceiveRepeats ==
    ASSUME IInv, BoardInv, RepeatInv, NEW n \in 1..MaxFrame, Receive(n)
    PROVE  RepeatInv'
<1>1. ProviderTyped /\ TablesSound /\ RawTyped /\ ~stopped
  BY DEF BoardInv, TablesSound, Receive
<1>2. PICK id, msgs, row : Framed(n, id, msgs, row)
  BY <1>1, ReceiveFrame
<1>3. raw \in Seq(Frames(Seq(Messages))) /\ Len(raw) \in Nat /\ id \in Nat /\ id = Len(raw) + 1
      /\ n \in Nat /\ msgs \in Seq(Messages) /\ Len(msgs) = n
  BY <1>1, <1>2 DEF Framed, RawTyped, ProviderTyped
<1>4. UNCHANGED <<covered, stopped, floor>> /\ row.at = id /\ row.msgs = msgs
  <2>1. raw' = Append(raw, [at |-> Len(raw) + 1, msgs |-> SubSeq(outbox, 1, n), kept |-> TRUE])
    BY DEF Receive
  <2>2. PICK x : x = [at |-> Len(raw) + 1, msgs |-> SubSeq(outbox, 1, n), kept |-> TRUE]
    OBVIOUS
  <2>3. raw' = Append(raw, x) /\ raw' = Append(raw, row) /\ row \in Frames(Seq(Messages)) /\ row.msgs = msgs /\ x.at = id /\ x.msgs = msgs
    BY <1>2, <2>1, <2>2 DEF Framed
  <2>4. x \in Frames(Seq(Messages))
    BY <1>3, <2>2, <2>3 DEF Frames
  <2>5. Append(raw, x)[Len(raw) + 1] = x /\ Append(raw, row)[Len(raw) + 1] = row
    BY <1>3, <2>3, <2>4, AppendProperties
  <2>6. x = row
    BY <2>3, <2>5
  <2> QED
    BY <2>3, <2>6 DEF Receive, retention
<1>5. PICK Q : Q = raw'
  OBVIOUS
<1>6. /\ Q \in Seq(Frames(Seq(Messages))) /\ Len(Q) = id /\ Q[id] = row /\ id \in DOMAIN Q
      /\ \A f \in 1..Len(raw) : Q[f] = raw[f]
  <2>1. row \in Frames(Seq(Messages)) /\ Q = Append(raw, row)
    BY <1>2, <1>5 DEF Framed
  <2>2. Q \in Seq(Frames(Seq(Messages))) /\ Len(Q) = id /\ Q[id] = row /\ \A f \in 1..Len(raw) : Q[f] = raw[f]
    BY <1>3, <2>1, AppendProperties
  <2> QED
    BY <1>3, <2>2
<1>7. ReceiveStart \in Accs(Q)
  <2>1. raw' \in Seq(Frames(Seq(Messages))) /\ \A f \in DOMAIN raw : f \in DOMAIN raw' /\ raw'[f] = raw[f]
    BY <1>3, <1>5, <1>6
  <2>2. ReceiveStart \in Accs(raw')
    BY <1>1, <2>1, ReceiveStarts
  <2> QED
    BY <1>5, <2>2
<1>8. PICK A : ReceiveLoop(A, Q, n, id, msgs)
  BY <1>2, <1>6, <1>7, ReceiveRun
<1>9. Normalizes(A, Q, n, id, msgs) /\ A[0] = ReceiveStart
      /\ ledger' = A[n].tables.ledger /\ current' = A[n].tables.current /\ heats' = A[n].heats
  BY <1>3, <1>8 DEF ReceiveLoop, Normalizes
<1>10. Timed(raw, heats) /\ heats \in Seq(Nat) /\ Len(heats) \in Nat
  BY DEF RepeatInv, Timed
<1>11. Begun(heats, A[0].heats, id)
  <2>1. A[0].heats = EnsureHeat(id)
    BY <1>3, <1>9 DEF ReceiveStart
  <2>2. CASE heats = <<>>
    <3>1. A[0].heats = <<id>> /\ Len(heats) = 0
      BY <2>1, <2>2 DEF EnsureHeat
    <3>2. Len(<<id>>) = 1 /\ <<id>>[1] = id /\ (\A i \in 1..1 : i = 1) /\ 1..0 = {}
      OBVIOUS
    <3> QED
      BY <3>1, <3>2 DEF Begun
  <2>3. CASE heats # <<>>
    <3>1. A[0].heats = heats
      BY <2>1, <2>3 DEF EnsureHeat
    <3>2. \A i \in 1..Len(heats) : ~(i > Len(heats))
      BY <1>10
    <3> QED
      BY <1>10, <3>1, <3>2 DEF Begun
  <2> QED
    BY <2>2, <2>3
<1> SUFFICES Timed(raw, heats)' /\ (~Mixed' => \E V : Repeats(V)')
  BY <1>1, <1>4 DEF RepeatInv
<1>12. PICK G : G = heats' /\ G = A[n].heats
  BY <1>9
<1>13. Received(raw, heats, Q, G, A, n, id, msgs)
  BY <1>3, <1>4, <1>6, <1>9, <1>10, <1>11, <1>12 DEF Received
<1>14. Timed(Q, G)
  BY <1>13, ReceiveTimed
<1>15. ASSUME ~Mixed' PROVE \E V : Repeats(V)'
  <2>1. \A f \in DOMAIN Q : \A j, k \in DOMAIN Q[f].msgs : j < k /\ IsBoard(Q[f].msgs[j]) => IsBoard(Q[f].msgs[k])
    BY <1>5, <1>15 DEF Mixed
  <2>2. Ordinary(msgs)
    BY <1>4, <1>6, <2>1 DEF Ordinary
  <2>3. ~Mixed
    <3>1. \A f \in DOMAIN raw : f \in DOMAIN Q /\ Q[f] = raw[f]
      BY <1>3, <1>6
    <3> QED
      BY <2>1, <3>1 DEF Mixed
  <2>4. PICK W : Repeats(W)
    BY <2>3 DEF RepeatInv
  <2>5. Whole(W, raw, heats) /\ Recorder(raw, heats) /\ floor.frame = 0 /\ \A f \in DOMAIN raw : raw[f].kept
    BY <1>1, <1>10, <2>4, TimedRecorder, LiveKept DEF Repeats
  <2>6. PICK w \in AllTables(raw) : w = W[Len(raw)]
    BY <1>3, <2>5 DEF Whole, TablesOf
  <2>7. w.ledger = ledger
    <3>1. PICK l \in Ledgers : l = w.ledger
      BY DEF AllTables
    <3>2. \A key \in DOMAIN l : key.src.f \in DOMAIN raw
      <4>1. \A key \in DOMAIN W[Len(raw)].ledger : key.src.f \in 1..Len(raw)
        BY <2>5, WholeRecords
      <4> QED
        BY <1>3, <2>6, <3>1, <4>1
    <3>3. LeftOf(l)
      BY <2>4, <2>6, <3>1 DEF Repeats
    <3>4. \A key \in Keys : (key \in DOMAIN ledger <=> key \in DOMAIN l) /\ (key \in DOMAIN ledger => ledger[key] = l[key])
      BY <2>5, <3>2, <3>3 DEF LeftOf
    <3>5. ledger \in Ledgers
      BY <1>1 DEF TablesSound
    <3>6. ledger = l
      BY <3>4, <3>5, SameLedger
    <3> QED
      BY <3>1, <3>6
  <2>8. w.current = current
    BY <2>4, <2>5, <2>6 DEF Repeats
  <2>9. Wide(w, Len(G)) = Wide(A[0].tables, Len(G))
    <3>1. Len(G) \in Nat
      BY <1>14 DEF Timed
    <3> QED
      BY <1>1, <1>9, <2>7, <2>8, <3>1, StartWide
  <2>10. PICK V : Whole(V, Q, G) /\ V[id] = A[n].tables
    <3>1. Wide(W[Len(raw)], Len(G)) = Wide(A[0].tables, Len(G))
      BY <2>6, <2>9
    <3> QED
      BY <1>13, <2>2, <2>5, <3>1, ReceiveWhole
  <2>11. floor'.frame = 0 /\ \A f \in DOMAIN Q : Q[f].kept
    <3>1. FloorInv'
      BY ReceiveInvariant DEF IInv
    <3>2. \A f \in DOMAIN Q : f > 0
      BY <1>3, <1>6
    <3> QED
      BY <1>4, <1>5, <2>5, <3>1, <3>2 DEF FloorInv
  <2>12. \A key \in DOMAIN V[id].ledger : key.src.f \in DOMAIN Q
    <3>1. Recorder(Q, G)
      BY <1>14, TimedRecorder
    <3>2. \A key \in DOMAIN V[id].ledger : key.src.f \in 1..id
      BY <1>6, <2>10, <3>1, WholeRecords
    <3> QED
      BY <1>3, <1>6, <3>2
  <2>13. LeftOf(V[id].ledger)'
    <3>1. ledger' = V[id].ledger
      BY <1>9, <2>10
    <3> QED
      BY <1>5, <2>11, <2>12, <3>1 DEF LeftOf
  <2> QED
    BY <1>5, <1>6, <1>9, <1>12, <2>10, <2>13 DEF Repeats
<1> QED
  BY <1>5, <1>12, <1>14, <1>15

\* Whether a frame is kept makes no difference to what it makes.
LEMMA WholeSame ==
    ASSUME NEW R, NEW Q, NEW H, NEW W, R \in Seq(Frames(Seq(Messages))), Q \in Seq(Frames(Seq(Messages))),
           Len(Q) = Len(R), \A f \in 1..Len(R) : Q[f].msgs = R[f].msgs /\ Q[f].at = R[f].at, Whole(W, R, H)
    PROVE  Whole(W, Q, H)
<1>1. /\ W \in [0..Len(R) -> TablesOf(R, H)] /\ W[0] = Blank(H)
      /\ \A f \in 1..Len(R) : Makes(W[f - 1], R, H, f, W[f])
  BY DEF Whole
<1>2. TablesOf(R, H) = TablesOf(Q, H)
  <2>1. \A f \in DOMAIN R : f \in DOMAIN Q /\ Q[f].msgs = R[f].msgs
    OBVIOUS
  <2>2. \A f \in DOMAIN Q : f \in DOMAIN R /\ R[f].msgs = Q[f].msgs
    OBVIOUS
  <2>3. \A rows : rows \in Seq(SoundRows(R)) <=> rows \in Seq(SoundRows(Q))
    BY <2>1, <2>2, SoundMore
  <2> QED
    BY <2>3 DEF TablesOf, AllTables
<1>3. ASSUME NEW f \in 1..Len(R), NEW c, NEW d, Makes(c, R, H, f, d) PROVE Makes(c, Q, H, f, d)
  <2>1. Q[f].msgs = R[f].msgs /\ Q[f].at = R[f].at
    OBVIOUS
  <2>2. \A x, k : Turn(x, R, H, f, k) = Turn(x, Q, H, f, k)
    BY <2>1 DEF Turn
  <2>3. \A A : FrameRun(A, R, H, f) => FrameRun(A, Q, H, f)
    BY <1>2, <2>1, <2>2 DEF FrameRun
  <2> QED
    BY <1>3, <2>1, <2>3 DEF Makes
<1> QED
  BY <1>1, <1>2, <1>3 DEF Whole

\* A retention takes the records of the frames it deletes, and those only.
LEMMA ApplyRepeats ==
    ASSUME IInv, BoardInv, RepeatInv, ApplyRetention
    PROVE  RepeatInv'
<1>1. UNCHANGED <<heats, current, stopped, covered>>
  BY DEF ApplyRetention
<1>2. Timed(raw, heats) /\ RawTyped /\ TablesSound
  BY DEF RepeatInv, BoardInv, TablesSound
<1>3. CASE UNCHANGED <<raw, ledger, floor>>
  BY <1>1, <1>3 DEF RepeatInv, Repeats, LeftOf, Mixed
<1>4. CASE ~UNCHANGED <<raw, ledger, floor>>
  <2> DEFINE left == [f \in DOMAIN raw |-> raw[f].kept /\ f \notin Deleted]
             last == Max(Deleted)
             anchor == CheckpointAfter(last, left)
  <2>1. /\ Deleted # {}
        /\ raw' = [f \in DOMAIN raw |-> [raw[f] EXCEPT !.kept = left[f]]]
        /\ ledger' = Without(ledger, {key \in DOMAIN ledger : key.src.f \in Deleted})
        /\ floor' = IF floor.frame >= last THEN floor ELSE [frame |-> last, anchor |-> anchor]
    BY <1>4 DEF ApplyRetention
  <2>2. DOMAIN raw = 1..Len(raw) /\ Len(raw) \in Nat /\ \A f \in DOMAIN raw : raw[f] \in Frames(Seq(Messages))
    BY <1>2 DEF RawTyped
  <2>3. \A f \in DOMAIN raw : left[f] = (raw[f].kept /\ f \notin Deleted)
    OBVIOUS
  <2>4. \A f \in DOMAIN raw : left[f] \in BOOLEAN
    BY <2>3
  <2> HIDE DEF left, anchor
  <2>5. ASSUME NEW f \in DOMAIN raw
        PROVE  /\ [raw[f] EXCEPT !.kept = left[f]] \in Frames(Seq(Messages))
               /\ [raw[f] EXCEPT !.kept = left[f]].msgs = raw[f].msgs
               /\ [raw[f] EXCEPT !.kept = left[f]].at = raw[f].at
               /\ [raw[f] EXCEPT !.kept = left[f]].kept = left[f]
    BY <2>2, <2>4 DEF Frames
  <2>6. PICK Q : Q = raw'
    OBVIOUS
  <2>7. /\ Q \in [1..Len(raw) -> Frames(Seq(Messages))]
        /\ \A f \in DOMAIN raw : Q[f].msgs = raw[f].msgs /\ Q[f].at = raw[f].at /\ Q[f].kept = left[f]
    BY <2>1, <2>2, <2>5, <2>6
  <2>8. Q \in Seq(Frames(Seq(Messages))) /\ Len(Q) = Len(raw) /\ DOMAIN Q = DOMAIN raw
    <3>1. Q \in Seq(Frames(Seq(Messages)))
      BY <2>2, <2>7, IsASeq
    <3> QED
      BY <2>2, <2>7, <3>1, LenProperties
  <2>9. Timed(Q, heats)
    BY <1>2, <2>2, <2>7, <2>8 DEF Timed
  <2>10. floor'.frame # 0
    <3>1. Deleted \in SUBSET (0..Len(raw)) /\ 0 \notin Deleted
      BY <2>2 DEF Deleted, IInv, RawInv
    <3>2. last \in Deleted
      BY <2>1, <2>2, <3>1, MaxBounded
    <3> HIDE DEF last
    <3>3. last \in Nat /\ last # 0
      BY <2>2, <3>1, <3>2
    <3>4. floor.frame \in Nat
      BY DEF IInv, RawInv
    <3> QED
      BY <2>1, <3>3, <3>4
  <2>11. ASSUME ~Mixed' PROVE \E W : Repeats(W)'
    <3>1. ~Mixed
      BY <2>6, <2>7, <2>8, <2>11 DEF Mixed
    <3>2. PICK W : Repeats(W)
      BY <3>1 DEF RepeatInv
    <3>3. Whole(W, Q, heats)
      BY <2>2, <2>7, <2>8, <1>2, <3>2, WholeSame DEF Repeats, RawTyped
    <3>4. PICK l : l = W[Len(raw)].ledger
      OBVIOUS
    <3>5. \A key \in DOMAIN l : key.src.f \in DOMAIN raw
      <4>1. Recorder(raw, heats) /\ Whole(W, raw, heats)
        BY <1>2, <3>2, TimedRecorder DEF Repeats
      <4>2. \A key \in DOMAIN W[Len(raw)].ledger : key.src.f \in 1..Len(raw)
        BY <4>1, WholeRecords
      <4> QED
        BY <2>2, <3>4, <4>2
    <3>6. LeftOf(l)
      BY <3>2, <3>4 DEF Repeats
    <3>7. PICK S : S = {key \in DOMAIN ledger : key.src.f \in Deleted}
      OBVIOUS
    <3>8. DOMAIN ledger' = DOMAIN ledger \ S /\ \A key \in DOMAIN ledger' : ledger'[key] = ledger[key]
      BY <2>1, <3>7 DEF Without
    <3>9. ASSUME NEW key \in Keys
          PROVE  /\ key \in DOMAIN ledger' <=> key \in DOMAIN l /\ Q[key.src.f].kept
                 /\ key \in DOMAIN ledger' => ledger'[key] = l[key]
      <4>1. /\ key \in DOMAIN ledger <=> key \in DOMAIN l /\ raw[key.src.f].kept
            /\ key \in DOMAIN ledger => ledger[key] = l[key]
        BY <3>6 DEF LeftOf
      <4>2. key \in DOMAIN l => (Q[key.src.f].kept <=> raw[key.src.f].kept /\ key.src.f \notin Deleted)
        BY <2>3, <2>7, <3>5
      <4>3. key \in DOMAIN ledger' <=> key \in DOMAIN ledger /\ key.src.f \notin Deleted
        BY <3>7, <3>8
      <4> QED
        BY <3>8, <4>1, <4>2, <4>3
    <3>10. LeftOf(l)'
      BY <2>6, <3>9 DEF LeftOf
    <3> QED
      BY <1>1, <2>6, <2>8, <2>10, <3>3, <3>4, <3>10 DEF Repeats
  <2> QED
    BY <1>1, <2>6, <2>9, <2>11 DEF RepeatInv
<1> QED
  BY <1>3, <1>4

\* A backfill repeats what the worker wrote.
LEMMA BackfillSame ==
    ASSUME IInv, BoardInv, RepeatInv, Backfill, ~Mixed
    PROVE  ledger' = ledger /\ (floor.frame = 0 => current' = current)
<1>1. Timed(raw, heats) /\ RawTyped /\ ledger \in Ledgers /\ Len(raw) \in Nat /\ Len(raw) \in 0..Len(raw)
  BY DEF RepeatInv, BoardInv, TablesSound, RawTyped
<1>2. PICK W : Repeats(W)
  BY DEF RepeatInv
<1>3. PICK D : Passes(D) /\ ledger' = D[Len(raw)].ledger /\ current' = D[Len(raw)].current
  BY <1>1, BackfillSound
<1>4. Recorder(raw, heats) /\ Whole(W, raw, heats)
  BY <1>1, <1>2, TimedRecorder DEF Repeats
<1>5. /\ \A key \in Keys :
           /\ key \in DOMAIN D[Len(raw)].ledger <=> key \in DOMAIN W[Len(raw)].ledger /\ raw[key.src.f].kept
           /\ key \in DOMAIN D[Len(raw)].ledger => D[Len(raw)].ledger[key] = W[Len(raw)].ledger[key]
      /\ (\A f \in DOMAIN raw : raw[f].kept) => D[Len(raw)] = W[Len(raw)]
  BY <1>1, <1>3, <1>4, PassesLedger
<1>6. ledger' = ledger
  <2>1. PICK r \in Ledgers : r = ledger' /\ r = D[Len(raw)].ledger
    BY <1>1, <1>3 DEF Passes, HeatTables, AllTables
  <2>2. PICK l : l = W[Len(raw)].ledger
    OBVIOUS
  <2>3. LeftOf(l)
    BY <1>2, <2>2 DEF Repeats
  <2>4. \A key \in Keys : (key \in DOMAIN r <=> key \in DOMAIN ledger) /\ (key \in DOMAIN r => r[key] = ledger[key])
    BY <1>5, <2>1, <2>2, <2>3 DEF LeftOf
  <2>5. r = ledger
    BY <1>1, <2>4, SameLedger
  <2> QED
    BY <2>1, <2>5
<1>7. ASSUME floor.frame = 0 PROVE current' = current
  <2>1. \A f \in DOMAIN raw : f > 0
    BY <1>1 DEF RawTyped
  <2>2. \A f \in DOMAIN raw : raw[f].kept
    BY <1>7, <2>1 DEF IInv, FloorInv
  <2>3. D[Len(raw)] = W[Len(raw)]
    BY <1>5, <2>2
  <2> QED
    BY <1>2, <1>3, <1>7, <2>3 DEF Repeats
<1> QED
  BY <1>6, <1>7

\* Before the first frame there is nothing to repeat.
LEMMA RepeatInit == Init => RepeatInv
<1> SUFFICES ASSUME Init PROVE RepeatInv
  OBVIOUS
<1>1. raw = <<>> /\ heats = <<>> /\ ledger = NoRows /\ current = <<>> /\ ~covered
  BY DEF Init
<1>2. Timed(raw, heats)
  BY <1>1 DEF Timed
<1>3. PICK b : b = Blank(heats)
  OBVIOUS
<1>4. b \in TablesOf(raw, heats) /\ b.ledger = NoRows /\ b.current = <<>>
  <2>1. NoRows \in [{} -> Entries]
    BY DEF NoRows
  <2>2. NoRows \in Ledgers
    BY <2>1 DEF Ledgers
  <2>3. PICK cs : cs = [g \in 1..Len(heats) |-> NoRows]
    OBVIOUS
  <2>4. cs = <<>>
    BY <1>1, <2>3
  <2>5. b = [ledger |-> NoRows, current |-> cs]
    BY <1>3, <2>3 DEF Blank
  <2> QED
    BY <1>1, <2>2, <2>4, <2>5 DEF TablesOf, AllTables
<1>5. PICK W : W = [f \in 0..0 |-> b]
  OBVIOUS
<1>6. W[0] = b /\ Len(raw) = 0 /\ 1..0 = {}
  BY <1>1, <1>5
<1>7. Whole(W, raw, heats)
  BY <1>3, <1>4, <1>5, <1>6 DEF Whole
<1>8. LeftOf(W[Len(raw)].ledger)
  BY <1>1, <1>4, <1>6 DEF LeftOf, NoRows
<1>9. Repeats(W)
  BY <1>1, <1>4, <1>6, <1>7, <1>8 DEF Repeats
<1> QED
  BY <1>1, <1>2, <1>9 DEF RepeatInv

\* Every step keeps it so.
LEMMA RepeatStep == IInv /\ BoardInv /\ RepeatInv /\ [Next]_vars => RepeatInv'
<1> SUFFICES ASSUME IInv, BoardInv, RepeatInv, [Next]_vars PROVE RepeatInv'
  OBVIOUS
<1>1. ASSUME UNCHANGED <<raw, heats, ledger, current, floor>>, covered' => stopped' PROVE RepeatInv'
  BY <1>1 DEF RepeatInv, Repeats, LeftOf, Mixed
<1>2. CASE UNCHANGED <<raw, heats, table, stopped, covered, floor>>
  BY <1>1, <1>2 DEF table, RepeatInv
<1>3. ASSUME NEW n \in 1..MaxFrame, Receive(n) PROVE RepeatInv'
  BY <1>3, ReceiveRepeats
<1>4. CASE Stop
  BY <1>1, <1>4 DEF Stop, table, retention
<1>5. CASE Backfill
  <2>1. UNCHANGED <<raw, heats, stopped, covered, floor>>
    BY <1>5 DEF Backfill, retention
  <2>2. CASE Mixed
    BY <2>1, <2>2 DEF RepeatInv, Mixed
  <2>3. CASE ~Mixed
    <3>1. ledger' = ledger /\ (floor.frame = 0 => current' = current)
      BY <1>5, <2>3, BackfillSame
    <3> QED
      BY <2>1, <3>1 DEF RepeatInv, Repeats, LeftOf, Mixed
  <2> QED
    BY <2>2, <2>3
<1>6. ASSUME NEW valid, Cover(valid) PROVE RepeatInv'
  BY <1>1, <1>6 DEF Cover, table
<1>7. ASSUME NEW cutoff, PlanRetention(cutoff) PROVE RepeatInv'
  BY <1>2, <1>7 DEF PlanRetention
<1>8. CASE ApplyRetention
  BY <1>8, ApplyRepeats
<1> QED
  BY <1>2, <1>3, <1>4, <1>5, <1>6, <1>7, <1>8
  DEF Next, vars, other, retention, Upsert, Delete, Clear, Nonsense, NewHeat, Drop, Connect

\* The backfill "makes recovery deterministic": what it makes of the RAW frames that are left
\* is the ledger as it is, and, while none was pruned, the board of every heat as it is, in
\* every behaviour in which no frame began a heat after a message of its own.
THEOREM BackfillTheorem == Spec => BackfillRepeats
<1>1. IInv /\ BoardInv /\ RepeatInv /\ [Next]_vars
      => [Backfill /\ ~Mixed => ledger' = ledger /\ (floor.frame = 0 => current' = current)]_vars
  BY BackfillSame
<1> QED
  BY <1>1, RepeatInit, RepeatStep, Invariance, BoardInvariant, PTL DEF Spec, BackfillRepeats
==============================================================================
