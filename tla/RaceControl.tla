----------------------------- MODULE RaceControl -----------------------------
(***************************************************************************)
(* The Race Control board of one analysis session: the m_* messages of the *)
(* provider (screen_messages.py), their ledger and current table           *)
(* (race_control_store.py), what the API shows of them (read_api.py), the  *)
(* retention of RAW frames, which the ledger refers to (retention.py), and *)
(* the backfill that makes the board anew from the RAW frames that are     *)
(* left (race_control_backfill.py).                                        *)
(*                                                                         *)
(* A message of the board has an id and sparse fields; a frame is a list   *)
(* of messages, received and normalised in one transaction.                *)
(***************************************************************************)
EXTENDS Integers, Sequences, SequencesExt, FiniteSets, FiniteSetsExt, TLC

CONSTANTS
  Ids,       \* ids of the provider's messages
  Patches,   \* sparse contents: functions from some of the fields to values
  MaxSent,   \* bound on the messages sent
  MaxFrame,  \* bound on the messages of one frame
  MaxDrops,  \* bound on the lost connections
  MaxHeats,  \* bound on the heats
  MaxAnchors \* bound on the checkpoints

ASSUME RaceControlAssumption ==
  /\ 0 \notin Ids /\ {MaxSent, MaxFrame, MaxDrops, MaxHeats, MaxAnchors} \subseteq Nat
  /\ \A p \in Patches : DOMAIN p # {} /\ DOMAIN p \subseteq {"text", "line"} /\ p = [f \in DOMAIN p |-> p[f]]

VARIABLES
  board,   \* the collection every client of the provider shows: id -> fields
  outbox,  \* messages sent on this connection and not received
  sent,    \* messages sent so far
  drops,   \* connections lost so far
  up,      \* the connection is up
  raw,     \* feed_frames, by id: [at, msgs, kept]; kept is FALSE once pruned
  heats,   \* source_heats, by generation: created_at_us
  ledger,  \* race_control_message_observations, by their UNIQUE key [heat, src, change]
  current, \* race_control_messages_current, by heat: id -> row
  synced,  \* the heat has had a complete m_i, and since then nothing was lost or unreadable
  stopped, \* the session is stopped
  anchors, \* frames with a runtime checkpoint: frame -> it validates
  covered, \* every heat has a playback snapshot
  plan,    \* a reviewed retention plan: [cutoff, ids]
  floor    \* timing_raw_retention_floors: [frame, anchor], frame = 0 if there is none

provider == <<board, outbox, sent, drops, up>>
table == <<ledger, current>>
retention == <<anchors, covered, plan, floor>>
vars == <<provider, raw, heats, table, synced, stopped, retention>>

NoFields == [f \in {} |-> 0]
NoRows   == [i \in {} |-> 0]
NoSource == [f |-> 0, o |-> 0]
NoPlan   == [cutoff |-> 0, ids |-> {}]

Without(f, S) == [x \in DOMAIN f \ S |-> f[x]]
With(f, i, v) == [x \in DOMAIN f \cup {i} |-> IF x = i THEN v ELSE f[x]]
Merged(f, g)  == [x \in DOMAIN f \cup DOMAIN g |-> IF x \in DOMAIN f THEN f[x] ELSE g[x]]     \* f over g

-----------------------------------------------------------------------------
(* screen_messages: what a payload means *)

Item(i, p, b) == [id |-> i, patch |-> p, bad |-> b]     \* bad: "", "field" or "id"
Message(h, items) == [h |-> h, items |-> items]

(* _parse_patch: an unusable field is left out, an unusable id drops the item. *)
ParsePatch(items, n) ==
  LET x == items[n] IN [id |-> x.id, change |-> n - 1,
                        patch |-> IF x.bad = "field" THEN Without(x.patch, {"text"}) ELSE x.patch]

(* Mutant: from the first to the last. *)
PositionForward(items, k) == k

(* _parse_snapshot: the client applies the array from its end to its beginning. *)
Position(items, k) == Len(items) + 1 - k

(* Mutant: errors in an item are forgotten. *)
SnapshotCompleteAlways(items) == TRUE

SnapshotComplete(items) == \A n \in DOMAIN items : items[n].bad = ""

-----------------------------------------------------------------------------
(* race_control_store.  A table t holds the ledger and the rows of one heat. *)

Source(frame, ord) == [f |-> frame, o |-> ord]
Key(heat, src, change) == [heat |-> heat, src |-> src, change |-> change]

IsNew(t, key) == key \notin DOMAIN t.ledger

(* INSERT OR IGNORE *)
InsertObservation(t, key, op, id) ==
  IF IsNew(t, key) THEN [t EXCEPT !.ledger = With(@, key, [op |-> op, id |-> id])] ELSE t

(* Only the fields in the patch are written, over those of any earlier row. *)
UpsertCurrent(t, src, p) ==
  LET old == IF p.id \in DOMAIN t.rows THEN t.rows[p.id].fields ELSE NoFields
      row == [fields |-> Merged(p.patch, old), active |-> TRUE, last |-> src, removed |-> NoSource]
  IN [t EXCEPT !.rows = With(@, p.id, row)]

MarkRemoved(t, src, ids) ==
  LET gone(i, row) == IF i \in ids /\ row.active THEN [row EXCEPT !.active = FALSE, !.last = src, !.removed = src] ELSE row
  IN [t EXCEPT !.rows = [i \in DOMAIN @ |-> gone(i, @[i])]]

ProjectPatch(t, heat, src, op, p) ==
  LET key == Key(heat, src, p.change)
  IN IF IsNew(t, key) THEN UpsertCurrent(InsertObservation(t, key, op, p.id), src, p) ELSE t

ProjectItem(t, heat, src, items, k) ==
  LET n == Position(items, k)
  IN IF items[n].bad = "id" THEN t ELSE ProjectPatch(t, heat, src, "INITIAL_SNAPSHOT", ParsePatch(items, n))

Visible(items) == {items[n].id : n \in {n \in DOMAIN items : items[n].bad # "id"}}

ReconcileSnapshotAbsences(t, src, visible) == MarkRemoved(t, src, Ids \ visible)

(* A snapshot without a usable item is recorded as one observation. *)
ProjectSnapshot(t, heat, src, items) ==
  LET op == IF SnapshotComplete(items) THEN "INITIAL_SNAPSHOT" ELSE "UNKNOWN"
      start == IF Visible(items) = {} THEN InsertObservation(t, Key(heat, src, 0), op, 0) ELSE t
      put[k \in 0..Len(items)] == IF k = 0 THEN start ELSE ProjectItem(put[k - 1], heat, src, items, k)
      done == put[Len(items)]
  IN IF SnapshotComplete(items) /\ done.ledger # t.ledger
       THEN ReconcileSnapshotAbsences(done, src, Visible(items)) ELSE done

(* project_screen_message: a DELETE, a CLEAR and what cannot be read are
   recorded, and applied if the record is new. *)
ProjectScreenMessage(t, heat, src, m) ==
  LET key == Key(heat, src, 0)
      removed(op, id, ids) ==
        IF IsNew(t, key) THEN MarkRemoved(InsertObservation(t, key, op, id), src, ids) ELSE t
  IN CASE m.h = "m_i" -> ProjectSnapshot(t, heat, src, m.items)
       [] m.h = "m_c" -> ProjectPatch(t, heat, src, "UPSERT", ParsePatch(m.items, 1))
       [] m.h = "m_d" -> removed("DELETE", m.items[1].id, {m.items[1].id})
       [] m.h = "m_a" -> removed("CLEAR", 0, Ids)
       [] OTHER       -> InsertObservation(t, key, "UNKNOWN", 0)

(* The tables c, the ledger and the rows of every heat, with message m of a heat. *)
Projected(c, heat, src, m) ==
  LET t == ProjectScreenMessage([ledger |-> c.ledger, rows |-> c.current[heat]], heat, src, m)
  IN [ledger |-> t.ledger, current |-> [c.current EXCEPT ![heat] = t.rows]]

IsBoard(m) == m.h # "h_i"
Readable(m) == m.h # "m_x" /\ \A n \in DOMAIN m.items : m.items[n].bad = ""

-----------------------------------------------------------------------------
(* The normalizer on one frame: an h_i of another start begins a heat, an m_*
   goes to the heat it finds. *)

EnsureHeat(at) == IF heats = <<>> THEN <<at>> ELSE heats

StartNewHeat(acc, at) ==
  [tables |-> [acc.tables EXCEPT !.current = Append(@, NoRows)], heats |-> Append(acc.heats, at), synced |-> FALSE]

Normalize(acc, m, src, at) ==
  IF ~ IsBoard(m) THEN StartNewHeat(acc, at)
  ELSE [tables |-> Projected(acc.tables, Len(acc.heats), src, m), heats |-> acc.heats,
        synced |-> Readable(m) /\ (acc.synced \/ m.h = "m_i")]

(* A frame is stored and normalised. *)
Receive(n) ==
  /\ up /\ ~ stopped /\ n <= Len(outbox)
  /\ LET id == Len(raw) + 1
         msgs == SubSeq(outbox, 1, n)
         start == [tables |-> [ledger |-> ledger, current |-> IF current = <<>> THEN <<NoRows>> ELSE current],
                   heats |-> EnsureHeat(id), synced |-> synced]
         done[k \in 0..n] == IF k = 0 THEN start ELSE Normalize(done[k - 1], msgs[k], Source(id, k), id)
         acc == done[n]
     IN /\ raw' = Append(raw, [at |-> id, msgs |-> msgs, kept |-> TRUE])
        /\ ledger' = acc.tables.ledger /\ current' = acc.tables.current /\ heats' = acc.heats /\ synced' = acc.synced
        /\ outbox' = SubSeq(outbox, n + 1, Len(outbox))
  /\ UNCHANGED <<board, sent, drops, up, stopped, retention>>

-----------------------------------------------------------------------------
(* The provider *)

Send(m) ==
  /\ sent < MaxSent /\ sent' = sent + 1
  /\ outbox' = IF up THEN Append(outbox, m) ELSE outbox

other == <<raw, heats, table, synced, stopped, retention>>

Upsert(i, p, bad) ==
  /\ ~ stopped /\ Send(Message("m_c", <<Item(i, p, bad)>>))
  /\ board' = With(board, i, Merged(p, IF i \in DOMAIN board THEN board[i] ELSE NoFields))
  /\ UNCHANGED <<drops, up, other>>

Delete(i) ==
  /\ ~ stopped /\ i \in DOMAIN board /\ board' = Without(board, {i})
  /\ Send(Message("m_d", <<Item(i, NoFields, "")>>))
  /\ UNCHANGED <<drops, up, other>>

Clear ==
  /\ ~ stopped /\ board # NoRows /\ board' = NoRows
  /\ Send(Message("m_a", <<>>)) /\ UNCHANGED <<drops, up, other>>

(* A handle nobody knows, or a payload without a usable id. *)
Nonsense ==
  /\ ~ stopped /\ Send(Message("m_x", <<>>)) /\ UNCHANGED <<board, drops, up, other>>

NewHeat ==
  /\ ~ stopped /\ Len(heats) + Len(SelectSeq(outbox, LAMBDA m : ~ IsBoard(m))) < MaxHeats
  /\ Send(Message("h_i", <<>>)) /\ UNCHANGED <<board, drops, up, other>>

Drop ==
  /\ up /\ ~ stopped /\ drops < MaxDrops /\ drops' = drops + 1
  /\ up' = FALSE /\ outbox' = <<>> /\ synced' = FALSE
  /\ UNCHANGED <<board, sent, raw, heats, table, stopped, retention>>

Snapshot(ids, bad) == [n \in DOMAIN ids |-> Item(ids[n], board[ids[n]], IF n = 1 THEN bad ELSE "")]

(* Every connection begins with an m_i of the collection in some order, which
   may hold an older version of a message again, further on. *)
Connect(ids, bad, again) ==
  /\ ~ up /\ ~ stopped /\ up' = TRUE
  /\ DOMAIN board = {} => bad = "" /\ again = NoFields
  /\ sent < MaxSent /\ sent' = sent + 1
  /\ LET items == Snapshot(ids, bad)
         older == IF again = NoFields THEN <<>> ELSE <<Item(items[1].id, again, "")>>
     IN /\ outbox' = <<Message("m_i", items \o older)>>
        /\ board' = IF older = <<>> THEN board ELSE [board EXCEPT ![items[1].id] = Merged(@, again)]
  /\ UNCHANGED <<drops, other>>

-----------------------------------------------------------------------------
(* After the session *)

(* The provider is forgotten. *)
Stop ==
  /\ ~ stopped /\ raw # <<>> /\ stopped' = TRUE
  /\ board' = NoRows /\ outbox' = <<>> /\ sent' = 0 /\ drops' = 0 /\ up' = FALSE /\ synced' = FALSE
  /\ UNCHANGED <<raw, heats, table, retention>>

Checkpoints == UNION {[frames -> BOOLEAN] : frames \in {S \in SUBSET DOMAIN raw : Cardinality(S) <= MaxAnchors}}

(* The last heat without a playback snapshot has one.  The reducer wrote a checkpoint
   after some frames, and some of them validate; which ones matters from here on. *)
Cover(valid) ==
  /\ stopped /\ ~ covered /\ covered' = TRUE /\ anchors' = valid
  /\ UNCHANGED <<provider, raw, heats, table, synced, stopped, plan, floor>>

(* Mutant: the payload of a checkpoint is not validated. *)
CheckpointAfterUnread(frame, kept) ==
  LET ok == {f \in DOMAIN anchors : f > floor.frame /\ kept[f]}
  IN IF ok # {} /\ Max(ok) > frame THEN Max(ok) ELSE 0

(* _compatible_runtime_checkpoints, _checkpoint_after: the newest one that
   validates and whose frame is kept, if it is after the frame. *)
CheckpointAfter(frame, kept) ==
  LET ok == {f \in DOMAIN anchors : anchors[f] /\ f > floor.frame /\ kept[f]}
  IN IF ok # {} /\ Max(ok) > frame THEN Max(ok) ELSE 0

Kept == [f \in DOMAIN raw |-> raw[f].kept]

Prunable(f, cutoff) == raw[f].kept /\ stopped /\ raw[f].at < cutoff /\ covered

(* An empty plan does nothing and is left out. *)
PlanRetention(cutoff) ==
  /\ plan = NoPlan
  /\ LET ids == {f \in DOMAIN raw : Prunable(f, cutoff) /\ CheckpointAfter(f, Kept) # 0}
     IN ids # {} /\ plan' = [cutoff |-> cutoff, ids |-> ids]
  /\ UNCHANGED <<provider, raw, heats, table, synced, stopped, anchors, covered, floor>>

(* The guard of the DELETE: some checkpoint after the frame, not read. *)
Deleted == {f \in plan.ids : Prunable(f, plan.cutoff) /\ \E a \in DOMAIN anchors : a > f /\ raw[a].kept}

(* A deleted frame takes its observations along, and the checkpoints on it no
   longer stand on a frame.  Without a checkpoint that validates after the last
   one, everything is rolled back. *)
ApplyRetention ==
  /\ plan # NoPlan /\ plan' = NoPlan
  /\ LET kept == [f \in DOMAIN raw |-> raw[f].kept /\ f \notin Deleted]
         anchor == CheckpointAfter(Max(Deleted), kept)
     IN IF Deleted = {} \/ anchor = 0 THEN UNCHANGED <<raw, ledger, floor>>
        ELSE /\ raw' = [f \in DOMAIN raw |-> [raw[f] EXCEPT !.kept = kept[f]]]
             /\ ledger' = Without(ledger, {key \in DOMAIN ledger : key.src.f \in Deleted})
             /\ floor' = IF floor.frame >= Max(Deleted) THEN floor
                         ELSE [frame |-> Max(Deleted), anchor |-> anchor]
  /\ UNCHANGED <<provider, heats, current, synced, stopped, anchors, covered>>

(* Mutant: a heat begins after the frame that made it. *)
HeatForObservationLate(at) == Max({0} \cup {g \in DOMAIN heats : heats[g] < at})

(* The last heat that existed when the frame was received. *)
HeatForObservation(at) == Max({0} \cup {g \in DOMAIN heats : heats[g] <= at})

BoardFrame(f) == \E k \in DOMAIN raw[f].msgs : IsBoard(raw[f].msgs[k])

(* The tables c with the messages of a RAW frame, in their order. *)
Replayed(c, f) ==
  LET msgs == raw[f].msgs
      done[k \in 0..Len(msgs)] ==
        IF k = 0 THEN c
        ELSE IF IsBoard(msgs[k]) THEN Projected(done[k - 1], HeatForObservation(raw[f].at), Source(f, k), msgs[k])
        ELSE done[k - 1]
  IN done[Len(msgs)]

(* Both tables are made anew from the frames that are left, or nothing is. *)
Backfill ==
  /\ stopped /\ heats # <<>>
  /\ \A f \in DOMAIN raw : raw[f].kept /\ BoardFrame(f) => HeatForObservation(raw[f].at) # 0
  /\ LET empty == [ledger |-> NoRows, current |-> [g \in 1..Len(heats) |-> NoRows]]
         done[f \in 0..Len(raw)] ==
           IF f = 0 THEN empty ELSE IF raw[f].kept THEN Replayed(done[f - 1], f) ELSE done[f - 1]
     IN ledger' = done[Len(raw)].ledger /\ current' = done[Len(raw)].current
  /\ UNCHANGED <<provider, raw, heats, synced, stopped, retention>>

-----------------------------------------------------------------------------
Init ==
  /\ board = NoRows /\ outbox = <<>> /\ sent = 0 /\ drops = 0 /\ up = FALSE
  /\ raw = <<>> /\ heats = <<>> /\ ledger = NoRows /\ current = <<>> /\ synced = FALSE /\ stopped = FALSE
  /\ anchors = NoRows /\ covered = FALSE /\ plan = NoPlan /\ floor = [frame |-> 0, anchor |-> 0]

Next ==
  \/ \E i \in Ids, p \in Patches : Upsert(i, p, "")
  \/ \E i \in Ids, p \in Patches : "text" \in DOMAIN p /\ Upsert(i, p, "field")
  \/ \E i \in Ids : Delete(i)
  \/ Clear \/ Nonsense \/ NewHeat \/ Drop
  \/ \E ids \in SetToSeqs(DOMAIN board), bad \in {"", "field", "id"}, again \in {NoFields} \cup Patches :
       Connect(ids, bad, again)
  \/ \E n \in 1..MaxFrame : Receive(n)
  \/ Stop \/ Backfill \/ \E valid \in Checkpoints : Cover(valid)
  \/ \E cutoff \in 1..(Len(raw) + 1) : PlanRetention(cutoff)
  \/ ApplyRetention

Spec == Init /\ [][Next]_vars

-----------------------------------------------------------------------------
(* read_race_control_messages: the board of the latest heat *)

LatestHeat == Len(heats)

Items(activeOnly) ==
  IF heats = <<>> THEN NoRows
  ELSE LET rows == current[LatestHeat]
       IN [i \in {i \in DOMAIN rows : activeOnly => rows[i].active} |-> rows[i]]

(* An active row has no removal and an inactive one has its source (the CHECK of the table). *)
TypeOK ==
  /\ Len(current) = Len(heats) /\ sent \in 0..MaxSent
  /\ \A g \in DOMAIN current : \A i \in DOMAIN current[g] :
       current[g][i].active <=> current[g][i].removed = NoSource

(* Once a heat has had a complete m_i, and until something is lost or cannot be
   read, the API shows exactly the messages on the provider's board, with every
   field they have, whatever was deleted, cleared, created again or sent twice. *)
BoardShown ==
  (up /\ ~ stopped /\ synced /\ outbox = <<>>) =>
    /\ DOMAIN Items(TRUE) = DOMAIN board
    /\ \A i \in DOMAIN board : \A f \in DOMAIN board[i] :
         f \in DOMAIN Items(TRUE)[i].fields /\ Items(TRUE)[i].fields[f] = board[i][f]

(* A message is taken off the board only by a message that says so: an m_d of it,
   an m_a, or an m_i that was read completely and does not hold it.  "An incomplete
   snapshot can never remove a currently visible message." *)
RemovalExplained ==
  \A g \in DOMAIN current : \A i \in DOMAIN current[g] : ~ current[g][i].active =>
    LET m == raw[current[g][i].removed.f].msgs[current[g][i].removed.o]
    IN \/ m.h = "m_a"
       \/ m.h = "m_d" /\ m.items[1].id = i
       \/ m.h = "m_i" /\ Readable(m) /\ \A n \in DOMAIN m.items : m.items[n].id # i

(* The ledger and the current table are typed and every removal has its reason. *)
BoardConsistent == TypeOK /\ RemovalExplained

(* After any retention there is a checkpoint that validates, on a frame that is
   left, and every frame from it on is left: the reducer can be restored. *)
FloorAnchored ==
  floor.frame # 0 =>
    /\ floor.anchor \in DOMAIN raw /\ floor.anchor > floor.frame /\ anchors[floor.anchor]
    /\ \A f \in DOMAIN raw : f > floor.frame => raw[f].kept

(* A backfill "makes recovery deterministic": it repeats what the live worker
   wrote, the ledger always and the board while no frame was pruned.  The exception
   is a frame that began a heat after an m_* message of its own: the backfill gives
   that message to the new heat. *)
Mixed == \E f \in DOMAIN raw : \E j, k \in DOMAIN raw[f].msgs :
           j < k /\ IsBoard(raw[f].msgs[j]) /\ ~ IsBoard(raw[f].msgs[k])
BackfillRepeats ==
  [][Backfill /\ ~ Mixed => ledger' = ledger /\ (floor.frame = 0 => current' = current)]_vars
=============================================================================
