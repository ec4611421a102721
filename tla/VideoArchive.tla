----------------------------- MODULE VideoArchive -----------------------------
(***************************************************************************)
(* The broadcast archive: FLV pieces on the recording disk, MP4 videos and *)
(* their HLS copies in S3, the SQLite catalogue and the queue of HLS jobs. *)
(* Four programs share them without a lock: the session merger and the HLS *)
(* worker (services), the indexer (cron) and an operator's repair, which   *)
(* is repair_archive.py (glue the pieces of one session) or fix_gaps.py    *)
(* (cut the holes out of one video).  Every step that one of them makes    *)
(* visible to the others is an action, and any of them may stop between    *)
(* two steps; what it then finds again is only what the disk, S3, the      *)
(* catalogue and the queue hold.                                           *)
(*                                                                         *)
(* A video is the sequence of the pieces in it; its key is the number of   *)
(* its first piece (live_HHMMSS).  Thumbnails and annotations go the way   *)
(* of their video and are left out.                                        *)
(***************************************************************************)
EXTENDS Integers, Sequences, SequencesExt, FiniteSets, FiniteSetsExt

CONSTANTS
  NPieces,   \* pieces ever recorded
  MergeGap,  \* GAP_SEC of the merger, in ticks
  RepairGap, \* GAP_SEC of repair_archive, in ticks
  MaxTime,   \* bound on the clock
  MaxLength, \* bound on the length of a piece
  MaxFaults, \* bound on the steps that fail and the processes that die
  MaxInputs  \* bound on the pieces, the runs of a repair tool, the deletions, HLS requests and
             \* cron runs together

ASSUME VideoArchiveAssumption ==
  {NPieces, MergeGap, RepairGap, MaxTime, MaxLength, MaxFaults, MaxInputs} \subseteq Nat

Piece == 1..NPieces
None  == 0

VARIABLES
  now,     \* the clock
  pieces,  \* [start, end, real] of every piece recorded; end = None while it is written
  disk,    \* the pieces whose FLV is on the disk
  left,    \* the pieces that were on the disk still when a merger failed after publishing them
  stuck,   \* the pieces that an os.remove of the merger's cleanup failed on
  overwritten,\* the pieces of videos that the merger replaced with such a piece's group
  video,   \* key -> [pieces, holed] of the MP4 in S3, NoVideo if there is none
  hls,     \* key -> the pieces of the HLS copy in S3
  items,   \* key -> "absent", "plain" (no hls_key) or "hls"
  queue,   \* the keys with a .job file
  merger,  \* [pc, groups, kept]: session_merger; kept: what this cleanup could not remove
  worker,  \* [pc, key, got]: transcode_worker
  indexer, \* [pc, seen]: a cron run of indexer
  tool,    \* [pc, kind, groups, dropped, failed]: the operator's repair tool
  journal, \* kind -> key -> the sources to remove after target (repair_state/)
  staged,  \* kind -> key -> the staged video (repair_staging/)
  read,    \* kind -> key -> the pieces that its videos held when it was staged
  overtaken,\* the pieces a repair removed with a video they had reached since it was staged
  deleted, \* the pieces an administrator deleted with their video
  budget   \* [faults, inputs] left

vars == <<now, pieces, disk, left, stuck, overwritten, video, hls, items, queue, merger, worker, indexer,
          tool, journal, staged, read, overtaken, deleted, budget>>

history == <<left, stuck, overwritten>>
world == <<now, pieces, history>>
store == <<video, hls, items, queue>>
services == <<merger, worker, indexer>>
copies == <<staged, read>>
repair == <<tool, journal, copies, overtaken, deleted>>

NoVideo   == [pieces |-> <<>>, holed |-> FALSE]
NoJournal == <<>>

-----------------------------------------------------------------------------
(* The recorder: nginx, one FLV per publish *)

Recording == \E p \in DOMAIN pieces : pieces[p].end = None
LiveActive == Recording

(* Bound: the last piece can still end and grow cold within MaxTime. *)
MayStart ==
  ~ Recording /\ Len(pieces) < NPieces /\ budget.inputs > 0 /\ now + MergeGap + 2 < MaxTime

StartPiece(real) ==
  /\ MayStart /\ budget' = [budget EXCEPT !.inputs = @ - 1]
  /\ pieces' = Append(pieces, [start |-> now, end |-> None, real |-> real])
  /\ disk' = disk \cup {Len(pieces) + 1}
  /\ UNCHANGED <<now, history, store, services, repair>>

EndPiece ==
  /\ Recording /\ Last(pieces).start < now
  /\ pieces' = [pieces EXCEPT ![Len(pieces)].end = now]
  /\ UNCHANGED <<now, disk, history, store, services, repair, budget>>

(* Bound: the clock runs from the first piece on, and only while something waits
   for it. *)
Warm == now - Last(pieces).end <= MergeGap
Tick ==
  /\ now < MaxTime /\ pieces # <<>>
  /\ IF Recording THEN now < Last(pieces).start + MaxLength /\ now + MergeGap + 1 < MaxTime
     ELSE MayStart \/ Warm
  /\ now' = now + 1
  /\ UNCHANGED <<pieces, disk, history, store, services, repair, budget>>

-----------------------------------------------------------------------------
(* session_merger *)

EndOf(p) == IF pieces[p].end = None THEN now ELSE pieces[p].end
LastEnd(g) == Max({EndOf(p) : p \in ToSet(g)})

(* A set of numbers in their order. *)
Ascending(s) == \A i, j \in DOMAIN s : i < j => s[i] < s[j]
Ordered(S)   == CHOOSE s \in [1..Cardinality(S) -> S] : Ascending(s)

(* One element more: in the last group, or the first of a new one. *)
Joined(gs, x) == [gs EXCEPT ![Len(gs)] = Append(@, x)]
Apart(gs, x)  == Append(gs, <<x>>)

(* scan_parts and group_sessions: the pieces on the disk in order, a new group
   where the gap is too long. *)
GroupSessions(ps) ==
  LET near(gs, p) == gs # <<>> /\ pieces[p].start - LastEnd(Last(gs)) <= MergeGap
      after[i \in 0..Len(ps)] ==
        IF i = 0 THEN <<>>
        ELSE IF near(after[i - 1], ps[i]) THEN Joined(after[i - 1], ps[i]) ELSE Apart(after[i - 1], ps[i])
  IN after[Len(ps)]

(* ready: whether a piece was busy, and when it ended, is as the scan saw it. *)
Ready(g) == ~ g.busy /\ now - g.end > MergeGap

NoMerge == [pc |-> "sleep", groups |-> <<>>, kept |-> {}]

MergerScan ==
  /\ merger.pc = "sleep"
  /\ LET gs == GroupSessions(Ordered(disk))
         seen(g) == [pieces |-> g, end |-> LastEnd(g), busy |-> \E p \in ToSet(g) : pieces[p].end = None]
     IN merger' = [pc |-> "next", groups |-> [i \in DOMAIN gs |-> seen(gs[i])], kept |-> {}]
  /\ UNCHANGED <<world, disk, store, worker, indexer, repair, budget>>

Real(g) == Ordered({p \in ToSet(g.pieces) : pieces[p].real})
Group == Head(merger.groups)
MergeKey == Real(Group)[1]

(* The next group of the scan: skipped while warm, scraps are only deleted. *)
MergerNext ==
  /\ merger.pc = "next"
  /\ merger' = IF merger.groups = <<>> THEN NoMerge
               ELSE IF ~ Ready(Group) THEN [merger EXCEPT !.groups = Tail(@)]
               ELSE [merger EXCEPT !.pc = IF Real(Group) = <<>> THEN "cleanup" ELSE "upload"]
  /\ UNCHANGED <<world, disk, store, worker, indexer, repair, budget>>

(* What was under that key is gone: more than the group itself only when the
   group is a leftover of one that was published. *)
MergerUpload ==
  /\ merger.pc = "upload" /\ merger' = [merger EXCEPT !.pc = "index"]
  /\ video' = [video EXCEPT ![MergeKey] = [pieces |-> Real(Group), holed |-> FALSE]]
  /\ overwritten' = IF MergeKey \in stuck
                      THEN overwritten \cup (ToSet(video[MergeKey].pieces) \ ToSet(Real(Group)))
                      ELSE overwritten
  /\ UNCHANGED <<now, pieces, left, stuck, disk, hls, items, queue, worker, indexer, repair, budget>>

(* indexer.main on what S3 listed: rows are added or refreshed, none removed,
   and hls_key is left as it is. *)
Indexed(rows, keys) == [k \in Piece |-> IF k \in keys /\ rows[k] = "absent" THEN "plain" ELSE rows[k]]
Listed == {k \in Piece : video[k] # NoVideo}

(* A reindex that fails is only logged. *)
MergerIndex(ok) ==
  /\ merger.pc = "index" /\ merger' = [merger EXCEPT !.pc = "enqueue"]
  /\ ~ ok => budget.faults > 0
  /\ budget' = IF ok THEN budget ELSE [budget EXCEPT !.faults = @ - 1]
  /\ items' = IF ok THEN Indexed(items, Listed) ELSE items
  /\ UNCHANGED <<world, disk, video, hls, queue, worker, indexer, repair>>

(* Nor does a job file that cannot be written stop it. *)
MergerEnqueue(ok) ==
  /\ merger.pc = "enqueue" /\ merger' = [merger EXCEPT !.pc = "cleanup"]
  /\ ~ ok => budget.faults > 0
  /\ budget' = IF ok THEN budget ELSE [budget EXCEPT !.faults = @ - 1]
  /\ queue' = IF ok THEN queue \cup {MergeKey} ELSE queue
  /\ UNCHANGED <<world, disk, video, hls, items, worker, indexer, repair>>

(* Mutant: the pieces of a failed group moved away, as the code once did. *)
MergerFailsMoves ==
  /\ merger.pc \in {"upload", "index", "enqueue", "cleanup"} /\ budget.faults > 0
  /\ budget' = [budget EXCEPT !.faults = @ - 1]
  /\ merger' = NoMerge
  /\ disk' = disk \ ToSet(Group.pieces)
  /\ UNCHANGED <<world, store, worker, indexer, repair>>

(* One os.remove; after the last the merger goes on with its scan.  One that fails
   is passed over, and its piece is part of every later scan. *)
MergerCleanup(ok) ==
  /\ merger.pc = "cleanup"
  /\ LET rest == (ToSet(Group.pieces) \cap disk) \ merger.kept
     IN IF rest = {}
          THEN /\ ok /\ merger' = [pc |-> "next", groups |-> Tail(merger.groups), kept |-> {}]
               /\ UNCHANGED <<disk, stuck, budget>>
        ELSE IF ok THEN disk' = disk \ {Min(rest)} /\ UNCHANGED <<merger, stuck, budget>>
        ELSE /\ budget.faults > 0 /\ budget' = [budget EXCEPT !.faults = @ - 1]
             /\ merger' = [merger EXCEPT !.kept = @ \cup {Min(rest)}]
             /\ stuck' = stuck \cup {Min(rest)} /\ UNCHANGED disk
  /\ UNCHANGED <<now, pieces, left, overwritten, store, worker, indexer, repair>>

(* ffmpeg or S3 raises, or the process is killed: the scan begins again. *)
MergerFails ==
  /\ merger.pc \in {"upload", "index", "enqueue", "cleanup"} /\ budget.faults > 0
  /\ budget' = [budget EXCEPT !.faults = @ - 1]
  /\ merger' = NoMerge
  /\ left' = IF merger.pc = "upload" THEN left ELSE left \cup (disk \cap ToSet(Group.pieces))
  /\ UNCHANGED <<now, pieces, stuck, overwritten, disk, store, worker, indexer, repair>>

-----------------------------------------------------------------------------
(* transcode_worker *)

NoWork == [pc |-> "idle", key |-> None, got |-> <<>>]

(* The first job by name, a hash of the key whose order is arbitrary and here
   the keys' own; a video with an hls_key is done already. *)
WorkerTake ==
  /\ worker.pc = "idle" /\ ~ LiveActive /\ queue # {}
  /\ LET k == Min(queue)
     IN worker' = IF items[k] = "hls" THEN [pc |-> "remove", key |-> k, got |-> <<>>]
                  ELSE [pc |-> "encode", key |-> k, got |-> <<>>]
  /\ UNCHANGED <<world, disk, store, merger, indexer, repair, budget>>

(* ffmpeg reads the source from S3 while it encodes. *)
WorkerEncode ==
  /\ worker.pc = "encode" /\ ~ LiveActive /\ video[worker.key] # NoVideo
  /\ worker' = [pc |-> "upload", key |-> worker.key, got |-> video[worker.key].pieces]
  /\ UNCHANGED <<world, disk, store, merger, indexer, repair, budget>>

(* A broadcast preempts the encode, or its source is gone: the job stays. *)
WorkerGivesUp ==
  /\ worker.pc = "encode" /\ (video[worker.key] # NoVideo => LiveActive)
  /\ worker' = NoWork
  /\ UNCHANGED <<world, disk, store, merger, indexer, repair, budget>>

WorkerUpload ==
  /\ worker.pc = "upload" /\ worker' = [worker EXCEPT !.pc = "record"]
  /\ hls' = [hls EXCEPT ![worker.key] = worker.got]
  /\ UNCHANGED <<world, disk, video, items, queue, merger, indexer, repair, budget>>

(* The UPDATE finds no row when the catalogue has none. *)
WorkerRecord ==
  /\ worker.pc = "record" /\ worker' = [worker EXCEPT !.pc = "remove"]
  /\ items' = [items EXCEPT ![worker.key] = IF @ = "absent" THEN @ ELSE "hls"]
  /\ UNCHANGED <<world, disk, video, hls, queue, merger, indexer, repair, budget>>

WorkerRemove ==
  /\ worker.pc = "remove" /\ worker' = NoWork
  /\ queue' = queue \ {worker.key}
  /\ UNCHANGED <<world, disk, video, hls, items, merger, indexer, repair, budget>>

WorkerFails ==
  /\ worker.pc \in {"encode", "upload", "record", "remove"} /\ budget.faults > 0
  /\ budget' = [budget EXCEPT !.faults = @ - 1]
  /\ worker' = NoWork
  /\ UNCHANGED <<world, disk, store, merger, indexer, repair>>

-----------------------------------------------------------------------------
(* The hourly indexer and the administrator *)

IndexerLists ==
  /\ indexer.pc = "idle" /\ Listed # {} /\ indexer' = [pc |-> "listed", seen |-> Listed]
  /\ budget.inputs > 0 /\ budget' = [budget EXCEPT !.inputs = @ - 1]
  /\ UNCHANGED <<world, disk, store, merger, worker, repair>>

IndexerWrites ==
  /\ indexer.pc = "listed" /\ indexer' = [pc |-> "idle", seen |-> {}]
  /\ items' = Indexed(items, indexer.seen)
  /\ UNCHANGED <<world, disk, video, hls, queue, merger, worker, repair, budget>>

(* delete_item: the video, its HLS and the row; a job is not looked for. *)
DeleteItem(k) ==
  /\ items[k] # "absent" /\ budget.inputs > 0
  /\ budget' = [budget EXCEPT !.inputs = @ - 1]
  /\ deleted' = deleted \cup ToSet(video[k].pieces)
  /\ video' = [video EXCEPT ![k] = NoVideo]
  /\ hls' = [hls EXCEPT ![k] = <<>>]
  /\ items' = [items EXCEPT ![k] = "absent"]
  /\ UNCHANGED <<world, disk, queue, services, tool, journal, copies, overtaken>>

EnqueueHls(k) ==
  /\ items[k] = "plain" /\ k \notin queue /\ queue' = queue \cup {k}
  /\ budget.inputs > 0 /\ budget' = [budget EXCEPT !.inputs = @ - 1]
  /\ UNCHANGED <<world, disk, video, hls, items, services, repair>>

-----------------------------------------------------------------------------
(* The operator's repair tools *)

Span(v)   == FoldSeq(+, 0, [i \in DOMAIN v.pieces |-> pieces[v.pieces[i]].end - pieces[v.pieces[i]].start])
VideoEnd(k) == pieces[k].start + Span(video[k])

(* list_stream_records and group_by_gap, by what S3 holds now *)
GroupByGap(ks) ==
  LET near(gs, k) == gs # <<>> /\ pieces[k].start - Max({VideoEnd(j) : j \in ToSet(Last(gs))}) <= RepairGap
      after[i \in 0..Len(ks)] ==
        IF i = 0 THEN <<>>
        ELSE IF near(after[i - 1], ks[i]) THEN Joined(after[i - 1], ks[i]) ELSE Apart(after[i - 1], ks[i])
  IN after[Len(ks)]

(* fix_gaps: the repairs it finds unfinished first, then the videos with holes. *)
Pending(k) == journal["gaps"][k] # NoJournal
Broken(k)  == video[k].holed

GapsPlan ==
  LET pending == {k \in Listed : Pending(k)}
      broken == {k \in Listed \ pending : Broken(k)}
      ks == Ordered(pending) \o Ordered(broken)
  IN [i \in DOMAIN ks |-> <<ks[i]>>]

NoTool == [pc |-> "idle", kind |-> "-", groups |-> <<>>, dropped |-> 0, failed |-> FALSE]

ToolPlans(kind) == IF kind = "repair" THEN GroupByGap(Ordered(Listed)) ELSE GapsPlan

(* A run that finds nothing changes nothing and is left out. *)
ToolStarts(kind) ==
  /\ tool.pc = "idle" /\ ToolPlans(kind) # <<>> /\ budget.inputs > 0
  /\ budget' = [budget EXCEPT !.inputs = @ - 1]
  /\ tool' = [pc |-> "group", kind |-> kind, dropped |-> 0, failed |-> FALSE,
              groups |-> ToolPlans(kind)]
  /\ UNCHANGED <<world, disk, store, services, journal, copies, overtaken, deleted>>

Plan   == Head(tool.groups)
Target == Head(Plan)
Sources == Tail(journal[tool.kind][Target])
Step(pc) == tool' = [tool EXCEPT !.pc = pc, !.dropped = 0]
NextGroup == tool' = [tool EXCEPT !.pc = "group", !.groups = Tail(@)]

(* Mutant: the journal is not asked. *)
ToolGroupRestages ==
  /\ tool.pc = "group" /\ tool.groups # <<>>
  /\ IF tool.kind = "repair" /\ Len(Plan) = 1 THEN NextGroup ELSE Step("stage")
  /\ UNCHANGED <<world, disk, store, services, journal, copies, overtaken, deleted, budget>>

(* process_group: resume what the journal has, else stage; one piece alone is
   only annotated again. *)
ToolGroup ==
  /\ tool.pc = "group" /\ tool.groups # <<>>
  /\ IF journal[tool.kind][Target] # NoJournal THEN Step("publish")
     ELSE IF tool.kind = "repair" /\ Len(Plan) = 1 THEN NextGroup
     ELSE Step("stage")
  /\ UNCHANGED <<world, disk, store, services, journal, copies, overtaken, deleted, budget>>

(* repair_archive ends with a reindex, unless a group failed. *)
ToolEnds ==
  /\ tool.pc = "group" /\ tool.groups = <<>> /\ tool' = NoTool
  /\ items' = IF tool.kind = "repair" /\ ~ tool.failed THEN Indexed(items, Listed) ELSE items
  /\ UNCHANGED <<world, disk, video, hls, queue, services, journal, copies, overtaken, deleted, budget>>

(* Gluing keeps the holes of its sources, rebuilding closes those of one video. *)
Glued(ks) ==
  LET after[i \in 0..Len(ks)] == IF i = 0 THEN <<>> ELSE after[i - 1] \o video[ks[i]].pieces
  IN after[Len(ks)]
Merged(ks) == [pieces |-> Glued(ks), holed |-> \E k \in ToSet(ks) : video[k].holed]
Rebuilt(k) == [video[k] EXCEPT !.holed = FALSE]

ToolStages ==
  /\ tool.pc = "stage" /\ ToSet(Plan) \subseteq Listed /\ Step("journal")
  /\ staged' = [staged EXCEPT ![tool.kind][Target] =
       IF tool.kind = "repair" THEN Merged(Plan) ELSE Rebuilt(Target)]
  /\ read' = [read EXCEPT ![tool.kind][Target] = UNION {ToSet(video[k].pieces) : k \in ToSet(Plan)}]
  /\ UNCHANGED <<world, disk, store, services, journal, overtaken, deleted, budget>>

ToolJournals ==
  /\ tool.pc = "journal" /\ Step("publish")
  /\ journal' = [journal EXCEPT ![tool.kind][Target] = Plan]
  /\ UNCHANGED <<world, disk, store, services, copies, overtaken, deleted, budget>>

(* What a repair removes of a video beyond what it had read for its copy. *)
Removes(k) == overtaken' = overtaken \cup (ToSet(video[k].pieces) \ read[tool.kind][Target])

ToolPublishes ==
  /\ tool.pc = "publish" /\ staged[tool.kind][Target] # NoVideo
  /\ Step(IF tool.kind = "repair" THEN "drop" ELSE "row")
  /\ video' = [video EXCEPT ![Target] = staged[tool.kind][Target]] /\ Removes(Target)
  /\ UNCHANGED <<world, disk, hls, items, queue, services, journal, copies, deleted, budget>>

(* One source and its HLS copy at a time, then the rows of all of them. *)
ToolDrops ==
  /\ tool.pc = "drop"
  /\ IF tool.dropped < Len(Sources)
       THEN LET k == Sources[tool.dropped + 1]
            IN /\ video' = [video EXCEPT ![k] = NoVideo] /\ Removes(k)
               /\ hls' = [hls EXCEPT ![k] = <<>>]
               /\ tool' = [tool EXCEPT !.dropped = @ + 1]
               /\ UNCHANGED items
       ELSE /\ items' = [k \in Piece |-> IF k \in ToSet(Sources) THEN "absent" ELSE items[k]]
            /\ Step("hls") /\ UNCHANGED <<video, hls, overtaken>>
  /\ UNCHANGED <<world, disk, queue, services, journal, copies, deleted, budget>>

(* The stale HLS copy and its hls_key, in the order of each tool. *)
ToolClearsHls ==
  /\ tool.pc = "hls" /\ Step(IF tool.kind = "repair" THEN "row" ELSE "enqueue")
  /\ hls' = [hls EXCEPT ![Target] = <<>>]
  /\ UNCHANGED <<world, disk, video, items, queue, services, journal, copies, overtaken, deleted, budget>>

ToolClearsRow ==
  /\ tool.pc = "row" /\ Step(IF tool.kind = "repair" THEN "enqueue" ELSE "hls")
  /\ items' = [items EXCEPT ![Target] = IF @ = "absent" THEN @ ELSE "plain"]
  /\ UNCHANGED <<world, disk, video, hls, queue, services, journal, copies, overtaken, deleted, budget>>

ToolEnqueues ==
  /\ tool.pc = "enqueue" /\ Step("unjournal")
  /\ queue' = queue \cup {Target}
  /\ UNCHANGED <<world, disk, video, hls, items, services, journal, copies, overtaken, deleted, budget>>

ToolUnjournals ==
  /\ tool.pc = "unjournal" /\ Step("unstage")
  /\ journal' = [journal EXCEPT ![tool.kind][Target] = NoJournal]
  /\ UNCHANGED <<world, disk, store, services, copies, overtaken, deleted, budget>>

ToolUnstages ==
  /\ tool.pc = "unstage" /\ NextGroup
  /\ staged' = [staged EXCEPT ![tool.kind][Target] = NoVideo]
  /\ read' = [read EXCEPT ![tool.kind][Target] = {}]
  /\ UNCHANGED <<world, disk, store, services, journal, overtaken, deleted, budget>>

(* S3 or ffmpeg gives up on one group and the tool goes on with the next, or
   the tool dies. *)
ToolFails(dies) ==
  /\ tool.pc \notin {"idle", "group"} /\ budget.faults > 0
  /\ budget' = [budget EXCEPT !.faults = @ - 1]
  /\ tool' = IF dies THEN NoTool ELSE [tool EXCEPT !.pc = "group", !.groups = Tail(@), !.dropped = 0, !.failed = TRUE]
  /\ UNCHANGED <<world, disk, store, services, journal, copies, overtaken, deleted>>

(* A source or a staged object is gone: the group is given up. *)
ToolMisses ==
  /\ \/ tool.pc = "stage" /\ ~ ToSet(Plan) \subseteq Listed
     \/ tool.pc = "publish" /\ staged[tool.kind][Target] = NoVideo
  /\ tool' = [tool EXCEPT !.pc = "group", !.groups = Tail(@), !.failed = TRUE]
  /\ UNCHANGED <<world, disk, store, services, journal, copies, overtaken, deleted, budget>>

-----------------------------------------------------------------------------
Empty == [kind \in {"repair", "gaps"} |-> [k \in Piece |-> NoVideo]]

(* Nothing was recorded yet, or the archive of the days before the merger: a
   video per piece, some with holes, transcoded or waiting to be. *)
Init ==
  /\ \/ /\ now = 0 /\ pieces = <<>>
        /\ video = [k \in Piece |-> NoVideo] /\ hls = [k \in Piece |-> <<>>]
        /\ items = [k \in Piece |-> "absent"] /\ queue = {}
     \/ \E n \in Piece, far \in [Piece -> BOOLEAN], holed \in [Piece -> BOOLEAN], done \in BOOLEAN :
        LET start(k) == (k - 1) * (1 + RepairGap) + Cardinality({j \in 2..k : far[j]})
        IN /\ n <= MaxInputs /\ now = MaxTime
           /\ pieces = [k \in 1..n |-> [start |-> start(k), end |-> start(k) + 1, real |-> TRUE]]
           /\ video = [k \in Piece |-> IF k <= n THEN [pieces |-> <<k>>, holed |-> holed[k]] ELSE NoVideo]
           /\ hls = [k \in Piece |-> IF done /\ k <= n THEN <<k>> ELSE <<>>]
           /\ items = [k \in Piece |-> IF k > n THEN "absent" ELSE IF done THEN "hls" ELSE "plain"]
           /\ queue = IF done THEN {} ELSE 1..n
  /\ disk = {} /\ left = {} /\ stuck = {} /\ overwritten = {} /\ merger = NoMerge /\ worker = NoWork
  /\ indexer = [pc |-> "idle", seen |-> {}] /\ tool = NoTool
  /\ staged = Empty /\ read = [kind \in {"repair", "gaps"} |-> [k \in Piece |-> {}]] /\ overtaken = {}
  /\ journal = [kind \in {"repair", "gaps"} |-> [k \in Piece |-> NoJournal]]
  /\ deleted = {} /\ budget = [faults |-> MaxFaults, inputs |-> MaxInputs - Len(pieces)]

Merger == \/ MergerScan \/ MergerNext \/ MergerUpload \/ MergerIndex(TRUE) \/ MergerEnqueue(TRUE) \/ MergerCleanup(TRUE)
Worker == \/ WorkerTake \/ WorkerEncode \/ WorkerGivesUp \/ WorkerUpload \/ WorkerRecord \/ WorkerRemove
Tool == \/ ToolGroup \/ ToolEnds \/ ToolStages \/ ToolJournals \/ ToolPublishes \/ ToolDrops
        \/ ToolClearsHls \/ ToolClearsRow \/ ToolEnqueues \/ ToolUnjournals \/ ToolUnstages \/ ToolMisses

Next ==
  \/ Tick \/ EndPiece \/ \E real \in BOOLEAN : StartPiece(real)
  \/ Merger \/ MergerIndex(FALSE) \/ MergerEnqueue(FALSE) \/ MergerCleanup(FALSE) \/ MergerFails
  \/ Worker \/ WorkerFails
  \/ IndexerLists \/ IndexerWrites
  \/ \E k \in Piece : DeleteItem(k) \/ EnqueueHls(k)
  \/ Tool \/ \E kind \in {"repair", "gaps"} : ToolStarts(kind)
  \/ \E dies \in BOOLEAN : ToolFails(dies)

Spec == Init /\ [][Next]_vars
-----------------------------------------------------------------------------
Holds(v, p) == p \in ToSet(v.pieces)

(* Every record has its fields; a video that exists has pieces in it, and so has
   what the worker is about to upload. *)
TypeOK ==
  /\ now \in 0..MaxTime /\ disk \subseteq Piece /\ queue \subseteq Piece /\ deleted \subseteq Piece
  /\ \A p \in DOMAIN pieces : pieces[p].end # None => pieces[p].start < pieces[p].end
  /\ \A k \in Piece : items[k] \in {"absent", "plain", "hls"} /\ (video[k] # NoVideo => video[k].pieces # <<>>)
  /\ worker.pc \in {"upload", "record"} => worker.got # <<>>

(* Whatever stops where, a recorded piece that is more than a scrap is on the disk,
   in a video, or in the staged copy a journal will publish (cleanup after upload,
   staging and journal before the deletions).  A piece goes in three ways only: an
   administrator deletes its video; a repair publishes a copy, or removes a source,
   that the piece had reached since the copy was made; or a piece the merger could
   not remove is published again over the video its group had become. *)
Kept(p) ==
  \/ p \in disk \/ p \in deleted
  \/ \E k \in Piece : Holds(video[k], p)
  \/ \E kind \in {"repair", "gaps"}, k \in Piece : journal[kind][k] # NoJournal /\ Holds(staged[kind][k], p)
NothingLost == \A p \in DOMAIN pieces : pieces[p].real => Kept(p) \/ p \in overtaken \/ p \in overwritten

(* No piece is played twice: not within a video, nor in two of them once no journal
   is to remove the second.  The exception is a published piece that a failed merger
   or a failed removal left on the disk, so that it will be published again: by then
   a repair may have moved it into another video, or its group may begin later. *)
NoRepeat ==
  \A p \in Piece \ (left \cup stuck) :
    /\ \A k \in Piece : \A i, j \in DOMAIN video[k].pieces :
         video[k].pieces[i] = p /\ video[k].pieces[j] = p => i = j
    /\ \A j, k \in Piece : j < k /\ Holds(video[j], p) /\ Holds(video[k], p) => k \in ToSet(journal["repair"][j])

(* A journal is never without the staged video it was written for, so that an
   interrupted repair can always be resumed (commit_state removes it first). *)
JournalBacked ==
  \A kind \in {"repair", "gaps"}, k \in Piece : journal[kind][k] # NoJournal => staged[kind][k] # NoVideo

(* What any of the programs may find when it starts: typed, no piece twice, and
   every journal can be resumed. *)
ArchiveConsistent == TypeOK /\ JournalBacked /\ NoRepeat
=============================================================================
