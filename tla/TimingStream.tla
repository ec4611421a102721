---------------------------- MODULE TimingStream ----------------------------
(***************************************************************************)
(* The live stream of one analysis session: the durable outbox             *)
(* (stream_events), the broker of the API process that fans it out to      *)
(* bounded queues (sse.py), the /stream handler that merges a snapshot, a  *)
(* replay from the client's cursor and its queue (api.py), and what        *)
(* retention and rebuild do to the outbox underneath.                      *)
(*                                                                         *)
(* The API is one asyncio process: between two awaits a handler or the     *)
(* broker runs alone, and every await of a database thread is a step.      *)
(* Sending to the client is part of the step that yields: a client that    *)
(* loses what was sent behaves as one that disconnected just before.       *)
(***************************************************************************)
EXTENDS Integers, Sequences, FiniteSets, Functions

CONSTANTS
    Streams,        \* browser connections, each with its EventSource
    FirstHeat,      \* 0: no source heat yet, 1: the session has its first heat
    MaxEvents,      \* bound on rows ever inserted into stream_events
    MaxHeats,       \* bound on source heats, rebuilt ones included
    MaxFaults,      \* database errors while a stream is set up
    Pruning,        \* whether retention removes outbox rows
    BatchSize,      \* DEFAULT_BATCH_SIZE
    QueueSize,      \* DEFAULT_QUEUE_SIZE
    ReplayLimit     \* 1_024 replayed events

ASSUME StreamAssumption ==
    /\ FirstHeat \in {0, 1} /\ MaxEvents \in Nat /\ MaxHeats \in Nat
    /\ MaxFaults \in Nat /\ Pruning \in BOOLEAN
    /\ BatchSize \in Nat \ {0} /\ QueueSize \in Nat \ {0} /\ ReplayLimit \in Nat \ {0}

VARIABLES
    events,     \* every row ever inserted, by id: own session or another, source heat
    gone,       \* ids that retention or rebuild deleted
    session,    \* closed or not, ids of its source heats in the order created, deleted_through_id
    broker,     \* TimingStreamBroker: control point, _last_event_id, batch in hand
    queues,     \* one bounded queue per subscribed stream
    subs,       \* streams whose queue is in _subscribers
    orphans,    \* queues left in _subscribers by a failed setup
    conn,       \* the /stream handler of each connection: control point and locals
    client      \* the browser: last event id, outbox rows it knows of, heats it merged

outbox == <<events, gone, session>>
fanout == <<broker, queues, subs, orphans>>
vars == <<outbox, fanout, conn, client>>

NoCursor == -1      \* no Last-Event-ID
ResetRequired == -1 \* a queue item; 0 is a quality item, others are event ids
Quality == 0

HandlerPoint == {"off", "cursor_read", "cursor_set", "snapshot", "window", "prior",
                 "first", "replay", "live", "restart", "resnapshot"}
Event == [own : BOOLEAN, heat : Nat]
Handler == [pc : HandlerPoint, cursor : Int, top : Nat, delivered : Nat, asof : Nat,
            heat : Nat, reset : BOOLEAN, batch : SUBSET Nat, full : BOOLEAN, replayed : Nat]
Client == [cursor : Int, seen : SUBSET Nat, heats : SUBSET Nat]

Idle == [pc |-> "off", cursor |-> NoCursor, top |-> 0, delivered |-> 0, asof |-> 0,
         heat |-> 0, reset |-> FALSE, batch |-> {}, full |-> TRUE, replayed |-> 0]
NewClient == [cursor |-> NoCursor, seen |-> {}, heats |-> {}]
NewBroker == [pc |-> "idle", last |-> 0, batch |-> {}, full |-> FALSE]

\* The type invariant of the outbox, the broker, the handlers and the clients.
TypeOK ==
    /\ events \in Seq(Event)
    /\ gone \subseteq Nat
    /\ session \in [closed : BOOLEAN, heats : Seq(Nat), floor : Nat]
    /\ broker \in [pc : {"idle", "fan", "quality"}, last : Nat, batch : SUBSET Nat,
                   full : BOOLEAN]
    /\ queues \in [Streams -> Seq(Int)]
    /\ subs \subseteq Streams
    /\ orphans \in Nat
    /\ conn \in [Streams -> Handler]
    /\ client \in [Streams -> Client]

Init ==
    /\ events = <<>> /\ gone = {}
    /\ session = [closed |-> FALSE, heats |-> [h \in 1..FirstHeat |-> h], floor |-> 0]
    /\ broker = NewBroker
    /\ queues = [s \in Streams |-> <<>>]
    /\ subs = {} /\ orphans = 0
    /\ conn = [s \in Streams |-> Idle]
    /\ client = [s \in Streams |-> NewClient]

-----------------------------------------------------------------------------
(* Reads of the database.                                                  *)

Stored == DOMAIN events \ gone
OwnEver == {e \in DOMAIN events : events[e].own}
Own == OwnEver \ gone

\* The latest source heat (0: none).  Rows keep their own number here, so that a
\* deleted heat and a rebuilt one stay apart; the code compares source_heat_id.
Heat == Len(session.heats)
HeatId(h) == IF h = 0 THEN 0 ELSE session.heats[h]

\* COALESCE(MAX(id), 0).
Newest(S) == IF S = {} THEN 0 ELSE CHOOSE x \in S : \A y \in S : y <= x

\* ... WHERE id > after ORDER BY id LIMIT limit.
Page(S, after, limit) ==
    {e \in S : e > after /\ Cardinality({d \in S : after < d /\ d < e}) < limit}

\* _stream_cursor: the barrier of a snapshot.
Barrier == Newest(Own)

\* CursorWindow.requires_reset, for a positive cursor.
RequiresReset(cursor) ==
    \/ cursor > Newest(Own)
    \/ session.floor > 0 /\ cursor <= session.floor
    \/ cursor # Newest(Own) /\ cursor \notin Own

\* Mutant: the heat of the cursor's event is not compared.
PriorStaleRowOnly(s) == conn[s].cursor \notin Own

\* The event at the cursor is missing or belongs to another heat.
PriorStale(s) ==
    \/ conn[s].cursor \notin Own
    \/ conn[s].heat # 0 /\ HeatId(events[conn[s].cursor].heat) # HeatId(conn[s].heat)

-----------------------------------------------------------------------------
(* The writers.                                                            *)

\* append_stream_events inside the transaction of a frame's metrics; after a stop
\* the worker may still finish its frame, and a rebuild replays them all.
AppendStreamEvent ==
    /\ Heat > 0 /\ Len(events) < MaxEvents
    /\ events' = Append(events, [own |-> TRUE, heat |-> Heat])
    /\ UNCHANGED <<gone, session, fanout, conn, client>>

\* A row of another session takes the next id.
AppendForeignEvent ==
    /\ Len(events) < MaxEvents
    /\ events' = Append(events, [own |-> FALSE, heat |-> 0])
    /\ UNCHANGED <<gone, session, fanout, conn, client>>

\* The normalizer starts a new source heat.
NewHeat ==
    /\ Heat < MaxHeats
    /\ session' = [session EXCEPT !.heats = Append(@, Newest(Range(@)) + 1)]
    /\ UNCHANGED <<events, gone, fanout, conn, client>>

\* stop_session or abort_session.
StopSession ==
    /\ ~session.closed
    /\ session' = [session EXCEPT !.closed = TRUE]
    /\ UNCHANGED <<events, gone, fanout, conn, client>>

\* apply_retention: the oldest rows of a closed session, and their floor.
ApplyRetention ==
    /\ Pruning /\ session.closed
    /\ \E through \in Own :
        /\ gone' = gone \cup {e \in Own : e <= through}
        /\ session' = [session EXCEPT !.floor = Newest({through, @})]
    /\ UNCHANGED <<events, fanout, conn, client>>

\* The id a rebuild gives its first heat: one that was never used.
RebuiltHeatId == Newest(Range(session.heats)) + 1

\* _reset_derived_state: every row of the session goes, the floor rises, and
\* the first rebuilt heat is inserted.
ResetDerivedState ==
    /\ session.closed /\ Heat \in 1..(MaxHeats - 1)
    /\ gone' = gone \cup Own
    /\ session' = [session EXCEPT !.heats = Append(@, RebuiltHeatId),
                                  !.floor = Newest(Own \cup {@})]
    /\ UNCHANGED <<events, fanout, conn, client>>

-----------------------------------------------------------------------------
(* The broker.                                                             *)

Subscribed == subs # {} \/ orphans > 0

\* Mutant: a full queue loses the item.
OfferDrops(q, item) == IF Len(q) < QueueSize THEN Append(q, item) ELSE q

\* Mutant: a full queue is drained and the reset marker forgotten.
OfferDrains(q, item) == IF Len(q) < QueueSize THEN Append(q, item) ELSE <<>>

\* _fanout to one queue: a full queue is drained and gets a reset marker.
Offer(q, item) == IF Len(q) < QueueSize THEN Append(q, item) ELSE <<ResetRequired>>

Fanout(item) == queues' = [s \in Streams |->
                             IF s \in subs THEN Offer(queues[s], item) ELSE queues[s]]

\* _run: the thread reads the next global batch.
BrokerRead ==
    /\ broker.pc = "idle" /\ Subscribed
    /\ LET batch == Page(Stored, broker.last, BatchSize)
       IN broker' = [broker EXCEPT !.pc = "fan", !.batch = batch,
                                   !.full = Cardinality(batch) = BatchSize]
    /\ UNCHANGED <<outbox, queues, subs, orphans, conn, client>>

\* One event of the batch.  The code's loop has no await; taking its rounds as
\* steps only adds interleavings.
BrokerFan ==
    /\ broker.pc = "fan"
    /\ \E e \in broker.batch :
        /\ \A d \in broker.batch : e <= d
        /\ broker' = [broker EXCEPT !.batch = @ \ {e}, !.last = IF e > @ THEN e ELSE @]
        /\ IF events[e].own THEN Fanout(e) ELSE UNCHANGED queues
    /\ UNCHANGED <<outbox, subs, orphans, conn, client>>

\* After a short batch the freshness of the subscribed sessions is looked at.
BrokerBatchDone ==
    /\ broker.pc = "fan" /\ broker.batch = {}
    /\ broker' = [broker EXCEPT !.pc = IF broker.full THEN "idle" ELSE "quality"]
    /\ UNCHANGED <<outbox, queues, subs, orphans, conn, client>>

\* A changed freshness fingerprint is fanned out without a cursor.
BrokerQuality ==
    /\ broker.pc = "quality"
    /\ broker' = [broker EXCEPT !.pc = "idle"]
    /\ Fanout(Quality) \/ UNCHANGED queues
    /\ UNCHANGED <<outbox, subs, orphans, conn, client>>

BrokerStep == BrokerRead \/ BrokerFan \/ BrokerBatchDone \/ BrokerQuality
-----------------------------------------------------------------------------
(* Setting a stream up: subscribe, snapshot, cursor checks.                *)

At(s, p) == conn[s].pc = p
Goto(s, p) == conn' = [conn EXCEPT ![s].pc = p]

\* A browser connects: a page load has no cursor, EventSource sends its last id.
\* subscribe() suspends only when it finds no other subscriber.
Open(s) ==
    /\ At(s, "off")
    /\ \E c \in {client[s], NewClient} :
        /\ client' = [client EXCEPT ![s] = c]
        /\ conn' = [conn EXCEPT ![s] = [Idle EXCEPT
                      !.pc = IF Subscribed THEN "snapshot" ELSE "cursor_read",
                      !.cursor = c.cursor]]
    /\ subs' = IF Subscribed THEN subs \cup {s} ELSE subs
    /\ UNCHANGED <<outbox, broker, queues, orphans>>

\* The thread reads the newest global id.
CursorRead(s) ==
    /\ At(s, "cursor_read")
    /\ conn' = [conn EXCEPT ![s].pc = "cursor_set", ![s].top = Newest(Stored)]
    /\ UNCHANGED <<outbox, fanout, client>>

\* Mutant: the broker starts one past the newest id.
CursorSetSkips(s) ==
    /\ At(s, "cursor_set")
    /\ broker' = [broker EXCEPT !.last = conn[s].top + 1]
    /\ subs' = subs \cup {s}
    /\ Goto(s, "snapshot")
    /\ UNCHANGED <<outbox, queues, orphans, client>>

\* subscribe() resumes: the broker starts there, and the queue is registered.
CursorSet(s) ==
    /\ At(s, "cursor_set")
    /\ broker' = [broker EXCEPT !.last = conn[s].top]
    /\ subs' = subs \cup {s}
    /\ conn' = [conn EXCEPT ![s].pc = "snapshot", ![s].top = 0]
    /\ UNCHANGED <<outbox, queues, orphans, client>>

\* The snapshot, read in one transaction; cursor 0 always starts over.
Snapshot(s) ==
    /\ At(s, "snapshot")
    /\ conn' = [conn EXCEPT ![s].delivered = Barrier, ![s].asof = Len(events),
                            ![s].heat = Heat, ![s].reset = conn[s].cursor = 0,
                            ![s].pc = IF conn[s].cursor > 0 THEN "window" ELSE "first"]
    /\ UNCHANGED <<outbox, fanout, client>>

\* read_cursor_window (its last SELECT is repeated by the check that follows).
CursorWindow(s) ==
    /\ At(s, "window")
    /\ conn' = [conn EXCEPT ![s].reset = RequiresReset(conn[s].cursor),
                            ![s].pc = IF RequiresReset(conn[s].cursor)
                                      THEN "first" ELSE "prior"]
    /\ UNCHANGED <<outbox, fanout, client>>

\* The heat of the event at the cursor.
CursorPrior(s) ==
    /\ At(s, "prior")
    /\ conn' = [conn EXCEPT ![s].reset = PriorStale(s), ![s].pc = "first"]
    /\ UNCHANGED <<outbox, fanout, client>>

\* The queue leaves _subscribers.
Unsubscribe(s) ==
    /\ subs' = subs \ {s}
    /\ queues' = [queues EXCEPT ![s] = <<>>]

\* The requested generation is not current, or the session does not exist.
Refused(s) ==
    /\ At(s, "window") \/ At(s, "first")
    /\ Unsubscribe(s)
    /\ conn' = [conn EXCEPT ![s] = Idle]
    /\ UNCHANGED <<outbox, broker, orphans, client>>

\* A database error before the response starts is not one of the handled
\* exceptions: the request fails and its queue stays registered.
SetupFault(s) ==
    /\ conn[s].pc \in {"cursor_read", "snapshot", "window", "prior"}
    /\ orphans < MaxFaults
    /\ orphans' = IF s \in subs THEN orphans + 1 ELSE orphans
    /\ Unsubscribe(s)
    /\ conn' = [conn EXCEPT ![s] = Idle]
    /\ UNCHANGED <<outbox, broker, client>>

-----------------------------------------------------------------------------
(* event_stream: what the client is sent.                                  *)

\* A snapshot replaces what the client knew.
Show(s, asof, heat, barrier) ==
    client' = [client EXCEPT ![s] =
        [cursor |-> barrier, seen |-> {e \in OwnEver : e <= asof}, heats |-> {heat} \ {0}]]

\* A delta is merged into it.
Merge(s, e) ==
    client' = [client EXCEPT ![s] =
        [cursor |-> e, seen |-> @.seen \cup {e}, heats |-> @.heats \cup {events[e].heat}]]

\* The heat of an event is not the one the client's snapshot was taken in.
OtherHeat(s, e) == conn[s].heat # 0 /\ HeatId(events[e].heat) # HeatId(conn[s].heat)

\* The locals event_stream still reads once its first item is decided.
Sending(p, delivered, heat) ==
    [Idle EXCEPT !.pc = p, !.delivered = delivered, !.heat = heat]

\* The first item: snapshot, reset, or the start of a replay.
First(s) ==
    /\ At(s, "first")
    /\ IF conn[s].cursor = NoCursor \/ conn[s].reset
       THEN /\ Show(s, conn[s].asof, conn[s].heat, conn[s].delivered)
            /\ conn' = [conn EXCEPT ![s] = Sending("live", conn[s].delivered, conn[s].heat)]
       ELSE /\ conn' = [conn EXCEPT ![s] = Sending("replay", conn[s].cursor, conn[s].heat)]
            /\ UNCHANGED client
    /\ UNCHANGED <<outbox, fanout>>

\* The next page of the replay.
ReplayRead(s) ==
    /\ At(s, "replay") /\ conn[s].batch = {}
    /\ conn[s].full /\ conn[s].replayed < ReplayLimit
    /\ LET page == Page(Own, conn[s].delivered, BatchSize)
       IN conn' = [conn EXCEPT ![s].batch = page, ![s].full = Cardinality(page) = BatchSize]
    /\ UNCHANGED <<outbox, fanout, client>>

\* One replayed event: a delta, or another heat that needs a new snapshot.
ReplayEvent(s) ==
    /\ At(s, "replay")
    /\ \E e \in conn[s].batch :
        /\ \A d \in conn[s].batch : e <= d
        /\ IF OtherHeat(s, e)
           THEN /\ conn' = [conn EXCEPT ![s].pc = "restart", ![s].batch = {},
                                        ![s].replayed = @ + 1]
                /\ UNCHANGED client
           ELSE /\ conn' = [conn EXCEPT ![s].batch = @ \ {e}, ![s].delivered = e,
                                        ![s].replayed = @ + 1]
                /\ Merge(s, e)
    /\ UNCHANGED <<outbox, fanout>>

\* The loop ends with a short page, or gives up at the limit.
ReplayDone(s) ==
    /\ At(s, "replay") /\ conn[s].batch = {}
    /\ ~conn[s].full \/ conn[s].replayed >= ReplayLimit
    /\ conn' = [conn EXCEPT ![s] = Sending(IF @.replayed >= ReplayLimit THEN "resnapshot"
                                           ELSE "live", @.delivered, @.heat)]
    /\ UNCHANGED <<outbox, fanout, client>>

\* A new snapshot, sent as reset.
Resnapshot(s) ==
    /\ At(s, "restart") \/ At(s, "resnapshot")
    /\ conn' = [conn EXCEPT ![s] = Sending(IF @.pc = "restart" /\ @.replayed >= ReplayLimit
                                           THEN "resnapshot" ELSE "live",
                                           Barrier, Heat)]
    /\ Show(s, Len(events), Heat, Barrier)
    /\ UNCHANGED <<outbox, fanout>>

\* Mutant: the queue is not filtered by what the replay already delivered.
AlreadyDeliveredNever(s, item) == FALSE

AlreadyDelivered(s, item) == item <= conn[s].delivered

\* The next queue item: a reset marker, a delta, or a quality note.
TakeItem(s) ==
    /\ At(s, "live") /\ queues[s] # <<>>
    /\ queues' = [queues EXCEPT ![s] = Tail(@)]
    /\ LET item == Head(queues[s])
       IN \/ /\ item = ResetRequired \/ (item > 0 /\ ~AlreadyDelivered(s, item)
                                                 /\ OtherHeat(s, item))
             /\ Goto(s, "resnapshot")
             /\ UNCHANGED client
          \/ /\ item = Quality \/ (item > 0 /\ AlreadyDelivered(s, item))
             /\ UNCHANGED <<conn, client>>
          \/ /\ item > 0 /\ ~AlreadyDelivered(s, item) /\ ~OtherHeat(s, item)
             /\ conn' = [conn EXCEPT ![s].delivered = item]
             /\ Merge(s, item)
    /\ UNCHANGED <<outbox, broker, subs, orphans>>

\* The client goes away while the response is sent: the finally block runs.
Disconnect(s) ==
    /\ conn[s].pc \in {"first", "replay", "live", "restart", "resnapshot"}
    /\ Unsubscribe(s)
    /\ conn' = [conn EXCEPT ![s] = Idle]
    /\ UNCHANGED <<outbox, broker, orphans, client>>

\* The API process restarts: connections and memory go, and start() reads the
\* newest id again.
ApiRestart ==
    /\ broker' = [NewBroker EXCEPT !.last = Newest(Stored)]
    /\ queues' = [s \in Streams |-> <<>>]
    /\ subs' = {} /\ orphans' = 0
    /\ conn' = [s \in Streams |-> Idle]
    /\ UNCHANGED <<outbox, client>>

-----------------------------------------------------------------------------

HandlerStep(s) ==
    \/ CursorRead(s) \/ CursorSet(s) \/ Snapshot(s) \/ CursorWindow(s) \/ CursorPrior(s)
    \/ First(s) \/ ReplayRead(s) \/ ReplayEvent(s) \/ ReplayDone(s)
    \/ Resnapshot(s) \/ TakeItem(s)

WriterStep ==
    \/ AppendStreamEvent \/ AppendForeignEvent \/ NewHeat
    \/ StopSession \/ ApplyRetention \/ ResetDerivedState

Next ==
    \/ WriterStep
    \/ BrokerStep
    \/ \E s \in Streams : Open(s) \/ HandlerStep(s) \/ Refused(s) \/ SetupFault(s)
                          \/ Disconnect(s)
    \/ ApiRestart

Spec == Init /\ [][Next]_vars

\* The event loop runs every ready coroutine; nothing is assumed of writers,
\* browsers or restarts.
Fairness == WF_vars(BrokerStep) /\ \A s \in Streams : WF_vars(HandlerStep(s))
FairSpec == Spec /\ Fairness

-----------------------------------------------------------------------------

\* What a client holds is complete: every event in the outbox up to its last
\* event id was sent to it or is part of a snapshot it got, across reconnects,
\* overflowing queues, heat changes, rebuilds and restarts of the API.
NoSilentLoss ==
    \A s \in Streams : \A e \in Own :
        e <= client[s].cursor => e \in client[s].seen

\* A client never merges deltas of two source heats into one view.
OneHeatPerView ==
    \A s \in Streams : \A h, k \in client[s].heats : h = k

\* Whatever the broker has passed is queued for every live stream, or a reset
\* marker is.
QueueComplete ==
    \A s \in subs : At(s, "live") =>
        \A e \in Own : conn[s].delivered < e /\ e <= broker.last =>
            \E i \in DOMAIN queues[s] : queues[s][i] \in {e, ResetRequired}

\* No row is lost between the outbox and a queue: the handlers' state is typed and
\* the queues are complete.
QueuesConsistent == TypeOK /\ QueueComplete

\* Deltas reach a client in increasing order of their ids, whether they come
\* from the replay or from the queue: none is merged twice.
DeltasAdvance ==
    [][\A s \in Streams :
         conn[s].pc \in {"replay", "live"} /\ client'[s].cursor # client[s].cursor
            /\ conn'[s].pc = conn[s].pc
         => client'[s].cursor > client[s].cursor]_vars

\* Every event reaches a client that stays connected, unless it is deleted.
CatchUp ==
    \A s \in Streams : \A e \in 1..MaxEvents :
        (At(s, "live") /\ e \in Own)
            ~> (e \in client[s].seen \/ e \in gone \/ At(s, "off"))
=============================================================================
