------------------------- MODULE TimingStreamProofs -------------------------
(***************************************************************************)
(* The live stream for every number of events, heats and faults and every  *)
(* size of batches, queues and replays.                                    *)
(***************************************************************************)
EXTENDS TimingStream, SequenceTheorems, FiniteSetTheorems, WellFoundedInduction, TLAPS

Setup == {"window", "prior", "first"}
Serving == {"window", "prior", "first", "replay", "live", "restart", "resnapshot"}
Outside == {"off", "cursor_read", "cursor_set"}

\* The outbox: ids, heats in the order they were created, and rows of known heats.
OutboxInv ==
    /\ gone \subseteq DOMAIN events
    /\ \A i, j \in DOMAIN session.heats : i < j => session.heats[i] < session.heats[j]
    /\ \A i \in DOMAIN session.heats : session.heats[i] > 0
    /\ \A e \in OwnEver : events[e].heat \in 1..Heat

\* The broker has only rows that exist.
BrokerInv ==
    /\ broker.last <= Len(events)
    /\ broker.batch \subseteq DOMAIN events
    /\ broker.pc # "fan" => broker.batch = {}

\* The queue q of a stream, which is registered or empty.
QueueOK(q) == \A i \in DOMAIN q : q[i] \in {ResetRequired, Quality} \cup OwnEver

\* What the handler h of a stream and its client c know of each other.
HandlerOK(h, c) ==
    /\ h.cursor <= Len(events) /\ h.top <= Len(events) /\ h.asof <= Len(events) /\ h.delivered <= Len(events)
    /\ h.pc \in {"cursor_read", "cursor_set", "snapshot", "window", "prior", "first"} => h.cursor = c.cursor
    /\ h.pc \in {"replay", "live"} => h.delivered = c.cursor
    /\ h.batch \subseteq OwnEver /\ \A e \in h.batch : e > h.delivered
    /\ h.pc # "replay" => h.batch = {}
    /\ h.pc \in Setup => h.delivered <= h.asof /\ h.delivered \in {0} \cup OwnEver
    /\ h.pc \in Setup /\ h.cursor = 0 => h.reset
    /\ h.pc \in {"window", "prior"} => h.cursor > 0
    /\ c.cursor \in {NoCursor, 0} \cup OwnEver

StreamInv(s) ==
    /\ s \in subs <=> conn[s].pc \notin Outside
    /\ s \notin subs => queues[s] = <<>>
    /\ QueueOK(queues[s])
    /\ HandlerOK(conn[s], client[s])

IInv == TypeOK /\ OutboxInv /\ BrokerInv /\ \A s \in Streams : StreamInv(s)

-----------------------------------------------------------------------------
(* Newest and Page.                                                        *)

\* The natural numbers are well founded.
LEMMA LeastOfNaturals ==
    ASSUME NEW T \in SUBSET Nat, T # {}
    PROVE  \E x \in T : \A y \in T : x <= y
<1> DEFINE R == OpToRel(<, Nat)
<1>1. IsWellFoundedOn(R, Nat)
  BY NatLessThanWellFounded
<1>2. \A x, y \in Nat : y < x => <<y, x>> \in R
  BY DEF OpToRel
<1> HIDE DEF R
<1>3. PICK x \in T : \A y \in T : ~(<<y, x>> \in R)
  BY <1>1, WFMin
<1>4. \A y \in T : ~(y < x)
  BY <1>2, <1>3
<1>5. \A y \in T : x <= y
  BY <1>4
<1> QED
  BY <1>5

\* MAX(id) over rows that exist.
LEMMA NewestIs ==
    ASSUME NEW n \in Nat, NEW S \in SUBSET (1..n)
    PROVE  /\ S # {} => Newest(S) \in S
           /\ S = {} => Newest(S) = 0
           /\ \A x \in S : x <= Newest(S)
           /\ Newest(S) \in 0..n
<1>1. CASE S = {}
  BY <1>1 DEF Newest
<1>2. CASE S # {}
  <2> DEFINE T == {n - x : x \in S}
  <2>0. \A x \in S : x \in Int /\ 1 <= x /\ x <= n
    OBVIOUS
  <2>a. \A x \in S : n - x \in Nat
    BY <2>0
  <2>1. T \in SUBSET Nat /\ T # {}
    <3>1. T \in SUBSET Nat
      BY <2>a
    <3>2. T # {}
      BY <1>2
    <3> QED
      BY <3>1, <3>2
  <2>2. PICK t \in T : \A y \in T : t <= y
    BY <2>1, LeastOfNaturals
  <2>3. PICK m \in S : t = n - m
    BY <2>2
  <2>4. ASSUME NEW x \in S PROVE x <= m
    <3>1. n - x \in T
      OBVIOUS
    <3>2. n - m <= n - x
      BY <2>2, <2>3, <3>1
    <3> QED
      BY <2>0, <2>3, <3>2
  <2>5. Newest(S) \in S /\ \A y \in S : y <= Newest(S)
    BY <1>2, <2>4 DEF Newest
  <2>6. Newest(S) \in 0..n
    BY <2>0, <2>5
  <2> QED
    BY <1>2, <2>5, <2>6
<1> QED
  BY <1>1, <1>2

\* The rows between two ids are finitely many.
LEMMA BetweenFinite ==
    ASSUME NEW n \in Nat, NEW S \in SUBSET (1..n), NEW T \in SUBSET S
    PROVE  IsFiniteSet(T) /\ Cardinality(T) \in Nat /\ \A U \in SUBSET T : Cardinality(U) <= Cardinality(T)
<1>1. IsFiniteSet(1..n)
  BY FS_Interval
<1>2. IsFiniteSet(T)
  BY <1>1, FS_Subset
<1> QED
  BY <1>2, FS_Subset, FS_CardinalityType

\* A page is a prefix of what comes after its cursor.
LEMMA PageIsPrefix ==
    ASSUME NEW n \in Nat, NEW S \in SUBSET (1..n), NEW after \in Int, NEW limit \in Nat,
           NEW e \in Page(S, after, limit), NEW d \in S, after < d, d < e
    PROVE  d \in Page(S, after, limit)
<1> DEFINE below(x) == {y \in S : after < y /\ y < x}
<1>0. \A x \in S : x \in Int
  OBVIOUS
<1>e. e \in S
  BY DEF Page
<1>1. below(d) \in SUBSET below(e) /\ below(e) \in SUBSET S
  <2>1. ASSUME NEW y \in S, after < y, y < d PROVE y < e
    <3>1. y \in Int /\ d \in Int /\ e \in Int
      BY <1>0, <1>e
    <3> QED
      BY <2>1, <3>1
  <2> QED
    BY <2>1
<1>2. Cardinality(below(d)) <= Cardinality(below(e)) /\ Cardinality(below(e)) \in Nat /\ Cardinality(below(d)) \in Nat
  BY <1>1, BetweenFinite
<1>3. Cardinality(below(e)) < limit
  BY DEF Page
<1>4. Cardinality(below(d)) < limit
  BY <1>2, <1>3
<1> QED
  BY <1>4 DEF Page

\* A page that is not full is all that comes after its cursor.
LEMMA ShortPage ==
    ASSUME NEW n \in Nat, NEW S \in SUBSET (1..n), NEW after \in Int, NEW limit \in Nat,
           Cardinality(Page(S, after, limit)) # limit, NEW e \in S, e > after
    PROVE  e \in Page(S, after, limit)
<1> DEFINE P == Page(S, after, limit)
           below(x) == {y \in S : after < y /\ y < x}
           Rest == {x \in S : x > after /\ x \notin P}
<1> SUFFICES ASSUME Rest # {} PROVE FALSE
  OBVIOUS
<1>0. P \in SUBSET S /\ \A x \in P : x > after
  BY DEF Page
<1>a. \A x \in S : x \in Int /\ x \in Nat
  OBVIOUS
<1>b. Rest \in SUBSET Nat
  BY <1>a
<1>1. PICK m \in Rest : \A y \in Rest : m <= y
  <2> HIDE DEF Rest
  <2> QED
    BY <1>b, LeastOfNaturals
<1>2. below(m) \in SUBSET S /\ Cardinality(below(m)) \in Nat
  BY BetweenFinite
<1>3. Cardinality(below(m)) >= limit
  BY <1>1, <1>2 DEF Page
<1>4. below(m) \subseteq P
  <2> SUFFICES ASSUME NEW y \in S, after < y, y < m, y \notin P PROVE FALSE
    OBVIOUS
  <2>1. y \in Rest
    BY DEF Rest
  <2>2. m <= y /\ m \in Int /\ y \in Int
    BY <1>1, <1>a, <2>1
  <2> QED
    BY <2>2
<1>5. P \subseteq below(m)
  <2> SUFFICES ASSUME NEW x \in P, ~(x < m) PROVE FALSE
    BY <1>0
  <2>1. m \in S /\ after < m /\ m \notin P /\ x \in S
    BY <1>0, <1>1
  <2>2. m < x
    <3>1. m \in Int /\ x \in Int /\ m # x
      BY <1>a, <2>1
    <3> QED
      BY <3>1
  <2> QED
    BY <2>1, <2>2, PageIsPrefix
<1>6. P = below(m) /\ Cardinality(P) >= limit /\ Cardinality(P) # limit /\ Cardinality(P) \in Nat
  BY <1>2, <1>3, <1>4, <1>5
<1>7. P # {}
  BY <1>6, FS_EmptySet
<1>8. PICK x \in P : \A y \in P : y <= x
  <2> HIDE DEF P
  <2>1. Newest(P) \in P /\ \A y \in P : y <= Newest(P)
    BY <1>0, <1>7, NewestIs
  <2> QED
    BY <2>1
<1>9. Cardinality(below(x)) < limit
  BY <1>8 DEF Page
<1>10. P = below(x) \cup {x} /\ x \notin below(x)
  <2>1. x \in Int /\ m \in Int /\ x < m /\ x \in S
    BY <1>0, <1>1, <1>a, <1>5, <1>8
  <2>2. x \notin below(x)
    BY <2>1
  <2>3. ASSUME NEW y \in P, y # x PROVE y \in below(x)
    <3>1. y \in Int /\ y \in S /\ after < y /\ y <= x
      BY <1>0, <1>a, <1>8
    <3>2. y < x
      BY <2>1, <2>3, <3>1
    <3> QED
      BY <3>1, <3>2
  <2>4. ASSUME NEW y \in below(x) PROVE y \in P
    <3>1. y \in S /\ after < y /\ y < x /\ y \in Int
      BY <1>a
    <3>2. y < m
      BY <2>1, <3>1
    <3> QED
      BY <1>4, <3>1, <3>2
  <2> HIDE DEF P, below
  <2> QED
    BY <1>8, <2>2, <2>3, <2>4
<1>11. Cardinality(P) = Cardinality(below(x)) + 1
  <2>1. IsFiniteSet(below(x))
    BY BetweenFinite
  <2> HIDE DEF P, below
  <2> QED
    BY <1>10, <2>1, FS_AddElement
<1>12. Cardinality(below(x)) \in Nat
  BY BetweenFinite
<1> QED
  BY <1>6, <1>9, <1>11, <1>12

-----------------------------------------------------------------------------
(* The tables and the steps that touch one stream.                         *)

\* What IInv says of the types of the tables, in the form the steps cite.
LEMMA Facts ==
    ASSUME IInv
    PROVE  /\ Len(events) \in Nat /\ DOMAIN events = 1..Len(events)
           /\ Stored \in SUBSET (1..Len(events)) /\ OwnEver \in SUBSET (1..Len(events))
           /\ Own \in SUBSET (1..Len(events)) /\ Own \subseteq OwnEver /\ Own \subseteq Stored
           /\ Heat \in Nat /\ DOMAIN session.heats = 1..Heat
           /\ \A i \in 1..Heat : session.heats[i] \in Nat
           /\ broker.last \in Nat /\ broker.batch \subseteq Nat
<1>1. Len(events) \in Nat /\ DOMAIN events = 1..Len(events)
  BY LenProperties DEF IInv, TypeOK
<1>2. session.heats \in Seq(Nat) /\ broker.last \in Nat /\ broker.batch \subseteq Nat
  BY DEF IInv, TypeOK
<1>3. Heat \in Nat /\ DOMAIN session.heats = 1..Heat /\ \A i \in 1..Heat : session.heats[i] \in Nat
  BY <1>2, LenProperties, ElementOfSeq DEF Heat
<1>4. OwnEver \subseteq DOMAIN events /\ Own \subseteq OwnEver /\ Stored \subseteq DOMAIN events /\ Own \subseteq Stored
  BY DEF OwnEver, Own, Stored
<1> QED
  BY <1>1, <1>2, <1>3, <1>4

\* The barrier of a snapshot is the newest row, or 0.
LEMMA BarrierIs ==
    ASSUME IInv
    PROVE  /\ Barrier \in {0} \cup OwnEver /\ Barrier \in Nat /\ Barrier <= Len(events)
           /\ \A e \in Own : e <= Barrier
<1>1. /\ Len(events) \in Nat /\ Own \in SUBSET (1..Len(events)) /\ Own \subseteq OwnEver
  BY Facts
<1>2. /\ Own # {} => Newest(Own) \in Own
      /\ Own = {} => Newest(Own) = 0
      /\ \A x \in Own : x <= Newest(Own)
      /\ Newest(Own) \in 0..Len(events)
  BY <1>1, NewestIs
<1>3. Newest(Own) \in Nat /\ Newest(Own) <= Len(events)
  BY <1>1, <1>2
<1> QED
  BY <1>1, <1>2, <1>3 DEF Barrier

\* Setting the handler of one stream.
LEMMA HandlerSet ==
    ASSUME IInv, NEW s \in Streams, NEW h \in Handler, conn' = [conn EXCEPT ![s] = h]
    PROVE  /\ conn' \in [Streams -> Handler] /\ conn'[s] = h
           /\ \A t \in Streams : t # s => conn'[t] = conn[t]
<1>1. conn \in [Streams -> Handler]
  BY DEF IInv, TypeOK
<1> HIDE DEF Handler
<1> QED
  BY <1>1

\* Setting the client of one stream.
LEMMA ClientSet ==
    ASSUME IInv, NEW s \in Streams, NEW c \in Client, client' = [client EXCEPT ![s] = c]
    PROVE  /\ client' \in [Streams -> Client] /\ client'[s] = c
           /\ \A t \in Streams : t # s => client'[t] = client[t]
<1>1. client \in [Streams -> Client]
  BY DEF IInv, TypeOK
<1> HIDE DEF Client
<1> QED
  BY <1>1

\* Setting the queue of one stream.
LEMMA QueueSet ==
    ASSUME IInv, NEW s \in Streams, NEW q \in Seq(Int), queues' = [queues EXCEPT ![s] = q]
    PROVE  /\ queues' \in [Streams -> Seq(Int)] /\ queues'[s] = q
           /\ \A t \in Streams : t # s => queues'[t] = queues[t]
<1>1. queues \in [Streams -> Seq(Int)]
  BY DEF IInv, TypeOK
<1> QED
  BY <1>1

\* A step of stream s leaves the invariants of the others, and only its own and
\* the broker's need to be looked at.
LEMMA OneStreamStep ==
    ASSUME IInv, NEW s \in Streams, UNCHANGED outbox,
           conn' \in [Streams -> Handler], client' \in [Streams -> Client], queues' \in [Streams -> Seq(Int)],
           \A t \in Streams : t # s => conn'[t] = conn[t] /\ client'[t] = client[t] /\ queues'[t] = queues[t],
           subs' \subseteq Streams, subs' \ {s} = subs \ {s}, orphans' \in Nat,
           broker' \in [pc : {"idle", "fan", "quality"}, last : Nat, batch : SUBSET Nat, full : BOOLEAN],
           BrokerInv', StreamInv(s)'
    PROVE  IInv'
<1>0. events' = events /\ gone' = gone /\ session' = session
  BY DEF outbox
<1>1. TypeOK'
  BY <1>0 DEF IInv, TypeOK
<1>2. OutboxInv'
  BY <1>0 DEF IInv, OutboxInv, OwnEver, Heat
<1>3. ASSUME NEW t \in Streams, t # s
      PROVE  StreamInv(t)'
  <2>1. StreamInv(t)
    BY DEF IInv
  <2>2. conn'[t] = conn[t] /\ client'[t] = client[t] /\ queues'[t] = queues[t] /\ (t \in subs' <=> t \in subs)
    BY <1>3
  <2>3. HandlerOK(conn[t], client[t])'
    BY <1>0, <2>1, <2>2 DEF StreamInv, HandlerOK, OwnEver, Setup
  <2>4. QueueOK(queues[t])'
    BY <1>0, <2>1, <2>2 DEF StreamInv, QueueOK, OwnEver
  <2> QED
    BY <2>1, <2>2, <2>3, <2>4 DEF StreamInv, Outside
<1> QED
  BY <1>1, <1>2, <1>3 DEF IInv

-----------------------------------------------------------------------------
(* What the steps of a handler do to its locals.                           *)

\* The handler of stream s gets these locals, and no other handler changes.
Becomes(s, p, cursor, top, delivered, asof, heat, reset, batch, full, replayed) ==
    /\ conn' \in [Streams -> Handler] /\ \A t \in Streams : t # s => conn'[t] = conn[t]
    /\ conn'[s].pc = p /\ conn'[s].cursor = cursor /\ conn'[s].top = top /\ conn'[s].delivered = delivered
    /\ conn'[s].asof = asof /\ conn'[s].heat = heat /\ conn'[s].reset = reset /\ conn'[s].batch = batch
    /\ conn'[s].full = full /\ conn'[s].replayed = replayed

\* The types of a handler's locals.
LEMMA LocalsType ==
    ASSUME IInv, NEW s \in Streams
    PROVE  /\ conn[s].pc \in HandlerPoint /\ conn[s].cursor \in Int /\ conn[s].top \in Nat
           /\ conn[s].delivered \in Nat /\ conn[s].asof \in Nat /\ conn[s].heat \in Nat
           /\ conn[s].reset \in BOOLEAN /\ conn[s].batch \in SUBSET Nat /\ conn[s].full \in BOOLEAN
           /\ conn[s].replayed \in Nat /\ conn[s] \in Handler /\ conn \in [Streams -> Handler]
           /\ client[s] \in Client /\ client[s].cursor \in Int /\ queues[s] \in Seq(Int)
           /\ StreamInv(s) /\ HandlerOK(conn[s], client[s])
<1>1. conn[s] \in Handler /\ conn \in [Streams -> Handler] /\ client[s] \in Client /\ queues[s] \in Seq(Int)
  BY DEF IInv, TypeOK
<1>2. StreamInv(s) /\ HandlerOK(conn[s], client[s])
  BY DEF IInv, StreamInv
<1>3. client[s].cursor \in Int
  BY <1>1 DEF Client
<1>4. /\ conn[s].pc \in HandlerPoint /\ conn[s].cursor \in Int /\ conn[s].top \in Nat
      /\ conn[s].delivered \in Nat /\ conn[s].asof \in Nat /\ conn[s].heat \in Nat
      /\ conn[s].reset \in BOOLEAN /\ conn[s].batch \in SUBSET Nat /\ conn[s].full \in BOOLEAN
      /\ conn[s].replayed \in Nat
  BY <1>1 DEF Handler
<1> QED
  BY <1>1, <1>2, <1>3, <1>4

\* The locals of a handler but its control point: kept.
LEMMA SetPc ==
    ASSUME IInv, NEW s \in Streams, NEW pc \in HandlerPoint,
           conn' = [conn EXCEPT ![s].pc = pc]
    PROVE  Becomes(s, pc, conn[s].cursor, conn[s].top, conn[s].delivered, conn[s].asof,
                   conn[s].heat, conn[s].reset, conn[s].batch, conn[s].full, conn[s].replayed)
<1> DEFINE g == conn[s]
           h == [g EXCEPT !.pc = pc]
<1>1. g \in Handler /\ conn \in [Streams -> Handler]
  BY LocalsType
<1>2. conn' = [conn EXCEPT ![s] = h]
  BY <1>1
<1> HIDE DEF g
<1>3. h \in Handler
  BY <1>1 DEF Handler
<1>4. /\ h.pc = pc /\ h.cursor = g.cursor /\ h.top = g.top /\ h.delivered = g.delivered /\ h.asof = g.asof
      /\ h.heat = g.heat /\ h.reset = g.reset /\ h.batch = g.batch /\ h.full = g.full /\ h.replayed = g.replayed
  BY <1>1 DEF Handler
<1> HIDE DEF h
<1>5. conn' \in [Streams -> Handler] /\ conn'[s] = h /\ \A t \in Streams : t # s => conn'[t] = conn[t]
  BY <1>2, <1>3, HandlerSet
<1> QED
  BY <1>4, <1>5 DEF Becomes, g

\* The locals top: set.
LEMMA SetTop ==
    ASSUME IInv, NEW s \in Streams, NEW pc \in HandlerPoint, NEW top \in Nat,
           conn' = [conn EXCEPT ![s].pc = pc, ![s].top = top]
    PROVE  Becomes(s, pc, conn[s].cursor, top, conn[s].delivered, conn[s].asof,
                   conn[s].heat, conn[s].reset, conn[s].batch, conn[s].full, conn[s].replayed)
<1> DEFINE g == conn[s]
           h == [g EXCEPT !.pc = pc, !.top = top]
<1>1. g \in Handler /\ conn \in [Streams -> Handler]
  BY LocalsType
<1>2. conn' = [conn EXCEPT ![s] = h]
  BY <1>1
<1> HIDE DEF g
<1>3. h \in Handler
  BY <1>1 DEF Handler
<1>4. /\ h.pc = pc /\ h.cursor = g.cursor /\ h.top = top /\ h.delivered = g.delivered /\ h.asof = g.asof
      /\ h.heat = g.heat /\ h.reset = g.reset /\ h.batch = g.batch /\ h.full = g.full /\ h.replayed = g.replayed
  BY <1>1 DEF Handler
<1> HIDE DEF h
<1>5. conn' \in [Streams -> Handler] /\ conn'[s] = h /\ \A t \in Streams : t # s => conn'[t] = conn[t]
  BY <1>2, <1>3, HandlerSet
<1> QED
  BY <1>4, <1>5 DEF Becomes, g

\* The locals reset: set.
LEMMA SetReset ==
    ASSUME IInv, NEW s \in Streams, NEW pc \in HandlerPoint, NEW reset \in BOOLEAN,
           conn' = [conn EXCEPT ![s].pc = pc, ![s].reset = reset]
    PROVE  Becomes(s, pc, conn[s].cursor, conn[s].top, conn[s].delivered, conn[s].asof,
                   conn[s].heat, reset, conn[s].batch, conn[s].full, conn[s].replayed)
<1> DEFINE g == conn[s]
           h == [g EXCEPT !.pc = pc, !.reset = reset]
<1>1. g \in Handler /\ conn \in [Streams -> Handler]
  BY LocalsType
<1>2. conn' = [conn EXCEPT ![s] = h]
  BY <1>1
<1> HIDE DEF g
<1>3. h \in Handler
  BY <1>1 DEF Handler
<1>4. /\ h.pc = pc /\ h.cursor = g.cursor /\ h.top = g.top /\ h.delivered = g.delivered /\ h.asof = g.asof
      /\ h.heat = g.heat /\ h.reset = reset /\ h.batch = g.batch /\ h.full = g.full /\ h.replayed = g.replayed
  BY <1>1 DEF Handler
<1> HIDE DEF h
<1>5. conn' \in [Streams -> Handler] /\ conn'[s] = h /\ \A t \in Streams : t # s => conn'[t] = conn[t]
  BY <1>2, <1>3, HandlerSet
<1> QED
  BY <1>4, <1>5 DEF Becomes, g

\* The locals delivered, asof, heat, reset: set.
LEMMA SetSnapshot ==
    ASSUME IInv, NEW s \in Streams, NEW pc \in HandlerPoint, NEW delivered \in Nat, NEW asof \in Nat, NEW heat \in Nat, NEW reset \in BOOLEAN,
           conn' = [conn EXCEPT ![s].delivered = delivered, ![s].asof = asof, ![s].heat = heat, ![s].reset = reset, ![s].pc = pc]
    PROVE  Becomes(s, pc, conn[s].cursor, conn[s].top, delivered, asof,
                   heat, reset, conn[s].batch, conn[s].full, conn[s].replayed)
<1> DEFINE g == conn[s]
           h == [g EXCEPT !.delivered = delivered, !.asof = asof, !.heat = heat, !.reset = reset, !.pc = pc]
<1>1. g \in Handler /\ conn \in [Streams -> Handler]
  BY LocalsType
<1>2. conn' = [conn EXCEPT ![s] = h]
  BY <1>1
<1> HIDE DEF g
<1>3. h \in Handler
  BY <1>1 DEF Handler
<1>4. /\ h.pc = pc /\ h.cursor = g.cursor /\ h.top = g.top /\ h.delivered = delivered /\ h.asof = asof
      /\ h.heat = heat /\ h.reset = reset /\ h.batch = g.batch /\ h.full = g.full /\ h.replayed = g.replayed
  BY <1>1 DEF Handler
<1> HIDE DEF h
<1>5. conn' \in [Streams -> Handler] /\ conn'[s] = h /\ \A t \in Streams : t # s => conn'[t] = conn[t]
  BY <1>2, <1>3, HandlerSet
<1> QED
  BY <1>4, <1>5 DEF Becomes, g

\* The locals batch, full: set.
LEMMA SetPage ==
    ASSUME IInv, NEW s \in Streams, NEW batch \in SUBSET Nat, NEW full \in BOOLEAN,
           conn' = [conn EXCEPT ![s].batch = batch, ![s].full = full]
    PROVE  Becomes(s, conn[s].pc, conn[s].cursor, conn[s].top, conn[s].delivered, conn[s].asof,
                   conn[s].heat, conn[s].reset, batch, full, conn[s].replayed)
<1> DEFINE g == conn[s]
           h == [g EXCEPT !.batch = batch, !.full = full]
<1>1. g \in Handler /\ conn \in [Streams -> Handler]
  BY LocalsType
<1>2. conn' = [conn EXCEPT ![s] = h]
  BY <1>1
<1> HIDE DEF g
<1>3. h \in Handler
  BY <1>1 DEF Handler
<1>4. /\ h.pc = g.pc /\ h.cursor = g.cursor /\ h.top = g.top /\ h.delivered = g.delivered /\ h.asof = g.asof
      /\ h.heat = g.heat /\ h.reset = g.reset /\ h.batch = batch /\ h.full = full /\ h.replayed = g.replayed
  BY <1>1 DEF Handler
<1> HIDE DEF h
<1>5. conn' \in [Streams -> Handler] /\ conn'[s] = h /\ \A t \in Streams : t # s => conn'[t] = conn[t]
  BY <1>2, <1>3, HandlerSet
<1> QED
  BY <1>4, <1>5 DEF Becomes, g

\* The locals delivered, batch, replayed: set.
LEMMA SetReplayed ==
    ASSUME IInv, NEW s \in Streams, NEW delivered \in Nat, NEW batch \in SUBSET Nat, NEW replayed \in Nat,
           conn' = [conn EXCEPT ![s].batch = batch, ![s].delivered = delivered, ![s].replayed = replayed]
    PROVE  Becomes(s, conn[s].pc, conn[s].cursor, conn[s].top, delivered, conn[s].asof,
                   conn[s].heat, conn[s].reset, batch, conn[s].full, replayed)
<1> DEFINE g == conn[s]
           h == [g EXCEPT !.delivered = delivered, !.batch = batch, !.replayed = replayed]
<1>1. g \in Handler /\ conn \in [Streams -> Handler]
  BY LocalsType
<1>2. conn' = [conn EXCEPT ![s] = h]
  BY <1>1
<1> HIDE DEF g
<1>3. h \in Handler
  BY <1>1 DEF Handler
<1>4. /\ h.pc = g.pc /\ h.cursor = g.cursor /\ h.top = g.top /\ h.delivered = delivered /\ h.asof = g.asof
      /\ h.heat = g.heat /\ h.reset = g.reset /\ h.batch = batch /\ h.full = g.full /\ h.replayed = replayed
  BY <1>1 DEF Handler
<1> HIDE DEF h
<1>5. conn' \in [Streams -> Handler] /\ conn'[s] = h /\ \A t \in Streams : t # s => conn'[t] = conn[t]
  BY <1>2, <1>3, HandlerSet
<1> QED
  BY <1>4, <1>5 DEF Becomes, g

\* The locals batch, replayed: set.
LEMMA SetRestart ==
    ASSUME IInv, NEW s \in Streams, NEW pc \in HandlerPoint, NEW batch \in SUBSET Nat, NEW replayed \in Nat,
           conn' = [conn EXCEPT ![s].pc = pc, ![s].batch = batch, ![s].replayed = replayed]
    PROVE  Becomes(s, pc, conn[s].cursor, conn[s].top, conn[s].delivered, conn[s].asof,
                   conn[s].heat, conn[s].reset, batch, conn[s].full, replayed)
<1> DEFINE g == conn[s]
           h == [g EXCEPT !.pc = pc, !.batch = batch, !.replayed = replayed]
<1>1. g \in Handler /\ conn \in [Streams -> Handler]
  BY LocalsType
<1>2. conn' = [conn EXCEPT ![s] = h]
  BY <1>1
<1> HIDE DEF g
<1>3. h \in Handler
  BY <1>1 DEF Handler
<1>4. /\ h.pc = pc /\ h.cursor = g.cursor /\ h.top = g.top /\ h.delivered = g.delivered /\ h.asof = g.asof
      /\ h.heat = g.heat /\ h.reset = g.reset /\ h.batch = batch /\ h.full = g.full /\ h.replayed = replayed
  BY <1>1 DEF Handler
<1> HIDE DEF h
<1>5. conn' \in [Streams -> Handler] /\ conn'[s] = h /\ \A t \in Streams : t # s => conn'[t] = conn[t]
  BY <1>2, <1>3, HandlerSet
<1> QED
  BY <1>4, <1>5 DEF Becomes, g

\* The locals delivered: set.
LEMMA SetDelivered ==
    ASSUME IInv, NEW s \in Streams, NEW delivered \in Nat,
           conn' = [conn EXCEPT ![s].delivered = delivered]
    PROVE  Becomes(s, conn[s].pc, conn[s].cursor, conn[s].top, delivered, conn[s].asof,
                   conn[s].heat, conn[s].reset, conn[s].batch, conn[s].full, conn[s].replayed)
<1> DEFINE g == conn[s]
           h == [g EXCEPT !.delivered = delivered]
<1>1. g \in Handler /\ conn \in [Streams -> Handler]
  BY LocalsType
<1>2. conn' = [conn EXCEPT ![s] = h]
  BY <1>1
<1> HIDE DEF g
<1>3. h \in Handler
  BY <1>1 DEF Handler
<1>4. /\ h.pc = g.pc /\ h.cursor = g.cursor /\ h.top = g.top /\ h.delivered = delivered /\ h.asof = g.asof
      /\ h.heat = g.heat /\ h.reset = g.reset /\ h.batch = g.batch /\ h.full = g.full /\ h.replayed = g.replayed
  BY <1>1 DEF Handler
<1> HIDE DEF h
<1>5. conn' \in [Streams -> Handler] /\ conn'[s] = h /\ \A t \in Streams : t # s => conn'[t] = conn[t]
  BY <1>2, <1>3, HandlerSet
<1> QED
  BY <1>4, <1>5 DEF Becomes, g

\* A handler that is not running.
LEMMA IdleIs ==
    /\ Idle \in Handler
    /\ Idle.pc = "off" /\ Idle.cursor = NoCursor /\ Idle.top = 0 /\ Idle.delivered = 0 /\ Idle.asof = 0
    /\ Idle.heat = 0 /\ Idle.reset = FALSE /\ Idle.batch = {} /\ Idle.full = TRUE /\ Idle.replayed = 0
  BY DEF Idle, Handler, HandlerPoint, NoCursor

\* A handler that ends.
LEMMA SetIdle ==
    ASSUME IInv, NEW s \in Streams, conn' = [conn EXCEPT ![s] = Idle]
    PROVE  Becomes(s, "off", NoCursor, 0, 0, 0, 0, FALSE, {}, TRUE, 0)
<1> DEFINE h == Idle
<1>1. h \in Handler /\ h.pc = "off" /\ h.cursor = NoCursor /\ h.top = 0 /\ h.delivered = 0 /\ h.asof = 0
      /\ h.heat = 0 /\ h.reset = FALSE /\ h.batch = {} /\ h.full = TRUE /\ h.replayed = 0
  BY IdleIs DEF Handler
<1>2. conn' = [conn EXCEPT ![s] = h]
  BY DEF h
<1> HIDE DEF h
<1>3. conn' \in [Streams -> Handler] /\ conn'[s] = h /\ \A t \in Streams : t # s => conn'[t] = conn[t]
  BY <1>1, <1>2, HandlerSet
<1> QED
  BY <1>1, <1>3 DEF Becomes

\* A handler that starts.
LEMMA SetOpen ==
    ASSUME IInv, NEW s \in Streams, NEW pc \in HandlerPoint, NEW cursor \in Int, conn' = [conn EXCEPT ![s] = [Idle EXCEPT !.pc = pc, !.cursor = cursor]]
    PROVE  Becomes(s, pc, cursor, 0, 0, 0, 0, FALSE, {}, TRUE, 0)
<1> DEFINE h == [Idle EXCEPT !.pc = pc, !.cursor = cursor]
<1>1. h \in Handler /\ h.pc = pc /\ h.cursor = cursor /\ h.top = 0 /\ h.delivered = 0 /\ h.asof = 0
      /\ h.heat = 0 /\ h.reset = FALSE /\ h.batch = {} /\ h.full = TRUE /\ h.replayed = 0
  BY IdleIs DEF Handler
<1>2. conn' = [conn EXCEPT ![s] = h]
  BY DEF h
<1> HIDE DEF h
<1>3. conn' \in [Streams -> Handler] /\ conn'[s] = h /\ \A t \in Streams : t # s => conn'[t] = conn[t]
  BY <1>1, <1>2, HandlerSet
<1> QED
  BY <1>1, <1>3 DEF Becomes

\* A handler that begins to send, or keeps only what it still reads.
LEMMA SetSending ==
    ASSUME IInv, NEW s \in Streams, NEW pc \in HandlerPoint, NEW delivered \in Nat, NEW heat \in Nat, conn' = [conn EXCEPT ![s] = Sending(pc, delivered, heat)]
    PROVE  Becomes(s, pc, NoCursor, 0, delivered, 0, heat, FALSE, {}, TRUE, 0)
<1> DEFINE h == [Idle EXCEPT !.pc = pc, !.delivered = delivered, !.heat = heat]
<1>1. h \in Handler /\ h.pc = pc /\ h.cursor = NoCursor /\ h.top = 0 /\ h.delivered = delivered /\ h.asof = 0
      /\ h.heat = heat /\ h.reset = FALSE /\ h.batch = {} /\ h.full = TRUE /\ h.replayed = 0
  BY IdleIs DEF Handler
<1>2. conn' = [conn EXCEPT ![s] = h]
  BY DEF h, Sending
<1> HIDE DEF h
<1>3. conn' \in [Streams -> Handler] /\ conn'[s] = h /\ \A t \in Streams : t # s => conn'[t] = conn[t]
  BY <1>1, <1>2, HandlerSet
<1> QED
  BY <1>1, <1>3 DEF Becomes

-----------------------------------------------------------------------------
(* The invariant is inductive: the initial states and the writers.         *)

\* The empty outbox, the resting broker and closed streams satisfy the invariant.
LEMMA InitInv == Init => IInv
<1> SUFFICES ASSUME Init PROVE IInv
  OBVIOUS
<1>1. events = <<>> /\ gone = {} /\ Len(events) = 0 /\ DOMAIN events = {} /\ OwnEver = {} /\ events \in Seq(Event)
  BY DEF Init, OwnEver
<1>2. /\ session.heats = [h \in 1..FirstHeat |-> h] /\ session.heats \in Seq(Nat)
      /\ session \in [closed : BOOLEAN, heats : Seq(Nat), floor : Nat]
  <2>1. [h \in 1..FirstHeat |-> h] \in Seq(Nat)
    <3>1. FirstHeat \in Nat
      BY StreamAssumption
    <3>2. \A h \in 1..FirstHeat : h \in Nat
      BY <3>1
    <3> QED
      BY <3>1, <3>2, IsASeq
  <2> QED
    BY <2>1 DEF Init
<1>3. OutboxInv
  <2>1. DOMAIN session.heats = 1..FirstHeat /\ \A i \in 1..FirstHeat : session.heats[i] = i
    BY <1>2
  <2>2. FirstHeat \in Nat
    BY StreamAssumption
  <2> QED
    BY <1>1, <2>1, <2>2 DEF OutboxInv
<1>4. broker \in [pc : {"idle", "fan", "quality"}, last : Nat, batch : SUBSET Nat, full : BOOLEAN] /\ BrokerInv
  BY <1>1 DEF Init, NewBroker, BrokerInv
<1>5. conn \in [Streams -> Handler] /\ client \in [Streams -> Client] /\ queues \in [Streams -> Seq(Int)]
  BY IdleIs DEF Init, NewClient, Client, NoCursor
<1>6. ASSUME NEW s \in Streams PROVE StreamInv(s)
  <2>1. conn[s] = Idle /\ client[s].cursor = NoCursor /\ queues[s] = <<>> /\ s \notin subs /\ DOMAIN queues[s] = {}
    BY DEF Init, NewClient
  <2>2. HandlerOK(conn[s], client[s])
    BY <1>1, <2>1, IdleIs DEF HandlerOK, Setup, NoCursor
  <2> QED
    BY <2>1, <2>2, IdleIs DEF StreamInv, Outside, QueueOK
<1> QED
  BY <1>1, <1>2, <1>3, <1>4, <1>5, <1>6 DEF IInv, TypeOK, Init

\* A step of a writer only adds rows to the table and heats to the session.
LEMMA WriterKeeps ==
    ASSUME IInv, UNCHANGED <<fanout, conn, client>>,
           events' \in Seq(Event), gone' \subseteq Nat, session' \in [closed : BOOLEAN, heats : Seq(Nat), floor : Nat],
           Len(events) <= Len(events'), OwnEver \subseteq OwnEver', OutboxInv'
    PROVE  IInv'
<1>0. broker' = broker /\ queues' = queues /\ subs' = subs /\ orphans' = orphans /\ conn' = conn /\ client' = client
  BY DEF fanout
<1>1. TypeOK'
  BY <1>0 DEF IInv, TypeOK
<1>2. Len(events) \in Nat /\ Len(events') \in Nat /\ DOMAIN events = 1..Len(events) /\ DOMAIN events' = 1..Len(events')
  BY Facts, LenProperties
<1>3. BrokerInv'
  <2>1. broker.last \in Nat
    BY Facts
  <2>2. DOMAIN events \subseteq DOMAIN events'
    BY <1>2
  <2>3. broker.last <= Len(events')
    BY <1>2, <2>1 DEF IInv, BrokerInv
  <2> QED
    BY <1>0, <2>2, <2>3 DEF IInv, BrokerInv
<1>4. ASSUME NEW s \in Streams PROVE StreamInv(s)'
  <2>1. StreamInv(s)
    BY DEF IInv
  <2>2. QueueOK(queues[s])'
    BY <1>0, <2>1 DEF StreamInv, QueueOK
  <2>3. /\ conn[s].cursor \in Int /\ conn[s].top \in Int /\ conn[s].asof \in Int /\ conn[s].delivered \in Int
    BY LocalsType
  <2>4. /\ conn[s].cursor <= Len(events') /\ conn[s].top <= Len(events') /\ conn[s].asof <= Len(events')
        /\ conn[s].delivered <= Len(events')
    BY <1>2, <2>1, <2>3 DEF StreamInv, HandlerOK
  <2>5. HandlerOK(conn[s], client[s])'
    BY <1>0, <2>1, <2>4 DEF StreamInv, HandlerOK
  <2> QED
    BY <1>0, <2>1, <2>2, <2>5 DEF StreamInv
<1> QED
  BY <1>1, <1>3, <1>4 DEF IInv

\* The id of a new heat is one that was never used.
LEMMA FreshHeat ==
    ASSUME IInv
    PROVE  /\ RebuiltHeatId \in Nat /\ RebuiltHeatId > 0
           /\ \A i \in DOMAIN session.heats : session.heats[i] < RebuiltHeatId
<1>1. Heat \in Nat /\ DOMAIN session.heats = 1..Heat /\ \A i \in 1..Heat : session.heats[i] \in Nat
  BY Facts
<1>2. Range(session.heats) = {session.heats[i] : i \in 1..Heat}
  BY <1>1 DEF Range
<1> DEFINE S == {session.heats[i] : i \in 1..Heat}
<1>3. CASE Heat = 0
  <2>1. S = {} /\ DOMAIN session.heats = {}
    BY <1>1, <1>3
  <2> QED
    BY <1>2, <2>1 DEF RebuiltHeatId, Newest
<1>4. CASE Heat > 0
  <2>1. \A i \in 1..Heat : session.heats[i] <= session.heats[Heat]
    BY <1>1, <1>4 DEF IInv, OutboxInv
  <2>2. session.heats[Heat] \in S /\ \A y \in S : y <= session.heats[Heat]
    BY <1>1, <1>4, <2>1
  <2>3. Newest(S) \in S /\ \A y \in S : y <= Newest(S)
    BY <2>2 DEF Newest
  <2>4. Newest(S) \in Nat
    BY <1>1, <2>3
  <2>5. \A i \in 1..Heat : session.heats[i] <= Newest(S)
    BY <2>3
  <2> HIDE DEF S
  <2>6. RebuiltHeatId = Newest(S) + 1
    BY <1>2 DEF RebuiltHeatId, S
  <2> QED
    BY <1>1, <2>4, <2>5, <2>6
<1> QED
  BY <1>1, <1>3, <1>4

\* A session that gets one more heat.
LEMMA HeatAdded ==
    ASSUME IInv, NEW fl \in Nat, UNCHANGED events, gone' \subseteq DOMAIN events,
           session' = [session EXCEPT !.heats = Append(session.heats, RebuiltHeatId), !.floor = fl]
    PROVE  /\ session' \in [closed : BOOLEAN, heats : Seq(Nat), floor : Nat]
           /\ OutboxInv' /\ OwnEver' = OwnEver /\ Heat' = Heat + 1
           /\ \A i \in 1..Heat : session'.heats[i] = session.heats[i]
<1>0. session \in [closed : BOOLEAN, heats : Seq(Nat), floor : Nat] /\ session.heats \in Seq(Nat)
  BY DEF IInv, TypeOK
<1>1. Heat \in Nat /\ DOMAIN session.heats = 1..Heat /\ \A i \in 1..Heat : session.heats[i] \in Nat
  BY Facts
<1>2. RebuiltHeatId \in Nat /\ RebuiltHeatId > 0 /\ \A i \in DOMAIN session.heats : session.heats[i] < RebuiltHeatId
  BY FreshHeat
<1> DEFINE hs == Append(session.heats, RebuiltHeatId)
<1>3. /\ hs \in Seq(Nat) /\ Len(hs) = Heat + 1 /\ DOMAIN hs = 1..(Heat + 1)
      /\ \A i \in 1..Heat : hs[i] = session.heats[i]
      /\ hs[Heat + 1] = RebuiltHeatId
  BY <1>0, <1>1, <1>2, AppendProperties, LenProperties DEF Heat
<1>4. session'.heats = hs /\ session' \in [closed : BOOLEAN, heats : Seq(Nat), floor : Nat]
  BY <1>0, <1>3
<1> HIDE DEF hs
<1>5. Heat' = Heat + 1
  BY <1>3, <1>4 DEF Heat
<1>6. OwnEver' = OwnEver
  BY DEF OwnEver
<1>7. ASSUME NEW i \in DOMAIN hs, NEW j \in DOMAIN hs, i < j PROVE hs[i] < hs[j]
  <2>1. i \in 1..Heat
    BY <1>1, <1>3, <1>7
  <2>2. CASE j \in 1..Heat
    BY <1>1, <1>3, <1>7, <2>1, <2>2 DEF IInv, OutboxInv
  <2>3. CASE j = Heat + 1
    BY <1>1, <1>2, <1>3, <2>1, <2>3
  <2> QED
    BY <1>1, <1>3, <2>2, <2>3
<1>8. \A i \in DOMAIN hs : hs[i] > 0
  <2> TAKE i \in DOMAIN hs
  <2>1. CASE i \in 1..Heat
    BY <1>1, <1>3, <2>1 DEF IInv, OutboxInv
  <2>2. CASE i = Heat + 1
    BY <1>2, <1>3, <2>2
  <2> QED
    BY <1>1, <1>3, <2>1, <2>2
<1>9. \A e \in OwnEver : events[e].heat \in 1..(Heat + 1)
  BY <1>1 DEF IInv, OutboxInv
<1> QED
  BY <1>3, <1>4, <1>5, <1>6, <1>7, <1>8, <1>9 DEF OutboxInv

\* A row that is added to the table.
LEMMA RowAdded ==
    ASSUME IInv, NEW e \in Event, e.own => e.heat \in 1..Heat, UNCHANGED <<gone, session>>,
           events' = Append(events, e)
    PROVE  /\ events' \in Seq(Event) /\ Len(events') = Len(events) + 1
           /\ DOMAIN events' = 1..(Len(events) + 1)
           /\ \A i \in 1..Len(events) : events'[i] = events[i]
           /\ events'[Len(events) + 1] = e
           /\ OwnEver' = IF e.own THEN OwnEver \cup {Len(events) + 1} ELSE OwnEver
           /\ OutboxInv'
<1>0. events \in Seq(Event) /\ Len(events) \in Nat /\ DOMAIN events = 1..Len(events)
  BY Facts DEF IInv, TypeOK
<1>1. /\ events' \in Seq(Event) /\ Len(events') = Len(events) + 1
      /\ \A i \in 1..Len(events) : events'[i] = events[i]
      /\ events'[Len(events) + 1] = e
      /\ DOMAIN events' = 1..(Len(events) + 1)
  <2> HIDE DEF Event
  <2> QED
    BY <1>0, AppendProperties, LenProperties
<1>2. OwnEver' = {i \in DOMAIN events' : events'[i].own} /\ OwnEver = {i \in DOMAIN events : events[i].own}
  BY DEF OwnEver
<1>3. OwnEver' = IF e.own THEN OwnEver \cup {Len(events) + 1} ELSE OwnEver
  <2>1. DOMAIN events' = DOMAIN events \cup {Len(events) + 1} /\ Len(events) + 1 \notin DOMAIN events
    BY <1>0, <1>1
  <2> QED
    BY <1>0, <1>1, <1>2, <2>1
<1>4. OutboxInv'
  <2>1. \A i \in OwnEver' : events'[i].heat \in 1..Heat
    <3> TAKE i \in OwnEver'
    <3>1. CASE i \in OwnEver
      <4>1. i \in 1..Len(events) /\ events[i].heat \in 1..Heat
        BY <1>0, <1>2, <3>1 DEF IInv, OutboxInv
      <4> QED
        BY <1>1, <4>1
    <3>2. CASE i = Len(events) + 1 /\ e.own
      BY <1>1, <3>2
    <3> QED
      BY <1>3, <3>1, <3>2
  <2>2. DOMAIN events \subseteq DOMAIN events'
    BY <1>0, <1>1
  <2> QED
    BY <2>1, <2>2 DEF IInv, OutboxInv, Heat
<1> QED
  BY <1>1, <1>3, <1>4

\* The floor after a deletion.
LEMMA FloorType ==
    ASSUME IInv
    PROVE  /\ Newest(Own \cup {session.floor}) \in Nat
           /\ \A t \in Own : Newest({t, session.floor}) \in Nat
<1>1. session.floor \in Nat /\ Own \subseteq Nat /\ Barrier \in Nat /\ \A e \in Own : e <= Barrier /\ e \in Nat
  BY Facts, BarrierIs DEF IInv, TypeOK
<1>2. Own # {} => Barrier \in Own
  BY NewestIs, Facts DEF Barrier
<1>3. \E x \in Own \cup {session.floor} : \A y \in Own \cup {session.floor} : y <= x
  <2>1. CASE Own = {} \/ session.floor >= Barrier
    <3>1. \A y \in Own : y <= session.floor
      BY <1>1, <2>1
    <3> QED
      BY <1>1, <3>1
  <2>2. CASE Own # {} /\ session.floor < Barrier
    BY <1>1, <1>2, <2>2
  <2> QED
    BY <1>1, <2>1, <2>2
<1>4. Newest(Own \cup {session.floor}) \in Own \cup {session.floor}
  BY <1>3 DEF Newest
<1>5. ASSUME NEW t \in Own PROVE Newest({t, session.floor}) \in Nat
  <2>1. \E x \in {t, session.floor} : \A y \in {t, session.floor} : y <= x
    BY <1>1
  <2> QED
    BY <1>1, <2>1 DEF Newest
<1> QED
  BY <1>1, <1>4, <1>5

\* Appending, a heat change, retention and a rebuild keep the invariant.
LEMMA WriterInv == ASSUME IInv, WriterStep PROVE IInv'
<1>0. /\ events \in Seq(Event) /\ gone \subseteq Nat /\ session \in [closed : BOOLEAN, heats : Seq(Nat), floor : Nat]
      /\ gone \subseteq DOMAIN events /\ Own \subseteq DOMAIN events
      /\ DOMAIN events = 1..Len(events) /\ Len(events) \in Nat /\ session.floor \in Nat /\ Heat \in Nat
  BY Facts DEF IInv, TypeOK, OutboxInv, Own, OwnEver
<1>1. CASE AppendStreamEvent
  <2>1. [own |-> TRUE, heat |-> Heat] \in Event /\ Heat \in 1..Heat
    BY <1>0, <1>1 DEF AppendStreamEvent, Event
  <2>2. events' = Append(events, [own |-> TRUE, heat |-> Heat]) /\ UNCHANGED <<gone, session>> /\ UNCHANGED <<fanout, conn, client>>
    BY <1>1 DEF AppendStreamEvent
  <2>3. events' \in Seq(Event) /\ Len(events') = Len(events) + 1 /\ OwnEver \subseteq OwnEver' /\ OutboxInv'
    BY <2>1, <2>2, RowAdded
  <2> QED
    BY <1>0, <2>2, <2>3, WriterKeeps
<1>2. CASE AppendForeignEvent
  <2>1. [own |-> FALSE, heat |-> 0] \in Event
    BY DEF Event
  <2> QED
    BY <1>0, <1>2, <2>1, RowAdded, WriterKeeps DEF AppendForeignEvent
<1>3. CASE NewHeat
  <2>1. session' = [session EXCEPT !.heats = Append(session.heats, RebuiltHeatId), !.floor = session.floor]
    BY <1>0, <1>3 DEF NewHeat, RebuiltHeatId
  <2>2. UNCHANGED events /\ UNCHANGED gone /\ UNCHANGED <<fanout, conn, client>>
    BY <1>3 DEF NewHeat
  <2>3. session' \in [closed : BOOLEAN, heats : Seq(Nat), floor : Nat] /\ OutboxInv' /\ OwnEver' = OwnEver
    BY <1>0, <2>1, <2>2, HeatAdded
  <2> QED
    BY <1>0, <2>2, <2>3, WriterKeeps
<1>4. CASE StopSession
  <2>1. session' \in [closed : BOOLEAN, heats : Seq(Nat), floor : Nat] /\ session'.heats = session.heats
    BY <1>0, <1>4 DEF StopSession
  <2>2. OutboxInv' /\ OwnEver' = OwnEver
    BY <1>4, <2>1 DEF IInv, OutboxInv, OwnEver, Heat, StopSession
  <2> QED
    BY <1>0, <1>4, <2>1, <2>2, WriterKeeps DEF StopSession
<1>5. CASE ApplyRetention
  <2>1. PICK through \in Own : /\ gone' = gone \cup {e \in Own : e <= through}
                              /\ session' = [session EXCEPT !.floor = Newest({through, session.floor})]
    BY <1>5 DEF ApplyRetention
  <2>2. session' \in [closed : BOOLEAN, heats : Seq(Nat), floor : Nat] /\ session'.heats = session.heats
    BY <1>0, <2>1, FloorType
  <2>3. gone' \subseteq DOMAIN events /\ gone' \subseteq Nat
    BY <1>0, <2>1
  <2>4. OutboxInv' /\ OwnEver' = OwnEver
    BY <1>5, <2>2, <2>3 DEF IInv, OutboxInv, OwnEver, Heat, ApplyRetention
  <2> QED
    BY <1>0, <1>5, <2>2, <2>3, <2>4, WriterKeeps DEF ApplyRetention
<1>6. CASE ResetDerivedState
  <2>1. gone' \subseteq DOMAIN events /\ gone' \subseteq Nat
    BY <1>0, <1>6 DEF ResetDerivedState
  <2>2. /\ session' = [session EXCEPT !.heats = Append(session.heats, RebuiltHeatId), !.floor = Newest(Own \cup {session.floor})]
        /\ Newest(Own \cup {session.floor}) \in Nat
    BY <1>6, FloorType DEF ResetDerivedState
  <2>3. UNCHANGED events /\ UNCHANGED <<fanout, conn, client>>
    BY <1>6 DEF ResetDerivedState
  <2>4. session' \in [closed : BOOLEAN, heats : Seq(Nat), floor : Nat] /\ OutboxInv' /\ OwnEver' = OwnEver
    BY <1>0, <2>1, <2>2, <2>3, HeatAdded
  <2> QED
    BY <1>0, <2>1, <2>3, <2>4, WriterKeeps
<1> QED
  BY <1>1, <1>2, <1>3, <1>4, <1>5, <1>6 DEF WriterStep

-----------------------------------------------------------------------------
(* The invariant is inductive: the broker.                                 *)

\* A step that changes the broker and what is queued for its subscribers.
LEMMA BrokerKeeps ==
    ASSUME IInv, UNCHANGED <<outbox, subs, orphans, conn, client>>,
           broker' \in [pc : {"idle", "fan", "quality"}, last : Nat, batch : SUBSET Nat, full : BOOLEAN],
           BrokerInv', queues' \in [Streams -> Seq(Int)],
           \A s \in Streams : s \notin subs => queues'[s] = queues[s],
           \A s \in Streams : QueueOK(queues'[s])
    PROVE  IInv'
<1>0. /\ events' = events /\ gone' = gone /\ session' = session /\ subs' = subs /\ orphans' = orphans
      /\ conn' = conn /\ client' = client
  BY DEF outbox
<1>1. TypeOK'
  BY <1>0 DEF IInv, TypeOK
<1>2. OutboxInv'
  BY <1>0 DEF IInv, OutboxInv, OwnEver, Heat
<1>3. ASSUME NEW s \in Streams PROVE StreamInv(s)'
  <2>1. StreamInv(s)
    BY DEF IInv
  <2>2. HandlerOK(conn[s], client[s])'
    BY <1>0, <2>1 DEF StreamInv, HandlerOK, OwnEver
  <2>3. QueueOK(queues[s])'
    BY <1>0 DEF QueueOK, OwnEver
  <2> QED
    BY <1>0, <2>1, <2>2, <2>3 DEF StreamInv
<1> QED
  BY <1>1, <1>2, <1>3 DEF IInv

\* An item that is fanned out: appended, or the queue is drained for a marker.
LEMMA OfferIs ==
    ASSUME NEW q \in Seq(Int), NEW item \in Int, QueueOK(q), item \in {ResetRequired, Quality} \cup OwnEver
    PROVE  Offer(q, item) \in Seq(Int) /\ QueueOK(Offer(q, item))
<1>1. /\ Append(q, item) \in Seq(Int) /\ Len(q) \in Nat /\ DOMAIN q = 1..Len(q)
      /\ DOMAIN Append(q, item) = 1..(Len(q) + 1)
      /\ \A i \in 1..Len(q) : Append(q, item)[i] = q[i]
      /\ Append(q, item)[Len(q) + 1] = item
  BY AppendProperties, LenProperties
<1>2. QueueOK(Append(q, item))
  <2> SUFFICES ASSUME NEW i \in 1..(Len(q) + 1)
               PROVE  Append(q, item)[i] \in {ResetRequired, Quality} \cup OwnEver
    BY <1>1 DEF QueueOK
  <2>1. CASE i \in 1..Len(q)
    BY <1>1, <2>1 DEF QueueOK
  <2>2. CASE i = Len(q) + 1
    BY <1>1, <2>2
  <2> QED
    BY <1>1, <2>1, <2>2
<1>3. <<ResetRequired>> \in Seq(Int) /\ QueueOK(<<ResetRequired>>)
  BY DEF QueueOK, ResetRequired
<1> QED
  BY <1>1, <1>2, <1>3 DEF Offer

\* One offer of the fan-out loop appends to, or overflows, one queue (publish).
LEMMA FanoutIs ==
    ASSUME IInv, NEW item \in Int, item \in {ResetRequired, Quality} \cup OwnEver, Fanout(item)
    PROVE  /\ queues' \in [Streams -> Seq(Int)]
           /\ \A s \in Streams : s \notin subs => queues'[s] = queues[s]
           /\ \A s \in Streams : s \in subs => queues'[s] = Offer(queues[s], item)
           /\ \A s \in Streams : QueueOK(queues'[s])
<1>1. \A s \in Streams : queues[s] \in Seq(Int) /\ QueueOK(queues[s])
  BY DEF IInv, TypeOK, StreamInv
<1>2. \A s \in Streams : Offer(queues[s], item) \in Seq(Int) /\ QueueOK(Offer(queues[s], item))
  BY <1>1, OfferIs
<1>3. \A s \in Streams : queues'[s] = IF s \in subs THEN Offer(queues[s], item) ELSE queues[s]
  BY DEF Fanout
<1>4. queues' = [s \in Streams |-> IF s \in subs THEN Offer(queues[s], item) ELSE queues[s]]
  BY DEF Fanout
<1>5. queues' \in [Streams -> Seq(Int)]
  BY <1>1, <1>2, <1>4
<1> QED
  BY <1>1, <1>2, <1>3, <1>5

\* Polling, offering, finishing the batch and an API restart keep the invariant.
LEMMA BrokerStepInv == ASSUME IInv, BrokerStep PROVE IInv'
<1>0. /\ broker \in [pc : {"idle", "fan", "quality"}, last : Nat, batch : SUBSET Nat, full : BOOLEAN]
      /\ queues \in [Streams -> Seq(Int)] /\ \A s \in Streams : QueueOK(queues[s])
      /\ Len(events) \in Nat /\ DOMAIN events = 1..Len(events) /\ Stored \in SUBSET (1..Len(events))
      /\ broker.last \in Nat /\ broker.last <= Len(events) /\ broker.batch \subseteq DOMAIN events
      /\ broker.pc # "fan" => broker.batch = {}
  BY Facts DEF IInv, TypeOK, StreamInv, BrokerInv
<1>1. CASE BrokerRead
  <2>1. events' = events /\ queues' = queues /\ UNCHANGED <<outbox, subs, orphans, conn, client>>
    BY <1>1 DEF BrokerRead, outbox
  <2> DEFINE batch == Page(Stored, broker.last, BatchSize)
  <2>2. batch \subseteq Stored
    BY DEF Page
  <2>3. batch \subseteq DOMAIN events /\ batch \in SUBSET Nat
    <3> HIDE DEF batch
    <3> QED
      BY <1>0, <2>2
  <2>4. broker' = [broker EXCEPT !.pc = "fan", !.batch = batch, !.full = Cardinality(batch) = BatchSize]
    BY <1>1 DEF BrokerRead
  <2> HIDE DEF batch
  <2>5. /\ broker' \in [pc : {"idle", "fan", "quality"}, last : Nat, batch : SUBSET Nat, full : BOOLEAN]
        /\ broker'.pc = "fan" /\ broker'.batch = batch /\ broker'.last = broker.last
    BY <1>0, <2>3, <2>4
  <2>6. BrokerInv'
    BY <1>0, <2>1, <2>3, <2>5 DEF BrokerInv
  <2> QED
    BY <1>0, <2>1, <2>5, <2>6, BrokerKeeps
<1>2. CASE BrokerFan
  <2>1. PICK e \in broker.batch :
            /\ \A d \in broker.batch : e <= d
            /\ broker' = [broker EXCEPT !.batch = broker.batch \ {e}, !.last = IF e > broker.last THEN e ELSE broker.last]
            /\ IF events[e].own THEN Fanout(e) ELSE UNCHANGED queues
    BY <1>2 DEF BrokerFan
  <2>2. e \in 1..Len(events) /\ e \in Nat /\ e <= Len(events) /\ (events[e].own => e \in OwnEver)
    BY <1>0, <2>1 DEF OwnEver
  <2>3. events' = events /\ UNCHANGED <<outbox, subs, orphans, conn, client>> /\ broker.pc = "fan"
    BY <1>2 DEF BrokerFan, outbox
  <2> DEFINE b == broker.batch \ {e}
             l == IF e > broker.last THEN e ELSE broker.last
  <2>4. b \subseteq DOMAIN events /\ b \in SUBSET Nat /\ l \in Nat /\ l <= Len(events)
    BY <1>0, <2>2
  <2>5. broker' = [broker EXCEPT !.batch = b, !.last = l]
    BY <2>1
  <2> HIDE DEF b, l
  <2>6. /\ broker' \in [pc : {"idle", "fan", "quality"}, last : Nat, batch : SUBSET Nat, full : BOOLEAN]
        /\ broker'.pc = "fan" /\ broker'.batch = b /\ broker'.last = l
    BY <1>0, <2>3, <2>4, <2>5
  <2>7. BrokerInv'
    BY <2>3, <2>4, <2>6 DEF BrokerInv
  <2>8. /\ queues' \in [Streams -> Seq(Int)] /\ \A s \in Streams : s \notin subs => queues'[s] = queues[s]
        /\ \A s \in Streams : QueueOK(queues'[s])
    <3>1. CASE events[e].own
      BY <2>1, <2>2, <3>1, FanoutIs
    <3>2. CASE ~events[e].own
      BY <1>0, <2>1, <3>2
    <3> QED
      BY <3>1, <3>2
  <2> QED
    BY <2>3, <2>6, <2>7, <2>8, BrokerKeeps
<1>3. CASE BrokerBatchDone
  <2>1. events' = events /\ queues' = queues /\ UNCHANGED <<outbox, subs, orphans, conn, client>>
    BY <1>3 DEF BrokerBatchDone, outbox
  <2>2. /\ broker' \in [pc : {"idle", "fan", "quality"}, last : Nat, batch : SUBSET Nat, full : BOOLEAN]
        /\ broker'.batch = {} /\ broker'.last = broker.last
    BY <1>0, <1>3 DEF BrokerBatchDone
  <2>3. BrokerInv'
    BY <1>0, <2>1, <2>2 DEF BrokerInv
  <2> QED
    BY <1>0, <2>1, <2>2, <2>3, BrokerKeeps
<1>4. CASE BrokerQuality
  <2>1. events' = events /\ UNCHANGED <<outbox, subs, orphans, conn, client>>
    BY <1>4 DEF BrokerQuality, outbox
  <2>2. /\ broker' \in [pc : {"idle", "fan", "quality"}, last : Nat, batch : SUBSET Nat, full : BOOLEAN]
        /\ broker'.batch = {} /\ broker'.last = broker.last
    BY <1>0, <1>4 DEF BrokerQuality
  <2>3. BrokerInv'
    BY <1>0, <2>1, <2>2 DEF BrokerInv
  <2>4. /\ queues' \in [Streams -> Seq(Int)] /\ \A s \in Streams : s \notin subs => queues'[s] = queues[s]
        /\ \A s \in Streams : QueueOK(queues'[s])
    <3>1. Fanout(Quality) \/ queues' = queues
      BY <1>4 DEF BrokerQuality
    <3>2. Quality \in Int
      BY DEF Quality
    <3> QED
      BY <1>0, <3>1, <3>2, FanoutIs
  <2> QED
    BY <2>1, <2>2, <2>3, <2>4, BrokerKeeps
<1> QED
  BY <1>1, <1>2, <1>3, <1>4 DEF BrokerStep

\* The API process starts over.
LEMMA RestartInv == ASSUME IInv, ApiRestart PROVE IInv'
<1>0. /\ events' = events /\ gone' = gone /\ session' = session /\ client' = client
      /\ subs' = {} /\ orphans' = 0 /\ queues' = [s \in Streams |-> <<>>] /\ conn' = [s \in Streams |-> Idle]
      /\ broker' = [NewBroker EXCEPT !.last = Newest(Stored)]
  BY DEF ApiRestart, outbox
<1>1. Newest(Stored) \in Nat /\ Newest(Stored) <= Len(events) /\ Len(events) \in Nat
  <2>1. Len(events) \in Nat /\ Stored \in SUBSET (1..Len(events))
    BY Facts
  <2>2. Newest(Stored) \in 0..Len(events)
    BY <2>1, NewestIs
  <2> QED
    BY <2>1, <2>2
<1>2. /\ broker' \in [pc : {"idle", "fan", "quality"}, last : Nat, batch : SUBSET Nat, full : BOOLEAN]
      /\ broker'.last = Newest(Stored) /\ broker'.batch = {}
  BY <1>0, <1>1 DEF NewBroker
<1>3. BrokerInv'
  BY <1>0, <1>1, <1>2 DEF BrokerInv
<1>4. TypeOK'
  <2>1. conn' \in [Streams -> Handler] /\ queues' \in [Streams -> Seq(Int)]
    BY <1>0, IdleIs
  <2> QED
    BY <1>0, <1>2, <2>1 DEF IInv, TypeOK
<1>5. OutboxInv'
  BY <1>0 DEF IInv, OutboxInv, OwnEver, Heat
<1>6. ASSUME NEW s \in Streams PROVE StreamInv(s)'
  <2>1. conn'[s] = Idle /\ queues'[s] = <<>> /\ s \notin subs' /\ DOMAIN queues'[s] = {}
    BY <1>0
  <2>2. client[s].cursor \in {NoCursor, 0} \cup OwnEver
    BY DEF IInv, StreamInv, HandlerOK
  <2>3. HandlerOK(conn[s], client[s])'
    <3>1. OwnEver' = OwnEver
      BY <1>0 DEF OwnEver
    <3> QED
      BY <1>0, <1>1, <2>1, <2>2, <3>1, IdleIs DEF HandlerOK, Setup, NoCursor
  <2> QED
    BY <2>1, <2>3, IdleIs DEF StreamInv, Outside, QueueOK
<1> QED
  BY <1>3, <1>4, <1>5, <1>6 DEF IInv

-----------------------------------------------------------------------------
(* The invariant is inductive: steps of one stream.                        *)

\* A step of the handler of stream s that leaves the broker and the queues alone.
LEMMA HandlerKeeps ==
    ASSUME IInv, NEW s \in Streams, UNCHANGED outbox, UNCHANGED fanout,
           conn' \in [Streams -> Handler], client' \in [Streams -> Client],
           \A t \in Streams : t # s => conn'[t] = conn[t] /\ client'[t] = client[t],
           conn[s].pc \in Outside <=> conn'[s].pc \in Outside,
           HandlerOK(conn'[s], client'[s])
    PROVE  IInv'
<1>0. /\ events' = events /\ broker' = broker /\ queues' = queues /\ subs' = subs /\ orphans' = orphans
  BY DEF outbox, fanout
<1>1. /\ queues \in [Streams -> Seq(Int)] /\ subs \subseteq Streams /\ orphans \in Nat
      /\ broker \in [pc : {"idle", "fan", "quality"}, last : Nat, batch : SUBSET Nat, full : BOOLEAN]
      /\ StreamInv(s) /\ BrokerInv
  BY DEF IInv, TypeOK
<1>2. BrokerInv'
  BY <1>0, <1>1 DEF BrokerInv
<1>3. StreamInv(s)'
  <2>1. OwnEver' = OwnEver
    BY <1>0 DEF OwnEver
  <2>2. HandlerOK(conn[s], client[s])'
    BY <1>0, <2>1 DEF HandlerOK
  <2> QED
    BY <1>0, <1>1, <2>1, <2>2 DEF StreamInv, QueueOK
<1> QED
  BY <1>0, <1>1, <1>2, <1>3, OneStreamStep

\* A client that is not changed.
LEMMA ClientKept ==
    ASSUME IInv, UNCHANGED client
    PROVE  client' \in [Streams -> Client] /\ \A t \in Streams : client'[t] = client[t]
  BY DEF IInv, TypeOK

\* A snapshot that is shown.
LEMMA ShowIs ==
    ASSUME IInv, NEW s \in Streams, NEW asof \in Nat, NEW heat \in Nat, NEW barrier \in Nat,
           Show(s, asof, heat, barrier)
    PROVE  /\ client' \in [Streams -> Client] /\ \A t \in Streams : t # s => client'[t] = client[t]
           /\ client'[s].cursor = barrier /\ client'[s].seen = {e \in OwnEver : e <= asof}
           /\ client'[s].heats = {heat} \ {0}
<1> DEFINE old == {e \in OwnEver : e <= asof}
           hs == {heat} \ {0}
           c == [cursor |-> barrier, seen |-> old, heats |-> hs]
<1>1. OwnEver \subseteq Nat
  BY Facts
<1>a. old \in SUBSET Nat /\ hs \in SUBSET Nat
  BY <1>1
<1>3. client' = [client EXCEPT ![s] = c]
  BY DEF Show
<1> HIDE DEF old, hs
<1>2. c \in Client /\ c.cursor = barrier /\ c.seen = old /\ c.heats = hs
  BY <1>a DEF Client
<1> HIDE DEF c
<1>4. client' \in [Streams -> Client] /\ client'[s] = c /\ \A t \in Streams : t # s => client'[t] = client[t]
  BY <1>2, <1>3, ClientSet
<1> QED
  BY <1>2, <1>4 DEF old, hs

\* A delta that is merged.
LEMMA MergeIs ==
    ASSUME IInv, NEW s \in Streams, NEW e \in OwnEver, Merge(s, e)
    PROVE  /\ client' \in [Streams -> Client] /\ \A t \in Streams : t # s => client'[t] = client[t]
           /\ client'[s].cursor = e /\ client'[s].seen = client[s].seen \cup {e}
           /\ client'[s].heats = client[s].heats \cup {events[e].heat}
<1> DEFINE c == [cursor |-> e, seen |-> client[s].seen \cup {e}, heats |-> client[s].heats \cup {events[e].heat}]
<1>1. e \in Nat /\ e \in Int
  BY Facts
<1>2. events[e].heat \in Nat
  BY Facts DEF IInv, OutboxInv
<1>3. client[s].seen \in SUBSET Nat /\ client[s].heats \in SUBSET Nat /\ client \in [Streams -> Client]
  BY DEF IInv, TypeOK, Client
<1>4. c \in Client /\ c.cursor = e /\ c.seen = client[s].seen \cup {e} /\ c.heats = client[s].heats \cup {events[e].heat}
  BY <1>1, <1>2, <1>3 DEF Client
<1>5. client' = [client EXCEPT ![s] = c]
  BY <1>3 DEF Merge
<1> HIDE DEF c
<1>6. client' \in [Streams -> Client] /\ client'[s] = c /\ \A t \in Streams : t # s => client'[t] = client[t]
  BY <1>4, <1>5, ClientSet
<1> QED
  BY <1>4, <1>6

-----------------------------------------------------------------------------
(* What each step of a handler does to its locals and its client.          *)

\* Reading the outbox tip and moving the broker's cursor changes only the handler's place.
LEMMA CursorReadIs ==
    ASSUME IInv, NEW s \in Streams, CursorRead(s)
    PROVE  /\ conn[s].pc = "cursor_read" /\ UNCHANGED outbox /\ UNCHANGED fanout /\ UNCHANGED client
           /\ Newest(Stored) \in Nat /\ Newest(Stored) <= Len(events) /\ \A d \in Stored : d <= Newest(Stored)
           /\ Becomes(s, "cursor_set", conn[s].cursor, Newest(Stored), conn[s].delivered, conn[s].asof,
                      conn[s].heat, conn[s].reset, conn[s].batch, conn[s].full, conn[s].replayed)
<1> DEFINE top == Newest(Stored)
<1>1. top \in Nat /\ top <= Len(events) /\ \A d \in Stored : d <= top
  <2>1. Len(events) \in Nat /\ Stored \in SUBSET (1..Len(events))
    BY Facts
  <2>2. top \in 0..Len(events) /\ \A d \in Stored : d <= top
    BY <2>1, NewestIs
  <2> QED
    BY <2>1, <2>2
<1>2. /\ conn' = [conn EXCEPT ![s].pc = "cursor_set", ![s].top = top] /\ conn[s].pc = "cursor_read"
      /\ UNCHANGED outbox /\ UNCHANGED fanout /\ UNCHANGED client
  BY DEF CursorRead, At
<1> HIDE DEF top
<1>3. Becomes(s, "cursor_set", conn[s].cursor, top, conn[s].delivered, conn[s].asof,
              conn[s].heat, conn[s].reset, conn[s].batch, conn[s].full, conn[s].replayed)
  BY <1>1, <1>2, SetTop DEF HandlerPoint
<1> QED
  BY <1>1, <1>2, <1>3 DEF top

\* Building the snapshot changes only the handler's locals and what its client shows.
LEMMA SnapshotIs ==
    ASSUME IInv, NEW s \in Streams, Snapshot(s)
    PROVE  /\ conn[s].pc = "snapshot" /\ UNCHANGED outbox /\ UNCHANGED fanout /\ UNCHANGED client
           /\ Becomes(s, IF conn[s].cursor > 0 THEN "window" ELSE "first", conn[s].cursor, conn[s].top, Barrier, Len(events),
                      Heat, conn[s].cursor = 0, conn[s].batch, conn[s].full, conn[s].replayed)
<1> DEFINE p == IF conn[s].cursor > 0 THEN "window" ELSE "first"
           r == conn[s].cursor = 0
<1>1. Barrier \in Nat /\ Heat \in Nat /\ Len(events) \in Nat
  BY BarrierIs, Facts
<1>2. /\ conn' = [conn EXCEPT ![s].delivered = Barrier, ![s].asof = Len(events),
                              ![s].heat = Heat, ![s].reset = r, ![s].pc = p]
      /\ conn[s].pc = "snapshot" /\ UNCHANGED outbox /\ UNCHANGED fanout /\ UNCHANGED client
  BY DEF Snapshot, At
<1>3. p \in HandlerPoint /\ r \in BOOLEAN
  BY DEF HandlerPoint
<1> HIDE DEF p, r
<1>4. Becomes(s, p, conn[s].cursor, conn[s].top, Barrier, Len(events),
              Heat, r, conn[s].batch, conn[s].full, conn[s].replayed)
  BY <1>1, <1>2, <1>3, SetSnapshot
<1> QED
  BY <1>2, <1>4 DEF p, r

\* Checking the cursor against the retained window sends the handler to the replay or a reset.
LEMMA CursorWindowIs ==
    ASSUME IInv, NEW s \in Streams, CursorWindow(s)
    PROVE  /\ conn[s].pc = "window" /\ UNCHANGED outbox /\ UNCHANGED fanout /\ UNCHANGED client
           /\ Becomes(s, IF RequiresReset(conn[s].cursor) THEN "first" ELSE "prior", conn[s].cursor, conn[s].top,
                      conn[s].delivered, conn[s].asof, conn[s].heat, RequiresReset(conn[s].cursor), conn[s].batch,
                      conn[s].full, conn[s].replayed)
<1> DEFINE r == RequiresReset(conn[s].cursor)
           p == IF r THEN "first" ELSE "prior"
<1>0. conn \in [Streams -> Handler]
  BY LocalsType
<1>1. /\ conn' = [conn EXCEPT ![s].pc = p, ![s].reset = r] /\ conn[s].pc = "window"
      /\ UNCHANGED outbox /\ UNCHANGED fanout /\ UNCHANGED client
  BY <1>0 DEF CursorWindow, At
<1>2. p \in HandlerPoint /\ r \in BOOLEAN
  BY DEF HandlerPoint, RequiresReset
<1> HIDE DEF p, r
<1>3. Becomes(s, p, conn[s].cursor, conn[s].top, conn[s].delivered, conn[s].asof,
              conn[s].heat, r, conn[s].batch, conn[s].full, conn[s].replayed)
  BY <1>1, <1>2, SetReset
<1> QED
  BY <1>1, <1>3 DEF p, r

\* The check of the row before the cursor decides between the replay and a reset.
LEMMA CursorPriorIs ==
    ASSUME IInv, NEW s \in Streams, CursorPrior(s)
    PROVE  /\ conn[s].pc = "prior" /\ UNCHANGED outbox /\ UNCHANGED fanout /\ UNCHANGED client
           /\ Becomes(s, "first", conn[s].cursor, conn[s].top, conn[s].delivered, conn[s].asof,
                      conn[s].heat, PriorStale(s), conn[s].batch, conn[s].full, conn[s].replayed)
<1> DEFINE r == PriorStale(s)
<1>0. conn \in [Streams -> Handler]
  BY LocalsType
<1>1. /\ conn' = [conn EXCEPT ![s].pc = "first", ![s].reset = r] /\ conn[s].pc = "prior"
      /\ UNCHANGED outbox /\ UNCHANGED fanout /\ UNCHANGED client
  BY <1>0 DEF CursorPrior, At
<1>2. r \in BOOLEAN
  BY DEF PriorStale
<1> HIDE DEF r
<1>3. Becomes(s, "first", conn[s].cursor, conn[s].top, conn[s].delivered, conn[s].asof,
              conn[s].heat, r, conn[s].batch, conn[s].full, conn[s].replayed)
  BY <1>1, <1>2, SetReset DEF HandlerPoint
<1> QED
  BY <1>1, <1>3 DEF r

\* The client of stream s shows a snapshot as of an id, with its heat and barrier.
Shown(s, asof, heat, barrier) ==
    /\ client' \in [Streams -> Client] /\ \A t \in Streams : t # s => client'[t] = client[t]
    /\ client'[s].cursor = barrier /\ client'[s].seen = {e \in OwnEver : e <= asof}
    /\ client'[s].heats = {heat} \ {0}

\* The client of stream s merges a delta.
Merged(s, e) ==
    /\ client' \in [Streams -> Client] /\ \A t \in Streams : t # s => client'[t] = client[t]
    /\ client'[s].cursor = e /\ client'[s].seen = client[s].seen \cup {e}
    /\ client'[s].heats = client[s].heats \cup {events[e].heat}

\* The first item is a snapshot, or the cursor is known and a replay starts at it.
LEMMA FirstIs ==
    ASSUME IInv, NEW s \in Streams, First(s)
    PROVE  /\ conn[s].pc = "first" /\ UNCHANGED outbox /\ UNCHANGED fanout
           /\ \/ /\ Becomes(s, "live", NoCursor, 0, conn[s].delivered, 0, conn[s].heat, FALSE, {}, TRUE, 0)
                 /\ Shown(s, conn[s].asof, conn[s].heat, conn[s].delivered)
              \/ /\ ~conn[s].reset /\ conn[s].cursor > 0 /\ conn[s].cursor \in OwnEver /\ conn[s].cursor \in Nat
                 /\ conn[s].cursor = client[s].cursor
                 /\ Becomes(s, "replay", NoCursor, 0, conn[s].cursor, 0, conn[s].heat, FALSE, {}, TRUE, 0)
                 /\ UNCHANGED client
<1>0. /\ conn[s].delivered \in Nat /\ conn[s].asof \in Nat /\ conn[s].heat \in Nat
      /\ HandlerOK(conn[s], client[s])
  BY LocalsType
<1>1. conn[s].pc = "first" /\ UNCHANGED outbox /\ UNCHANGED fanout
  BY DEF First, At
<1>2. CASE conn[s].cursor = NoCursor \/ conn[s].reset
  <2>1. /\ Show(s, conn[s].asof, conn[s].heat, conn[s].delivered)
        /\ conn' = [conn EXCEPT ![s] = Sending("live", conn[s].delivered, conn[s].heat)]
    BY <1>2 DEF First
  <2>2. Becomes(s, "live", NoCursor, 0, conn[s].delivered, 0, conn[s].heat, FALSE, {}, TRUE, 0)
    BY <1>0, <2>1, SetSending DEF HandlerPoint
  <2>3. Shown(s, conn[s].asof, conn[s].heat, conn[s].delivered)
    BY <1>0, <2>1, ShowIs DEF Shown
  <2> QED
    BY <1>1, <2>2, <2>3
<1>3. CASE ~(conn[s].cursor = NoCursor \/ conn[s].reset)
  <2>1. /\ UNCHANGED client
        /\ conn' = [conn EXCEPT ![s] = Sending("replay", conn[s].cursor, conn[s].heat)]
    BY <1>3 DEF First
  <2>2. conn[s].cursor \in OwnEver /\ conn[s].cursor = client[s].cursor
    BY <1>0, <1>1, <1>3 DEF HandlerOK, Setup
  <2>3. conn[s].cursor \in Nat /\ conn[s].cursor > 0
    BY <2>2, Facts
  <2>4. Becomes(s, "replay", NoCursor, 0, conn[s].cursor, 0, conn[s].heat, FALSE, {}, TRUE, 0)
    BY <1>0, <2>1, <2>3, SetSending DEF HandlerPoint
  <2> QED
    BY <1>1, <1>3, <2>1, <2>2, <2>3, <2>4
<1> QED
  BY <1>2, <1>3

\* One replay page hands the client the stored events between its cursor and the page's end.
LEMMA ReplayReadIs ==
    ASSUME IInv, NEW s \in Streams, ReplayRead(s)
    PROVE  /\ conn[s].pc = "replay" /\ conn[s].batch = {} /\ UNCHANGED outbox /\ UNCHANGED fanout /\ UNCHANGED client
           /\ Becomes(s, conn[s].pc, conn[s].cursor, conn[s].top, conn[s].delivered, conn[s].asof,
                      conn[s].heat, conn[s].reset, Page(Own, conn[s].delivered, BatchSize),
                      Cardinality(Page(Own, conn[s].delivered, BatchSize)) = BatchSize, conn[s].replayed)
           /\ Page(Own, conn[s].delivered, BatchSize) \subseteq Own
           /\ \A e \in Page(Own, conn[s].delivered, BatchSize) : e > conn[s].delivered
<1> DEFINE page == Page(Own, conn[s].delivered, BatchSize)
           full == Cardinality(page) = BatchSize
<1>1. /\ conn[s].pc = "replay" /\ conn[s].batch = {} /\ UNCHANGED outbox /\ UNCHANGED fanout /\ UNCHANGED client
      /\ conn' = [conn EXCEPT ![s].batch = page, ![s].full = full]
  BY DEF ReplayRead, At
<1>2. page \subseteq Own /\ (\A e \in page : e > conn[s].delivered) /\ full \in BOOLEAN
  BY DEF Page
<1>3. Own \subseteq Nat
  BY Facts
<1> HIDE DEF page, full
<1>4. page \in SUBSET Nat
  BY <1>2, <1>3
<1>5. Becomes(s, conn[s].pc, conn[s].cursor, conn[s].top, conn[s].delivered, conn[s].asof,
              conn[s].heat, conn[s].reset, page, full, conn[s].replayed)
  BY <1>1, <1>2, <1>4, SetPage
<1> QED
  BY <1>1, <1>2, <1>5 DEF page, full

\* The least event e of the batch is another heat's, or a delta.
LEMMA ReplayEventIs ==
    ASSUME IInv, NEW s \in Streams, ReplayEvent(s)
    PROVE  /\ conn[s].pc = "replay" /\ UNCHANGED outbox /\ UNCHANGED fanout
           /\ \E e \in conn[s].batch :
                /\ e \in OwnEver /\ e \in Nat /\ e <= Len(events) /\ e > conn[s].delivered
                /\ \A d \in conn[s].batch \ {e} : e < d
                /\ \/ /\ Becomes(s, "restart", conn[s].cursor, conn[s].top, conn[s].delivered, conn[s].asof,
                                 conn[s].heat, conn[s].reset, {}, conn[s].full, conn[s].replayed + 1)
                      /\ UNCHANGED client
                   \/ /\ ~OtherHeat(s, e)
                      /\ Becomes(s, conn[s].pc, conn[s].cursor, conn[s].top, e, conn[s].asof,
                                 conn[s].heat, conn[s].reset, conn[s].batch \ {e}, conn[s].full, conn[s].replayed + 1)
                      /\ Merged(s, e)
<1>0. /\ conn[s].batch \in SUBSET Nat /\ conn[s].replayed \in Nat /\ HandlerOK(conn[s], client[s])
      /\ conn \in [Streams -> Handler] /\ Len(events) \in Nat /\ OwnEver \in SUBSET (1..Len(events))
  BY LocalsType, Facts
<1>1. conn[s].pc = "replay" /\ UNCHANGED outbox /\ UNCHANGED fanout
  BY DEF ReplayEvent, At
<1>2. PICK e \in conn[s].batch :
          /\ \A d \in conn[s].batch : e <= d
          /\ IF OtherHeat(s, e)
             THEN /\ conn' = [conn EXCEPT ![s].pc = "restart", ![s].batch = {}, ![s].replayed = conn[s].replayed + 1]
                  /\ UNCHANGED client
             ELSE /\ conn' = [conn EXCEPT ![s].batch = conn[s].batch \ {e}, ![s].delivered = e,
                                          ![s].replayed = conn[s].replayed + 1]
                  /\ Merge(s, e)
  BY <1>0 DEF ReplayEvent
<1>3. e \in OwnEver /\ e \in Nat /\ e <= Len(events) /\ e > conn[s].delivered
  BY <1>0, <1>2 DEF HandlerOK
<1>4. \A d \in conn[s].batch \ {e} : e < d
  BY <1>0, <1>2, <1>3
<1>5. {} \in SUBSET Nat /\ conn[s].batch \ {e} \in SUBSET Nat /\ conn[s].replayed + 1 \in Nat /\ "restart" \in HandlerPoint
  BY <1>0 DEF HandlerPoint
<1>6. CASE OtherHeat(s, e)
  <2>1. Becomes(s, "restart", conn[s].cursor, conn[s].top, conn[s].delivered, conn[s].asof,
                conn[s].heat, conn[s].reset, {}, conn[s].full, conn[s].replayed + 1)
    BY <1>2, <1>5, <1>6, SetRestart
  <2> QED
    BY <1>1, <1>2, <1>3, <1>4, <1>6, <2>1
<1>7. CASE ~OtherHeat(s, e)
  <2>1. Becomes(s, conn[s].pc, conn[s].cursor, conn[s].top, e, conn[s].asof,
                conn[s].heat, conn[s].reset, conn[s].batch \ {e}, conn[s].full, conn[s].replayed + 1)
    BY <1>2, <1>3, <1>5, <1>7, SetReplayed
  <2>2. Merged(s, e)
    BY <1>2, <1>3, <1>7, MergeIs DEF Merged
  <2> QED
    BY <1>1, <1>2, <1>3, <1>4, <1>7, <2>1, <2>2
<1> QED
  BY <1>6, <1>7

\* The end of the replay starts the live loop at the cursor reached.
LEMMA ReplayDoneIs ==
    ASSUME IInv, NEW s \in Streams, ReplayDone(s)
    PROVE  /\ conn[s].pc = "replay" /\ conn[s].batch = {} /\ UNCHANGED outbox /\ UNCHANGED fanout /\ UNCHANGED client
           /\ \E p \in {"resnapshot", "live"} :
                /\ p = "live" => ~conn[s].full
                /\ Becomes(s, p, NoCursor, 0, conn[s].delivered, 0, conn[s].heat, FALSE, {}, TRUE, 0)
<1> DEFINE p == IF conn[s].replayed >= ReplayLimit THEN "resnapshot" ELSE "live"
<1>0. conn[s].delivered \in Nat /\ conn[s].heat \in Nat /\ conn \in [Streams -> Handler]
  BY LocalsType
<1>1. /\ conn[s].pc = "replay" /\ conn[s].batch = {} /\ UNCHANGED outbox /\ UNCHANGED fanout /\ UNCHANGED client
      /\ conn' = [conn EXCEPT ![s] = Sending(p, conn[s].delivered, conn[s].heat)]
      /\ p = "live" => ~conn[s].full
  BY <1>0 DEF ReplayDone, At
<1>2. p \in HandlerPoint /\ p \in {"resnapshot", "live"}
  BY DEF HandlerPoint
<1> HIDE DEF p
<1>3. Becomes(s, p, NoCursor, 0, conn[s].delivered, 0, conn[s].heat, FALSE, {}, TRUE, 0)
  BY <1>0, <1>1, <1>2, SetSending
<1> QED
  BY <1>1, <1>2, <1>3

\* A reset or an overflow replaces the client's view by a snapshot and its cursor.
LEMMA ResnapshotIs ==
    ASSUME IInv, NEW s \in Streams, Resnapshot(s)
    PROVE  /\ conn[s].pc \in {"restart", "resnapshot"} /\ UNCHANGED outbox /\ UNCHANGED fanout
           /\ Shown(s, Len(events), Heat, Barrier)
           /\ \E p \in {"resnapshot", "live"} : Becomes(s, p, NoCursor, 0, Barrier, 0, Heat, FALSE, {}, TRUE, 0)
<1> DEFINE p == IF conn[s].pc = "restart" /\ conn[s].replayed >= ReplayLimit THEN "resnapshot" ELSE "live"
<1>0. conn \in [Streams -> Handler] /\ Barrier \in Nat /\ Heat \in Nat /\ Len(events) \in Nat
  BY LocalsType, BarrierIs, Facts
<1>1. /\ conn[s].pc \in {"restart", "resnapshot"} /\ UNCHANGED outbox /\ UNCHANGED fanout
      /\ Show(s, Len(events), Heat, Barrier)
      /\ conn' = [conn EXCEPT ![s] = Sending(p, Barrier, Heat)]
  BY <1>0 DEF Resnapshot, At
<1>2. p \in HandlerPoint /\ p \in {"resnapshot", "live"}
  BY DEF HandlerPoint
<1> HIDE DEF p
<1>3. Becomes(s, p, NoCursor, 0, Barrier, 0, Heat, FALSE, {}, TRUE, 0)
  BY <1>0, <1>1, <1>2, SetSending
<1>4. Shown(s, Len(events), Heat, Barrier)
  BY <1>0, <1>1, ShowIs DEF Shown
<1> QED
  BY <1>1, <1>2, <1>3, <1>4

-----------------------------------------------------------------------------
(* The invariant is inductive: the handlers.                               *)

\* The stream is set up, its first item is decided, pages are read and sent.
LEMMA HandlerInv ==
    ASSUME IInv, NEW s \in Streams,
           \/ CursorRead(s) \/ Snapshot(s) \/ CursorWindow(s) \/ CursorPrior(s)
           \/ First(s) \/ ReplayRead(s) \/ ReplayEvent(s) \/ ReplayDone(s) \/ Resnapshot(s)
    PROVE  IInv'
<1>0. /\ conn[s].pc \in HandlerPoint /\ conn[s].cursor \in Int /\ conn[s].batch \in SUBSET Nat
      /\ conn[s].top \in Nat /\ conn[s].delivered \in Nat /\ conn[s].asof \in Nat
      /\ HandlerOK(conn[s], client[s])
  BY LocalsType
<1>1. /\ Len(events) \in Nat /\ OwnEver \in SUBSET (1..Len(events)) /\ OwnEver \subseteq Nat /\ Own \subseteq OwnEver
      /\ Barrier \in {0} \cup OwnEver /\ Barrier \in Nat /\ Barrier <= Len(events)
  BY Facts, BarrierIs
<1>2. /\ UNCHANGED outbox /\ UNCHANGED fanout
      /\ conn[s].pc \in Outside <=> conn[s].pc = "cursor_read"
  BY DEF CursorRead, Snapshot, CursorWindow, CursorPrior, First, ReplayRead, ReplayEvent, ReplayDone, Resnapshot, At, Outside
<1>c. UNCHANGED client => client' \in [Streams -> Client] /\ \A t \in Streams : client'[t] = client[t]
  BY ClientKept
<1>3. CASE CursorRead(s)
  <2>1. /\ conn[s].pc = "cursor_read" /\ UNCHANGED client /\ Newest(Stored) <= Len(events)
        /\ Becomes(s, "cursor_set", conn[s].cursor, Newest(Stored), conn[s].delivered, conn[s].asof,
                   conn[s].heat, conn[s].reset, conn[s].batch, conn[s].full, conn[s].replayed)
    BY <1>3, CursorReadIs
  <2>2. HandlerOK(conn'[s], client'[s])
    BY <1>0, <1>c, <2>1 DEF HandlerOK, Becomes, Setup
  <2> QED
    BY <1>2, <1>c, <2>1, <2>2, HandlerKeeps DEF Becomes, Outside
<1>4. CASE Snapshot(s)
  <2>1. PICK p \in {"window", "first"}, r \in BOOLEAN :
          /\ conn[s].pc = "snapshot" /\ UNCHANGED client /\ (p = "window" => conn[s].cursor > 0)
          /\ conn[s].cursor = 0 => r
          /\ Becomes(s, p, conn[s].cursor, conn[s].top, Barrier, Len(events),
                     Heat, r, conn[s].batch, conn[s].full, conn[s].replayed)
    <3> DEFINE r == conn[s].cursor = 0
    <3>0. r \in BOOLEAN /\ (conn[s].cursor = 0 => r)
      OBVIOUS
    <3>1. CASE conn[s].cursor > 0
      BY <1>4, <3>0, <3>1, SnapshotIs
    <3>2. CASE ~(conn[s].cursor > 0)
      BY <1>4, <3>0, <3>2, SnapshotIs
    <3> QED
      BY <3>1, <3>2
  <2>2. conn[s].batch = {}
    BY <1>0, <2>1 DEF HandlerOK
  <2>3. HandlerOK(conn'[s], client'[s])
    BY <1>0, <1>1, <1>c, <2>1, <2>2 DEF HandlerOK, Becomes, Setup
  <2> QED
    BY <1>2, <1>c, <2>1, <2>3, HandlerKeeps DEF Becomes, Outside
<1>5. CASE CursorWindow(s) \/ CursorPrior(s)
  <2>1. PICK p \in {"first", "prior"}, r \in BOOLEAN :
          /\ conn[s].pc \in {"window", "prior"} /\ UNCHANGED client
          /\ Becomes(s, p, conn[s].cursor, conn[s].top, conn[s].delivered, conn[s].asof,
                     conn[s].heat, r, conn[s].batch, conn[s].full, conn[s].replayed)
    <3>1. CASE CursorWindow(s) /\ RequiresReset(conn[s].cursor)
      <4>1. RequiresReset(conn[s].cursor) = TRUE
        BY <3>1 DEF RequiresReset
      <4> QED
        BY <3>1, <4>1, CursorWindowIs
    <3>2. CASE CursorWindow(s) /\ ~RequiresReset(conn[s].cursor)
      <4>1. RequiresReset(conn[s].cursor) = FALSE
        BY <3>2 DEF RequiresReset
      <4> QED
        BY <3>2, <4>1, CursorWindowIs
    <3>3. CASE CursorPrior(s)
      <4>1. PriorStale(s) \in BOOLEAN
        BY DEF PriorStale
      <4> QED
        BY <3>3, <4>1, CursorPriorIs
    <3> QED
      BY <1>5, <3>1, <3>2, <3>3
  <2>2. conn[s].cursor # 0 /\ conn[s].cursor > 0
    BY <1>0, <2>1 DEF HandlerOK
  <2>3. HandlerOK(conn'[s], client'[s])
    BY <1>0, <1>c, <2>1, <2>2 DEF HandlerOK, Becomes, Setup
  <2> QED
    BY <1>2, <1>c, <2>1, <2>3, HandlerKeeps DEF Becomes, Outside
<1>6. CASE First(s)
  <2>0. conn[s].pc = "first"
    BY <1>6, FirstIs
  <2>1. CASE /\ Becomes(s, "live", NoCursor, 0, conn[s].delivered, 0, conn[s].heat, FALSE, {}, TRUE, 0)
             /\ Shown(s, conn[s].asof, conn[s].heat, conn[s].delivered)
    <3>1. HandlerOK(conn'[s], client'[s])
      BY <1>0, <1>1, <2>0, <2>1 DEF HandlerOK, Becomes, Setup, NoCursor, Shown
    <3> QED
      BY <1>2, <2>0, <2>1, <3>1, HandlerKeeps DEF Becomes, Outside, Shown
  <2>2. CASE /\ conn[s].cursor \in OwnEver /\ conn[s].cursor \in Nat /\ conn[s].cursor = client[s].cursor
             /\ Becomes(s, "replay", NoCursor, 0, conn[s].cursor, 0, conn[s].heat, FALSE, {}, TRUE, 0)
             /\ UNCHANGED client
    <3>1. HandlerOK(conn'[s], client'[s])
      BY <1>0, <1>1, <1>c, <2>2 DEF HandlerOK, Becomes, Setup, NoCursor
    <3> QED
      BY <1>2, <1>c, <2>0, <2>2, <3>1, HandlerKeeps DEF Becomes, Outside
  <2> QED
    BY <1>6, <2>1, <2>2, FirstIs
<1>7. CASE ReplayRead(s)
  <2> DEFINE page == Page(Own, conn[s].delivered, BatchSize)
  <2>1. /\ conn[s].pc = "replay" /\ UNCHANGED client /\ page \subseteq Own /\ \A e \in page : e > conn[s].delivered
        /\ Becomes(s, conn[s].pc, conn[s].cursor, conn[s].top, conn[s].delivered, conn[s].asof,
                   conn[s].heat, conn[s].reset, page, Cardinality(page) = BatchSize, conn[s].replayed)
    BY <1>7, ReplayReadIs
  <2> HIDE DEF page
  <2>2. page \subseteq OwnEver
    BY <1>1, <2>1
  <2>3. HandlerOK(conn'[s], client'[s])
    BY <1>0, <1>c, <2>1, <2>2 DEF HandlerOK, Becomes, Setup
  <2> QED
    BY <1>2, <1>c, <2>1, <2>3, HandlerKeeps DEF Becomes, Outside
<1>8. CASE ReplayEvent(s)
  <2>0. conn[s].pc = "replay"
    BY <1>8, ReplayEventIs
  <2>1. PICK e \in conn[s].batch :
                /\ e \in OwnEver /\ e \in Nat /\ e <= Len(events) /\ e > conn[s].delivered
                /\ \A d \in conn[s].batch \ {e} : e < d
                /\ \/ /\ Becomes(s, "restart", conn[s].cursor, conn[s].top, conn[s].delivered, conn[s].asof,
                                 conn[s].heat, conn[s].reset, {}, conn[s].full, conn[s].replayed + 1)
                      /\ UNCHANGED client
                   \/ /\ ~OtherHeat(s, e)
                      /\ Becomes(s, conn[s].pc, conn[s].cursor, conn[s].top, e, conn[s].asof,
                                 conn[s].heat, conn[s].reset, conn[s].batch \ {e}, conn[s].full, conn[s].replayed + 1)
                      /\ Merged(s, e)
    BY <1>8, ReplayEventIs
  <2>2. CASE /\ Becomes(s, "restart", conn[s].cursor, conn[s].top, conn[s].delivered, conn[s].asof,
                        conn[s].heat, conn[s].reset, {}, conn[s].full, conn[s].replayed + 1)
             /\ UNCHANGED client
    <3>1. HandlerOK(conn'[s], client'[s])
      BY <1>0, <1>c, <2>0, <2>2 DEF HandlerOK, Becomes, Setup
    <3> QED
      BY <1>2, <1>c, <2>0, <2>2, <3>1, HandlerKeeps DEF Becomes, Outside
  <2>3. CASE /\ Becomes(s, conn[s].pc, conn[s].cursor, conn[s].top, e, conn[s].asof,
                        conn[s].heat, conn[s].reset, conn[s].batch \ {e}, conn[s].full, conn[s].replayed + 1)
             /\ Merged(s, e)
    <3>1. \A d \in conn[s].batch \ {e} : d > e /\ d \in OwnEver
      BY <1>0, <2>1 DEF HandlerOK
    <3>2. HandlerOK(conn'[s], client'[s])
      BY <1>0, <2>0, <2>1, <2>3, <3>1 DEF HandlerOK, Becomes, Setup, Merged
    <3> QED
      BY <1>2, <2>0, <2>3, <3>2, HandlerKeeps DEF Becomes, Outside, Merged
  <2> QED
    BY <2>1, <2>2, <2>3
<1>9. CASE ReplayDone(s)
  <2>1. PICK p \in {"resnapshot", "live"} :
          /\ conn[s].pc = "replay" /\ UNCHANGED client
          /\ Becomes(s, p, NoCursor, 0, conn[s].delivered, 0, conn[s].heat, FALSE, {}, TRUE, 0)
    BY <1>9, ReplayDoneIs
  <2>2. HandlerOK(conn'[s], client'[s])
    BY <1>0, <1>1, <1>c, <2>1 DEF HandlerOK, Becomes, Setup, NoCursor
  <2> QED
    BY <1>2, <1>c, <2>1, <2>2, HandlerKeeps DEF Becomes, Outside
<1>10. CASE Resnapshot(s)
  <2>1. PICK p \in {"resnapshot", "live"} :
          /\ conn[s].pc \in {"restart", "resnapshot"} /\ Shown(s, Len(events), Heat, Barrier)
          /\ Becomes(s, p, NoCursor, 0, Barrier, 0, Heat, FALSE, {}, TRUE, 0)
    BY <1>10, ResnapshotIs
  <2>2. HandlerOK(conn'[s], client'[s])
    BY <1>1, <2>1 DEF HandlerOK, Becomes, Setup, NoCursor, Shown
  <2> QED
    BY <1>2, <2>1, <2>2, HandlerKeeps DEF Becomes, Outside, Shown
<1> QED
  BY <1>3, <1>4, <1>5, <1>6, <1>7, <1>8, <1>9, <1>10

\* A stream is opened, and registers its queue at once if others are there.
LEMMA OpenInv == ASSUME IInv, NEW s \in Streams, Open(s) PROVE IInv'
<1>0. /\ StreamInv(s) /\ HandlerOK(conn[s], client[s]) /\ client[s] \in Client /\ client[s].cursor \in Int
      /\ queues[s] \in Seq(Int)
  BY LocalsType
<1>1. /\ queues \in [Streams -> Seq(Int)] /\ subs \subseteq Streams /\ orphans \in Nat /\ BrokerInv
      /\ broker \in [pc : {"idle", "fan", "quality"}, last : Nat, batch : SUBSET Nat, full : BOOLEAN]
      /\ Len(events) \in Nat /\ OwnEver \in SUBSET (1..Len(events))
  BY Facts DEF IInv, TypeOK
<1> DEFINE p == IF Subscribed THEN "snapshot" ELSE "cursor_read"
<1>2. PICK c \in {client[s], NewClient} :
          /\ client' = [client EXCEPT ![s] = c]
          /\ conn' = [conn EXCEPT ![s] = [Idle EXCEPT !.pc = p, !.cursor = c.cursor]]
  BY DEF Open
<1>3. /\ UNCHANGED outbox /\ events' = events /\ broker' = broker /\ queues' = queues /\ orphans' = orphans
      /\ subs' = (IF Subscribed THEN subs \cup {s} ELSE subs) /\ conn[s].pc = "off"
  BY DEF Open, At, outbox
<1>4. c \in Client /\ c.cursor \in Int /\ c.cursor \in {NoCursor, 0} \cup OwnEver
  BY <1>0 DEF NewClient, Client, NoCursor, HandlerOK
<1>5. p \in HandlerPoint /\ p \in {"snapshot", "cursor_read"} /\ (Subscribed <=> p = "snapshot")
  BY DEF HandlerPoint
<1> HIDE DEF p
<1>6. Becomes(s, p, c.cursor, 0, 0, 0, 0, FALSE, {}, TRUE, 0)
  BY <1>2, <1>4, <1>5, SetOpen
<1>7. client' \in [Streams -> Client] /\ client'[s] = c /\ \A t \in Streams : t # s => client'[t] = client[t]
  BY <1>2, <1>4, ClientSet
<1>8. HandlerOK(conn'[s], client'[s])
  BY <1>1, <1>4, <1>5, <1>6, <1>7 DEF HandlerOK, Becomes, Setup, NoCursor
<1>9. StreamInv(s)'
  <2>1. OwnEver' = OwnEver
    BY <1>3 DEF OwnEver
  <2>2. HandlerOK(conn[s], client[s])'
    BY <1>3, <1>8, <2>1 DEF HandlerOK
  <2>3. s \notin subs /\ queues'[s] = <<>>
    BY <1>0, <1>3 DEF StreamInv, Outside
  <2>4. s \in subs' <=> p = "snapshot"
    BY <1>3, <1>5, <2>3
  <2> QED
    BY <1>0, <1>3, <1>5, <1>6, <2>1, <2>2, <2>3, <2>4 DEF StreamInv, Becomes, Outside, QueueOK
<1>10. BrokerInv'
  BY <1>1, <1>3 DEF BrokerInv
<1>11. subs' \subseteq Streams /\ subs' \ {s} = subs \ {s}
  BY <1>1, <1>3
<1>12. \A t \in Streams : t # s => conn'[t] = conn[t] /\ client'[t] = client[t] /\ queues'[t] = queues[t]
  BY <1>3, <1>6, <1>7 DEF Becomes
<1>13. /\ broker' \in [pc : {"idle", "fan", "quality"}, last : Nat, batch : SUBSET Nat, full : BOOLEAN]
       /\ queues' \in [Streams -> Seq(Int)] /\ orphans' \in Nat
  BY <1>1, <1>3
<1>14. conn' \in [Streams -> Handler]
  BY <1>6 DEF Becomes
<1> QED
  BY <1>3, <1>7, <1>9, <1>10, <1>11, <1>12, <1>13, <1>14, OneStreamStep

\* The first subscriber sets the broker's cursor.
LEMMA CursorSetInv == ASSUME IInv, NEW s \in Streams, CursorSet(s) PROVE IInv'
<1>0. /\ StreamInv(s) /\ HandlerOK(conn[s], client[s]) /\ conn[s].top \in Nat /\ conn[s].delivered \in Nat
      /\ conn[s].asof \in Nat /\ conn[s].cursor \in Int /\ queues[s] \in Seq(Int)
  BY LocalsType
<1>1. /\ queues \in [Streams -> Seq(Int)] /\ subs \subseteq Streams /\ orphans \in Nat /\ BrokerInv
      /\ broker \in [pc : {"idle", "fan", "quality"}, last : Nat, batch : SUBSET Nat, full : BOOLEAN]
      /\ Len(events) \in Nat
  BY Facts DEF IInv, TypeOK
<1>2. /\ UNCHANGED outbox /\ events' = events /\ queues' = queues /\ orphans' = orphans /\ UNCHANGED client
      /\ subs' = subs \cup {s} /\ conn[s].pc = "cursor_set"
      /\ broker' = [broker EXCEPT !.last = conn[s].top]
      /\ conn' = [conn EXCEPT ![s].pc = "snapshot", ![s].top = 0]
  BY DEF CursorSet, At, outbox
<1>3. Becomes(s, "snapshot", conn[s].cursor, 0, conn[s].delivered, conn[s].asof,
              conn[s].heat, conn[s].reset, conn[s].batch, conn[s].full, conn[s].replayed)
  <2>1. "snapshot" \in HandlerPoint /\ 0 \in Nat
    BY DEF HandlerPoint
  <2> QED
    BY <1>2, <2>1, SetTop
<1>4. client' \in [Streams -> Client] /\ \A t \in Streams : client'[t] = client[t]
  BY <1>2, ClientKept
<1>5. HandlerOK(conn'[s], client'[s])
  BY <1>0, <1>1, <1>2, <1>3, <1>4 DEF HandlerOK, Becomes, Setup
<1>6. StreamInv(s)'
  <2>1. OwnEver' = OwnEver
    BY <1>2 DEF OwnEver
  <2>2. HandlerOK(conn[s], client[s])'
    BY <1>2, <1>5, <2>1 DEF HandlerOK
  <2> QED
    BY <1>0, <1>2, <1>3, <2>1, <2>2 DEF StreamInv, Becomes, Outside, QueueOK
<1>7. /\ broker' \in [pc : {"idle", "fan", "quality"}, last : Nat, batch : SUBSET Nat, full : BOOLEAN]
      /\ broker'.last = conn[s].top /\ broker'.pc = broker.pc /\ broker'.batch = broker.batch
  BY <1>0, <1>1, <1>2
<1>8. BrokerInv'
  BY <1>0, <1>1, <1>2, <1>7 DEF BrokerInv, HandlerOK
<1>9. subs' \subseteq Streams /\ subs' \ {s} = subs \ {s}
  BY <1>1, <1>2
<1>10. \A t \in Streams : t # s => conn'[t] = conn[t] /\ client'[t] = client[t] /\ queues'[t] = queues[t]
  BY <1>2, <1>3, <1>4 DEF Becomes
<1>11. conn' \in [Streams -> Handler] /\ queues' \in [Streams -> Seq(Int)] /\ orphans' \in Nat
  BY <1>1, <1>2, <1>3 DEF Becomes
<1> QED
  BY <1>2, <1>4, <1>6, <1>7, <1>8, <1>9, <1>10, <1>11, OneStreamStep

\* A stream that ends, whichever way.
LEMMA LeaveInv ==
    ASSUME IInv, NEW s \in Streams, Refused(s) \/ SetupFault(s) \/ Disconnect(s)
    PROVE  IInv'
<1>0. StreamInv(s) /\ HandlerOK(conn[s], client[s])
  BY LocalsType
<1>1. /\ queues \in [Streams -> Seq(Int)] /\ subs \subseteq Streams /\ orphans \in Nat /\ BrokerInv
      /\ broker \in [pc : {"idle", "fan", "quality"}, last : Nat, batch : SUBSET Nat, full : BOOLEAN]
      /\ Len(events) \in Nat
  BY Facts DEF IInv, TypeOK
<1>2. /\ UNCHANGED outbox /\ events' = events /\ broker' = broker /\ UNCHANGED client
      /\ subs' = subs \ {s} /\ queues' = [queues EXCEPT ![s] = <<>>]
      /\ conn' = [conn EXCEPT ![s] = Idle]
  BY DEF Refused, SetupFault, Disconnect, Unsubscribe, outbox
<1>3. orphans' \in Nat
  BY <1>1 DEF Refused, SetupFault, Disconnect
<1>4. Becomes(s, "off", NoCursor, 0, 0, 0, 0, FALSE, {}, TRUE, 0)
  BY <1>2, SetIdle
<1>5. client' \in [Streams -> Client] /\ \A t \in Streams : client'[t] = client[t]
  BY <1>2, ClientKept
<1>6. queues' \in [Streams -> Seq(Int)] /\ queues'[s] = <<>> /\ \A t \in Streams : t # s => queues'[t] = queues[t]
  <2>1. <<>> \in Seq(Int)
    OBVIOUS
  <2> QED
    BY <1>2, <2>1, QueueSet
<1>7. HandlerOK(conn'[s], client'[s])
  BY <1>0, <1>1, <1>4, <1>5 DEF HandlerOK, Becomes, Setup, NoCursor
<1>8. StreamInv(s)'
  <2>1. OwnEver' = OwnEver
    BY <1>2 DEF OwnEver
  <2>2. HandlerOK(conn[s], client[s])'
    BY <1>2, <1>7, <2>1 DEF HandlerOK
  <2>3. s \notin subs' /\ conn'[s].pc = "off" /\ DOMAIN queues'[s] = {}
    BY <1>2, <1>4, <1>6 DEF Becomes
  <2> QED
    BY <1>6, <2>2, <2>3 DEF StreamInv, Outside, QueueOK
<1>9. BrokerInv'
  BY <1>1, <1>2 DEF BrokerInv
<1>10. subs' \subseteq Streams /\ subs' \ {s} = subs \ {s}
  BY <1>1, <1>2
<1>11. \A t \in Streams : t # s => conn'[t] = conn[t] /\ client'[t] = client[t] /\ queues'[t] = queues[t]
  BY <1>4, <1>5, <1>6 DEF Becomes
<1>12. conn' \in [Streams -> Handler]
  BY <1>4 DEF Becomes
<1> QED
  BY <1>1, <1>2, <1>3, <1>5, <1>6, <1>8, <1>9, <1>10, <1>11, <1>12, OneStreamStep

\* What an item of a queue does to its stream.
LEMMA ItemIs ==
    ASSUME IInv, NEW s \in Streams, TakeItem(s)
    PROVE  /\ queues[s] # <<>> /\ conn[s].pc = "live" /\ Head(queues[s]) \in {ResetRequired, Quality} \cup OwnEver
           /\ Head(queues[s]) \in Int
           /\ queues' \in [Streams -> Seq(Int)] /\ queues'[s] = Tail(queues[s])
           /\ Len(queues[s]) \in Nat /\ Len(queues[s]) > 0 /\ Head(queues[s]) = queues[s][1]
           /\ DOMAIN queues[s] = 1..Len(queues[s]) /\ DOMAIN Tail(queues[s]) = 1..(Len(queues[s]) - 1)
           /\ \A i \in 1..(Len(queues[s]) - 1) : Tail(queues[s])[i] = queues[s][i + 1]
           /\ \A t \in Streams : t # s => queues'[t] = queues[t]
           /\ UNCHANGED <<outbox, broker, subs, orphans>>
<1>0. queues[s] \in Seq(Int) /\ StreamInv(s) /\ queues \in [Streams -> Seq(Int)]
  BY LocalsType DEF IInv, TypeOK
<1>1. queues[s] # <<>> /\ conn[s].pc = "live" /\ UNCHANGED <<outbox, broker, subs, orphans>>
  BY DEF TakeItem, At
<1>2. queues' = [queues EXCEPT ![s] = Tail(queues[s])]
  BY <1>0 DEF TakeItem
<1>3. /\ Tail(queues[s]) \in Seq(Int) /\ Len(queues[s]) \in Nat /\ Len(queues[s]) > 0 /\ Head(queues[s]) = queues[s][1]
      /\ DOMAIN queues[s] = 1..Len(queues[s]) /\ DOMAIN Tail(queues[s]) = 1..(Len(queues[s]) - 1)
      /\ \A i \in 1..(Len(queues[s]) - 1) : Tail(queues[s])[i] = queues[s][i + 1]
      /\ Head(queues[s]) \in Int
  BY <1>0, <1>1, HeadTailProperties, EmptySeq, LenProperties
<1>4. 1 \in DOMAIN queues[s]
  BY <1>3
<1>5. Head(queues[s]) \in {ResetRequired, Quality} \cup OwnEver
  BY <1>0, <1>3, <1>4 DEF StreamInv, QueueOK
<1>6. /\ queues' \in [Streams -> Seq(Int)] /\ queues'[s] = Tail(queues[s])
      /\ \A t \in Streams : t # s => queues'[t] = queues[t]
  BY <1>2, <1>3, QueueSet
<1> QED
  BY <1>1, <1>3, <1>5, <1>6

\* A marker or another heat asks for a snapshot, a note or an old delta is dropped,
\* and a delta that is newer than the client's cursor is merged.
LEMMA TakeIs ==
    ASSUME IInv, NEW s \in Streams, TakeItem(s)
    PROVE  \/ /\ UNCHANGED client
              /\ Becomes(s, "resnapshot", conn[s].cursor, conn[s].top, conn[s].delivered, conn[s].asof,
                         conn[s].heat, conn[s].reset, conn[s].batch, conn[s].full, conn[s].replayed)
           \/ /\ UNCHANGED client /\ UNCHANGED conn
              /\ Head(queues[s]) # ResetRequired /\ Head(queues[s]) <= conn[s].delivered
           \/ /\ Head(queues[s]) \in OwnEver /\ Head(queues[s]) \in Nat /\ Head(queues[s]) <= Len(events)
              /\ Head(queues[s]) > conn[s].delivered /\ ~OtherHeat(s, Head(queues[s]))
              /\ Becomes(s, conn[s].pc, conn[s].cursor, conn[s].top, Head(queues[s]), conn[s].asof,
                         conn[s].heat, conn[s].reset, conn[s].batch, conn[s].full, conn[s].replayed)
              /\ Merged(s, Head(queues[s]))
<1> DEFINE item == Head(queues[s])
<1>0. conn[s].delivered \in Nat /\ OwnEver \in SUBSET (1..Len(events)) /\ Len(events) \in Nat
  BY LocalsType, Facts
<1>1. item \in {ResetRequired, Quality} \cup OwnEver /\ item \in Int
  BY ItemIs
<1>2. \/ Goto(s, "resnapshot") /\ UNCHANGED client
      \/ /\ UNCHANGED conn /\ UNCHANGED client /\ (item = Quality \/ (item > 0 /\ AlreadyDelivered(s, item)))
      \/ /\ item > 0 /\ ~AlreadyDelivered(s, item) /\ ~OtherHeat(s, item)
         /\ conn' = [conn EXCEPT ![s].delivered = item] /\ Merge(s, item)
  BY DEF TakeItem
<1> HIDE DEF item
<1>3. CASE Goto(s, "resnapshot") /\ UNCHANGED client
  <2>1. Becomes(s, "resnapshot", conn[s].cursor, conn[s].top, conn[s].delivered, conn[s].asof,
                conn[s].heat, conn[s].reset, conn[s].batch, conn[s].full, conn[s].replayed)
    BY <1>3, SetPc DEF HandlerPoint, Goto
  <2> QED
    BY <1>3, <2>1
<1>4. CASE UNCHANGED conn /\ UNCHANGED client /\ (item = Quality \/ (item > 0 /\ AlreadyDelivered(s, item)))
  <2>1. item # ResetRequired /\ item <= conn[s].delivered
    BY <1>0, <1>1, <1>4 DEF Quality, ResetRequired, AlreadyDelivered
  <2> QED
    BY <1>4, <2>1 DEF item
<1>5. CASE /\ item > 0 /\ ~AlreadyDelivered(s, item) /\ ~OtherHeat(s, item)
           /\ conn' = [conn EXCEPT ![s].delivered = item] /\ Merge(s, item)
  <2>1. item \in OwnEver
    BY <1>1, <1>5 DEF ResetRequired, Quality
  <2>2. item \in Nat /\ item <= Len(events) /\ item > conn[s].delivered
    BY <1>0, <1>5, <2>1 DEF AlreadyDelivered
  <2>3. Becomes(s, conn[s].pc, conn[s].cursor, conn[s].top, item, conn[s].asof,
                conn[s].heat, conn[s].reset, conn[s].batch, conn[s].full, conn[s].replayed)
    BY <1>5, <2>2, SetDelivered
  <2>4. Merged(s, item)
    BY <1>5, <2>1, MergeIs DEF Merged
  <2> QED
    BY <1>5, <2>1, <2>2, <2>3, <2>4 DEF item
<1> QED
  BY <1>2, <1>3, <1>4, <1>5

\* An item is taken from a queue.
LEMMA TakeInv == ASSUME IInv, NEW s \in Streams, TakeItem(s) PROVE IInv'
<1> DEFINE item == Head(queues[s])
<1>0. /\ conn[s].delivered \in Nat /\ HandlerOK(conn[s], client[s]) /\ conn \in [Streams -> Handler] /\ StreamInv(s)
  BY LocalsType
<1>1. /\ conn[s].pc = "live"
      /\ queues' \in [Streams -> Seq(Int)] /\ queues'[s] = Tail(queues[s])
      /\ Len(queues[s]) \in Nat /\ Len(queues[s]) > 0
      /\ DOMAIN queues[s] = 1..Len(queues[s]) /\ DOMAIN Tail(queues[s]) = 1..(Len(queues[s]) - 1)
      /\ \A i \in 1..(Len(queues[s]) - 1) : Tail(queues[s])[i] = queues[s][i + 1]
      /\ \A t \in Streams : t # s => queues'[t] = queues[t]
  BY ItemIs
<1>2. UNCHANGED outbox /\ events' = events /\ broker' = broker /\ subs' = subs /\ orphans' = orphans
  BY DEF TakeItem, outbox
<1>3. conn[s].batch = {}
  BY <1>0, <1>1 DEF HandlerOK
<1>4. /\ conn' \in [Streams -> Handler] /\ client' \in [Streams -> Client]
      /\ \A t \in Streams : t # s => conn'[t] = conn[t] /\ client'[t] = client[t]
      /\ conn'[s].pc \notin Outside /\ HandlerOK(conn'[s], client'[s])
  <2>0. UNCHANGED client => client' \in [Streams -> Client] /\ \A t \in Streams : client'[t] = client[t]
    BY ClientKept
  <2>1. CASE /\ UNCHANGED client
             /\ Becomes(s, "resnapshot", conn[s].cursor, conn[s].top, conn[s].delivered, conn[s].asof,
                        conn[s].heat, conn[s].reset, conn[s].batch, conn[s].full, conn[s].replayed)
    BY <1>0, <1>1, <2>0, <2>1 DEF HandlerOK, Becomes, Setup, Outside
  <2>2. CASE UNCHANGED conn /\ UNCHANGED client
    BY <1>0, <1>1, <2>0, <2>2 DEF Outside
  <2>3. CASE /\ item \in OwnEver /\ item \in Nat /\ item <= Len(events) /\ item > conn[s].delivered
             /\ Becomes(s, conn[s].pc, conn[s].cursor, conn[s].top, item, conn[s].asof,
                        conn[s].heat, conn[s].reset, conn[s].batch, conn[s].full, conn[s].replayed)
             /\ Merged(s, item)
    <3> HIDE DEF item
    <3> QED
      BY <1>0, <1>1, <1>3, <2>3 DEF HandlerOK, Becomes, Setup, Outside, Merged
  <2> QED
    BY <2>1, <2>2, <2>3, TakeIs
<1> HIDE DEF item
<1>5. StreamInv(s)'
  <2>1. OwnEver' = OwnEver
    BY <1>2 DEF OwnEver
  <2>2. HandlerOK(conn[s], client[s])'
    BY <1>2, <1>4, <2>1 DEF HandlerOK
  <2>3. QueueOK(Tail(queues[s]))
    <3> SUFFICES ASSUME NEW i \in 1..(Len(queues[s]) - 1)
                 PROVE  Tail(queues[s])[i] \in {ResetRequired, Quality} \cup OwnEver
      BY <1>1 DEF QueueOK
    <3>1. i + 1 \in DOMAIN queues[s]
      BY <1>1
    <3> QED
      BY <1>0, <1>1, <3>1 DEF StreamInv, QueueOK
  <2>4. QueueOK(queues[s])'
    BY <1>1, <2>1, <2>3 DEF QueueOK
  <2>5. s \in subs
    BY <1>0, <1>1 DEF StreamInv, Outside
  <2> QED
    BY <1>2, <1>4, <2>2, <2>4, <2>5 DEF StreamInv
<1>6. BrokerInv'
  BY <1>2 DEF IInv, BrokerInv
<1>7. /\ broker' \in [pc : {"idle", "fan", "quality"}, last : Nat, batch : SUBSET Nat, full : BOOLEAN]
      /\ subs' \subseteq Streams /\ subs' \ {s} = subs \ {s} /\ orphans' \in Nat
  BY <1>2 DEF IInv, TypeOK
<1> QED
  BY <1>1, <1>2, <1>4, <1>5, <1>6, <1>7, OneStreamStep

\* The invariant is inductive.
LEMMA NextInv == ASSUME IInv, [Next]_vars PROVE IInv'
<1>1. CASE WriterStep
  BY <1>1, WriterInv
<1>2. CASE BrokerStep
  BY <1>2, BrokerStepInv
<1>3. CASE \E s \in Streams : Open(s) \/ HandlerStep(s) \/ Refused(s) \/ SetupFault(s) \/ Disconnect(s)
  <2>1. PICK s \in Streams : Open(s) \/ HandlerStep(s) \/ Refused(s) \/ SetupFault(s) \/ Disconnect(s)
    BY <1>3
  <2>2. CASE HandlerStep(s)
    BY <2>2, HandlerInv, CursorSetInv, TakeInv DEF HandlerStep
  <2> QED
    BY <2>1, <2>2, OpenInv, LeaveInv
<1>4. CASE ApiRestart
  BY <1>4, RestartInv
<1>5. CASE UNCHANGED vars
  <2>1. /\ events' = events /\ gone' = gone /\ session' = session /\ broker' = broker /\ queues' = queues
        /\ subs' = subs /\ orphans' = orphans /\ conn' = conn /\ client' = client
    BY <1>5 DEF vars, outbox, fanout
  <2> QED
    BY <2>1 DEF IInv, TypeOK, OutboxInv, BrokerInv, StreamInv, HandlerOK, QueueOK, OwnEver, Heat
<1> QED
  BY <1>1, <1>2, <1>3, <1>4, <1>5 DEF Next

\* The handlers, their clients and the queues agree about cursors, for any
\* number of streams.
THEOREM Invariance == Spec => []IInv
<1>1. Init => IInv
  BY InitInv
<1>2. IInv /\ [Next]_vars => IInv'
  BY NextInv
<1> QED
  BY <1>1, <1>2, PTL DEF Spec

\* A client that gets a delta gets one that is newer than its cursor.
LEMMA DeltaStep ==
    ASSUME IInv, [Next]_vars, NEW s \in Streams, conn[s].pc \in {"replay", "live"},
           client'[s].cursor # client[s].cursor, conn'[s].pc = conn[s].pc
    PROVE  client'[s].cursor > client[s].cursor
<1>0. /\ HandlerOK(conn[s], client[s]) /\ conn[s].delivered = client[s].cursor /\ client \in [Streams -> Client]
      /\ conn[s].delivered \in Nat /\ conn[s].batch \in SUBSET Nat
  BY LocalsType DEF HandlerOK, IInv, TypeOK
<1>1. CASE \E t \in Streams : t # s /\ (Open(t) \/ HandlerStep(t))
  <2>1. PICK t \in Streams : t # s /\ (Open(t) \/ HandlerStep(t))
    BY <1>1
  <2>2. client'[s] = client[s]
    BY <1>0, <2>1 DEF Open, HandlerStep, CursorRead, CursorSet, Snapshot, CursorWindow, CursorPrior, First, ReplayRead,
         ReplayEvent, ReplayDone, Resnapshot, TakeItem, Show, Merge
  <2> QED
    BY <2>2
<1>2. CASE ReplayEvent(s)
  <2>1. PICK e \in conn[s].batch : UNCHANGED client \/ Merge(s, e)
    BY <1>2 DEF ReplayEvent
  <2>2. e \in OwnEver /\ e > conn[s].delivered
    BY <1>0 DEF HandlerOK
  <2>3. CASE Merge(s, e)
    BY <1>0, <2>2, <2>3, MergeIs
  <2> QED
    BY <2>1, <2>3
<1>3. CASE TakeItem(s)
  <2> DEFINE item == Head(queues[s])
  <2>1. UNCHANGED client \/ (item > 0 /\ ~AlreadyDelivered(s, item) /\ Merge(s, item))
    BY <1>3 DEF TakeItem
  <2>2. item \in {ResetRequired, Quality} \cup OwnEver /\ item \in Int
    BY <1>3, ItemIs
  <2> HIDE DEF item
  <2>3. CASE item > 0 /\ ~AlreadyDelivered(s, item) /\ Merge(s, item)
    <3>1. item \in OwnEver /\ item > conn[s].delivered
      BY <1>0, <2>2, <2>3 DEF ResetRequired, Quality, AlreadyDelivered
    <3> QED
      BY <1>0, <2>3, <3>1, MergeIs
  <2> QED
    BY <2>1, <2>3
<1>4. CASE Open(s) \/ CursorRead(s) \/ CursorSet(s) \/ Snapshot(s) \/ CursorWindow(s) \/ CursorPrior(s)
           \/ First(s) \/ Resnapshot(s)
  BY <1>4 DEF Open, CursorRead, CursorSet, Snapshot, CursorWindow, CursorPrior, First, Resnapshot, At
<1>5. CASE ReplayRead(s) \/ ReplayDone(s)
  BY <1>5 DEF ReplayRead, ReplayDone
<1>6. CASE \E t \in Streams : Refused(t) \/ SetupFault(t) \/ Disconnect(t)
  BY <1>6 DEF Refused, SetupFault, Disconnect
<1>7. CASE WriterStep \/ BrokerStep \/ ApiRestart \/ UNCHANGED vars
  BY <1>7 DEF WriterStep, BrokerStep, ApiRestart, AppendStreamEvent, AppendForeignEvent, NewHeat, StopSession,
       ApplyRetention, ResetDerivedState, BrokerRead, BrokerFan, BrokerBatchDone, BrokerQuality, vars
<1> QED
  BY <1>1, <1>2, <1>3, <1>4, <1>5, <1>6, <1>7 DEF Next, HandlerStep

\* Deltas reach every client in increasing order of their ids, from the replay
\* and from the queue alike, and none is merged twice.
THEOREM DeltasTheorem == Spec => DeltasAdvance
<1>1. IInv /\ [Next]_vars =>
        [\A s \in Streams :
           conn[s].pc \in {"replay", "live"} /\ client'[s].cursor # client[s].cursor
              /\ conn'[s].pc = conn[s].pc
           => client'[s].cursor > client[s].cursor]_vars
  BY DeltaStep
<1> QED
  BY <1>1, Invariance, PTL DEF Spec, DeltasAdvance

-----------------------------------------------------------------------------
(* A view is of one heat.                                                  *)

\* Once the session has a heat: what the heats of a client's view say of the
\* heat its handler compares events with.
HeatInv(s) ==
    /\ conn[s].pc \in Serving => conn[s].heat \in 1..Heat
    /\ \A h \in client[s].heats : h \in 1..Heat /\ (client[s].cursor > 0 => events[client[s].cursor].heat <= h)
    /\ \A h, k \in client[s].heats : h = k
    /\ conn[s].pc \in Setup => \A h \in client[s].heats : h <= conn[s].heat
    /\ conn[s].pc \in Setup /\ conn[s].delivered > 0 => events[conn[s].delivered].heat <= conn[s].heat
    /\ conn[s].pc = "first" /\ conn[s].cursor > 0 /\ ~conn[s].reset => events[conn[s].cursor].heat = conn[s].heat
    /\ conn[s].pc \in {"replay", "live"} => \A h \in client[s].heats : h = conn[s].heat

HInv == Heat > 0 /\ \A s \in Streams : HeatInv(s)

\* Two heats with the same id are the same heat.
LEMMA SameHeat ==
    ASSUME IInv, NEW h \in 1..Heat, NEW k \in 1..Heat, HeatId(h) = HeatId(k)
    PROVE  h = k
<1>1. Heat \in Nat /\ DOMAIN session.heats = 1..Heat /\ \A i \in 1..Heat : session.heats[i] \in Nat
  BY Facts
<1>2. session.heats[h] = session.heats[k]
  BY <1>1 DEF HeatId
<1>3. ~(h < k) /\ ~(k < h)
  BY <1>1, <1>2 DEF IInv, OutboxInv
<1> QED
  BY <1>1, <1>3

\* A delta that passes the comparison is of the handler's heat.
LEMMA SameHeatDelta ==
    ASSUME IInv, NEW s \in Streams, conn[s].heat \in 1..Heat, NEW e \in OwnEver, ~OtherHeat(s, e)
    PROVE  events[e].heat = conn[s].heat
<1>1. events[e].heat \in 1..Heat /\ Heat \in Nat
  BY Facts DEF IInv, OutboxInv
<1>2. conn[s].heat # 0
  BY <1>1
<1> QED
  BY <1>1, <1>2, SameHeat DEF OtherHeat

\* A stream that a step leaves alone.
LEMMA HeatKept ==
    ASSUME IInv, HInv, NEW t \in Streams, conn'[t] = conn[t], client'[t] = client[t],
           Heat' \in Nat, Heat <= Heat', \A e \in 1..Len(events) : events'[e] = events[e]
    PROVE  HeatInv(t)'
<1>1. /\ HeatInv(t) /\ HandlerOK(conn[t], client[t]) /\ conn[t].delivered \in Nat /\ conn[t].cursor \in Int
      /\ client[t].cursor \in Int /\ conn[t].pc \in HandlerPoint
  BY LocalsType DEF HInv
<1>2. Heat \in Nat /\ Len(events) \in Nat /\ OwnEver \in SUBSET (1..Len(events))
  BY Facts
<1>3. \A h \in 1..Heat : h \in 1..Heat'
  BY <1>2
<1>4. client[t].cursor > 0 => events'[client[t].cursor] = events[client[t].cursor]
  BY <1>1, <1>2 DEF HandlerOK, NoCursor
<1>5. conn[t].pc \in Setup /\ conn[t].delivered > 0 => events'[conn[t].delivered] = events[conn[t].delivered]
  BY <1>1, <1>2 DEF HandlerOK
<1>6. conn[t].pc = "first" /\ conn[t].cursor > 0 => events'[conn[t].cursor] = events[conn[t].cursor]
  BY <1>1, <1>2 DEF HandlerOK, NoCursor
<1> QED
  BY <1>1, <1>3, <1>4, <1>5, <1>6 DEF HeatInv

\* A step of stream s leaves the views of the others.
LEMMA HeatOfOthers ==
    ASSUME IInv, HInv, NEW s \in Streams, UNCHANGED outbox,
           \A t \in Streams : t # s => conn'[t] = conn[t] /\ client'[t] = client[t], HeatInv(s)'
    PROVE  HInv'
<1>1. events' = events /\ session' = session
  BY DEF outbox
<1>2. Heat' = Heat /\ Heat \in Nat
  BY <1>1, Facts DEF Heat
<1>3. ASSUME NEW t \in Streams, t # s PROVE HeatInv(t)'
  BY <1>1, <1>2, <1>3, HeatKept
<1> QED
  BY <1>2, <1>3 DEF HInv

\* Writers, the broker and a restart of the API.
LEMMA HeatWriters ==
    ASSUME IInv, HInv, WriterStep \/ BrokerStep \/ ApiRestart \/ UNCHANGED vars
    PROVE  HInv'
<1>0. Heat \in Nat /\ Len(events) \in Nat /\ session.floor \in Nat /\ Own \subseteq DOMAIN events
      /\ gone \subseteq DOMAIN events /\ session \in [closed : BOOLEAN, heats : Seq(Nat), floor : Nat]
  BY Facts DEF IInv, TypeOK, OutboxInv
<1>1. Heat' \in Nat /\ Heat <= Heat' /\ \A e \in 1..Len(events) : events'[e] = events[e]
  <2>1. CASE AppendStreamEvent
    <3>1. [own |-> TRUE, heat |-> Heat] \in Event /\ Heat \in 1..Heat
      BY <1>0, <2>1 DEF AppendStreamEvent, Event
    <3>2. \A e \in 1..Len(events) : events'[e] = events[e]
      BY <2>1, <3>1, RowAdded DEF AppendStreamEvent
    <3> QED
      BY <1>0, <2>1, <3>2 DEF AppendStreamEvent, Heat
  <2>2. CASE AppendForeignEvent
    <3>1. [own |-> FALSE, heat |-> 0] \in Event
      BY DEF Event
    <3>2. \A e \in 1..Len(events) : events'[e] = events[e]
      BY <2>2, <3>1, RowAdded DEF AppendForeignEvent
    <3> QED
      BY <1>0, <2>2, <3>2 DEF AppendForeignEvent, Heat
  <2>3. CASE NewHeat
    <3>1. session' = [session EXCEPT !.heats = Append(session.heats, RebuiltHeatId), !.floor = session.floor]
      BY <1>0, <2>3 DEF NewHeat, RebuiltHeatId
    <3>2. UNCHANGED events /\ UNCHANGED gone
      BY <2>3 DEF NewHeat
    <3>3. Heat' = Heat + 1
      BY <1>0, <3>1, <3>2, HeatAdded
    <3> QED
      BY <1>0, <3>2, <3>3
  <2>4. CASE ResetDerivedState
    <3>1. gone' \subseteq DOMAIN events /\ UNCHANGED events
      BY <1>0, <2>4 DEF ResetDerivedState
    <3>2. /\ session' = [session EXCEPT !.heats = Append(session.heats, RebuiltHeatId), !.floor = Newest(Own \cup {session.floor})]
          /\ Newest(Own \cup {session.floor}) \in Nat
      BY <2>4, FloorType DEF ResetDerivedState
    <3>3. Heat' = Heat + 1
      BY <3>1, <3>2, HeatAdded
    <3> QED
      BY <1>0, <3>1, <3>3
  <2>5. CASE StopSession \/ ApplyRetention
    <3>1. session'.heats = session.heats /\ events' = events
      BY <1>0, <2>5 DEF StopSession, ApplyRetention
    <3> QED
      BY <1>0, <3>1 DEF Heat
  <2>6. CASE BrokerStep \/ ApiRestart \/ UNCHANGED vars
    <3>1. session' = session /\ events' = events
      BY <2>6 DEF BrokerStep, BrokerRead, BrokerFan, BrokerBatchDone, BrokerQuality, ApiRestart, vars, outbox
    <3> QED
      BY <1>0, <3>1 DEF Heat
  <2> QED
    BY <2>1, <2>2, <2>3, <2>4, <2>5, <2>6 DEF WriterStep
<1>2. CASE ~ApiRestart
  <2>1. conn' = conn /\ client' = client
    BY <1>2 DEF WriterStep, BrokerStep, AppendStreamEvent, AppendForeignEvent, NewHeat, StopSession,
         ApplyRetention, ResetDerivedState, BrokerRead, BrokerFan, BrokerBatchDone, BrokerQuality, vars
  <2>2. \A t \in Streams : HeatInv(t)'
    BY <1>1, <2>1, HeatKept
  <2> QED
    BY <1>0, <1>1, <2>2 DEF HInv
<1>3. CASE ApiRestart
  <2>1. events' = events /\ session' = session /\ client' = client /\ conn' = [s \in Streams |-> Idle]
    BY <1>3 DEF ApiRestart, outbox
  <2>2. Heat' = Heat
    BY <2>1 DEF Heat
  <2>3. ASSUME NEW t \in Streams PROVE HeatInv(t)'
    <3>1. conn'[t].pc = "off"
      BY <2>1, IdleIs
    <3>2. HeatInv(t)
      BY DEF HInv
    <3> QED
      BY <2>1, <2>2, <3>1, <3>2 DEF HeatInv, Serving, Setup
  <2> QED
    BY <2>2, <2>3 DEF HInv
<1> QED
  BY <1>2, <1>3

\* A handler step of stream s that leaves its client as it is, and goes to a point
\* at which no more is known.
LEMMA HeatQuiet ==
    ASSUME IInv, HInv, NEW s \in Streams, UNCHANGED outbox, UNCHANGED client,
           \A t \in Streams : t # s => conn'[t] = conn[t],
           conn'[s].pc \notin Setup \cup {"replay", "live"},
           conn'[s].pc \in Serving => conn[s].pc \in Serving /\ conn'[s].heat = conn[s].heat
    PROVE  HInv'
<1>1. events' = events /\ session' = session /\ HeatInv(s)
  BY DEF outbox, HInv
<1>2. Heat' = Heat
  BY <1>1 DEF Heat
<1>3. HeatInv(s)'
  BY <1>1, <1>2 DEF HeatInv, Setup
<1> QED
  BY <1>3, HeatOfOthers

\* The steps of a handler keep the views to one heat.
LEMMA HeatHandler ==
    ASSUME IInv, HInv, NEW s \in Streams,
           \/ Snapshot(s) \/ CursorWindow(s) \/ CursorPrior(s)
           \/ First(s) \/ ReplayRead(s) \/ ReplayEvent(s) \/ ReplayDone(s) \/ Resnapshot(s)
    PROVE  HInv'
<1>0. /\ conn[s].cursor \in Int /\ conn[s].delivered \in Nat /\ conn[s].heat \in Nat
      /\ HandlerOK(conn[s], client[s]) /\ HeatInv(s)
  BY LocalsType DEF HInv
<1>1. /\ Len(events) \in Nat /\ OwnEver \in SUBSET (1..Len(events)) /\ OwnEver \subseteq Nat /\ Own \subseteq OwnEver
      /\ Barrier \in {0} \cup OwnEver /\ Barrier \in Nat /\ Heat \in Nat /\ Heat \in 1..Heat
      /\ \A e \in OwnEver : events[e].heat \in 1..Heat
  BY Facts, BarrierIs DEF HInv, IInv, OutboxInv
<1>2. UNCHANGED outbox /\ events' = events /\ session' = session
  BY DEF Snapshot, CursorWindow, CursorPrior, First, ReplayRead, ReplayEvent, ReplayDone, Resnapshot, outbox
<1>3. Heat' = Heat
  BY <1>2 DEF Heat
<1>c. UNCHANGED client => \A t \in Streams : client'[t] = client[t]
  OBVIOUS
<1>4. CASE Snapshot(s)
  <2>1. PICK p \in {"window", "first"}, r \in BOOLEAN :
          /\ UNCHANGED client /\ (p = "first" => ~(conn[s].cursor > 0))
          /\ Becomes(s, p, conn[s].cursor, conn[s].top, Barrier, Len(events),
                     Heat, r, conn[s].batch, conn[s].full, conn[s].replayed)
    <3> DEFINE r == conn[s].cursor = 0
    <3>0. r \in BOOLEAN
      OBVIOUS
    <3>1. CASE conn[s].cursor > 0
      BY <1>4, <3>0, <3>1, SnapshotIs
    <3>2. CASE ~(conn[s].cursor > 0)
      BY <1>4, <3>0, <3>2, SnapshotIs
    <3> QED
      BY <3>1, <3>2
  <2>2. Barrier > 0 => events[Barrier].heat <= Heat
    BY <1>1
  <2>3. \A h \in client[s].heats : h <= Heat
    BY <1>0, <1>1 DEF HeatInv
  <2>4. HeatInv(s)'
    BY <1>0, <1>1, <1>2, <1>3, <1>c, <2>1, <2>2, <2>3 DEF HeatInv, Becomes, Setup
  <2> QED
    BY <1>2, <1>c, <2>1, <2>4, HeatOfOthers DEF Becomes
<1>5. CASE CursorWindow(s)
  <2>1. PICK p \in {"first", "prior"}, r \in BOOLEAN :
          /\ conn[s].pc = "window" /\ UNCHANGED client /\ (p = "first" => r)
          /\ Becomes(s, p, conn[s].cursor, conn[s].top, conn[s].delivered, conn[s].asof,
                     conn[s].heat, r, conn[s].batch, conn[s].full, conn[s].replayed)
    <3>1. CASE RequiresReset(conn[s].cursor)
      <4>1. RequiresReset(conn[s].cursor) = TRUE
        BY <3>1 DEF RequiresReset
      <4> QED
        BY <1>5, <3>1, <4>1, CursorWindowIs
    <3>2. CASE ~RequiresReset(conn[s].cursor)
      <4>1. RequiresReset(conn[s].cursor) = FALSE
        BY <3>2 DEF RequiresReset
      <4> QED
        BY <1>5, <3>2, <4>1, CursorWindowIs
    <3> QED
      BY <3>1, <3>2
  <2>2. HeatInv(s)'
    BY <1>0, <1>2, <1>3, <1>c, <2>1 DEF HeatInv, Becomes, Setup, Serving
  <2> QED
    BY <1>2, <1>c, <2>1, <2>2, HeatOfOthers DEF Becomes
<1>6. CASE CursorPrior(s)
  <2>1. PICK r \in BOOLEAN :
          /\ conn[s].pc = "prior" /\ UNCHANGED client /\ (PriorStale(s) => r)
          /\ Becomes(s, "first", conn[s].cursor, conn[s].top, conn[s].delivered, conn[s].asof,
                     conn[s].heat, r, conn[s].batch, conn[s].full, conn[s].replayed)
    <3>1. PriorStale(s) \in BOOLEAN
      BY DEF PriorStale
    <3> QED
      BY <1>6, <3>1, CursorPriorIs
  <2>2. ASSUME ~r PROVE events[conn[s].cursor].heat = conn[s].heat
    <3>1. conn[s].heat \in 1..Heat
      BY <1>0, <2>1 DEF HeatInv, Serving
    <3>2. conn[s].cursor \in OwnEver /\ (conn[s].heat # 0 => HeatId(events[conn[s].cursor].heat) = HeatId(conn[s].heat))
      BY <1>1, <2>1, <2>2 DEF PriorStale
    <3>3. conn[s].heat # 0
      BY <1>1, <3>1
    <3> QED
      BY <1>1, <3>1, <3>2, <3>3, SameHeat
  <2>3. HeatInv(s)'
    BY <1>0, <1>2, <1>3, <1>c, <2>1, <2>2 DEF HeatInv, Becomes, Setup, Serving
  <2> QED
    BY <1>2, <1>c, <2>1, <2>3, HeatOfOthers DEF Becomes
<1>7. CASE First(s)
  <2>0. conn[s].pc = "first" /\ conn[s].heat \in 1..Heat
    BY <1>0, <1>7, FirstIs DEF HeatInv, Serving
  <2>1. CASE /\ Becomes(s, "live", NoCursor, 0, conn[s].delivered, 0, conn[s].heat, FALSE, {}, TRUE, 0)
             /\ Shown(s, conn[s].asof, conn[s].heat, conn[s].delivered)
    <3>1. client'[s].heats = {conn[s].heat} /\ client'[s].cursor = conn[s].delivered
      BY <1>1, <2>0, <2>1 DEF Shown
    <3>2. conn[s].delivered > 0 => events[conn[s].delivered].heat <= conn[s].heat
      BY <1>0, <2>0 DEF HeatInv, Setup
    <3>3. HeatInv(s)'
      BY <1>2, <1>3, <2>0, <2>1, <3>1, <3>2 DEF HeatInv, Becomes, Setup
    <3> QED
      BY <1>2, <2>1, <3>3, HeatOfOthers DEF Becomes, Shown
  <2>2. CASE /\ ~conn[s].reset /\ conn[s].cursor > 0 /\ conn[s].cursor \in OwnEver /\ conn[s].cursor = client[s].cursor
             /\ Becomes(s, "replay", NoCursor, 0, conn[s].cursor, 0, conn[s].heat, FALSE, {}, TRUE, 0)
             /\ UNCHANGED client
    <3>1. \A h \in client[s].heats : h = conn[s].heat
      <4> TAKE h \in client[s].heats
      <4>1. h \in 1..Heat /\ events[client[s].cursor].heat <= h /\ h <= conn[s].heat
        BY <1>0, <2>0, <2>2 DEF HeatInv, Setup
      <4>2. events[client[s].cursor].heat = conn[s].heat
        BY <1>0, <2>0, <2>2 DEF HeatInv
      <4> QED
        BY <1>0, <1>1, <4>1, <4>2
    <3>2. HeatInv(s)'
      BY <1>0, <1>2, <1>3, <1>c, <2>0, <2>2, <3>1 DEF HeatInv, Becomes, Setup
    <3> QED
      BY <1>2, <1>c, <2>2, <3>2, HeatOfOthers DEF Becomes
  <2> QED
    BY <1>7, <2>1, <2>2, FirstIs
<1>8. CASE ReplayRead(s)
  <2>1. conn[s].pc = "replay" /\ UNCHANGED client /\ conn'[s].pc = conn[s].pc /\ conn'[s].heat = conn[s].heat
        /\ \A t \in Streams : t # s => conn'[t] = conn[t]
    BY <1>8, ReplayReadIs DEF Becomes
  <2>2. HeatInv(s)'
    BY <1>0, <1>2, <1>3, <1>c, <2>1 DEF HeatInv, Setup, Serving
  <2> QED
    BY <1>2, <1>c, <2>1, <2>2, HeatOfOthers
<1>9. CASE ReplayEvent(s)
  <2>0. conn[s].pc = "replay"
    BY <1>9, ReplayEventIs
  <2>1. PICK e \in conn[s].batch :
                /\ e \in OwnEver
                /\ \/ /\ Becomes(s, "restart", conn[s].cursor, conn[s].top, conn[s].delivered, conn[s].asof,
                                 conn[s].heat, conn[s].reset, {}, conn[s].full, conn[s].replayed + 1)
                      /\ UNCHANGED client
                   \/ /\ ~OtherHeat(s, e)
                      /\ Becomes(s, conn[s].pc, conn[s].cursor, conn[s].top, e, conn[s].asof,
                                 conn[s].heat, conn[s].reset, conn[s].batch \ {e}, conn[s].full, conn[s].replayed + 1)
                      /\ Merged(s, e)
    BY <1>9, ReplayEventIs
  <2>2. CASE /\ Becomes(s, "restart", conn[s].cursor, conn[s].top, conn[s].delivered, conn[s].asof,
                        conn[s].heat, conn[s].reset, {}, conn[s].full, conn[s].replayed + 1)
             /\ UNCHANGED client
    BY <1>2, <2>0, <2>2, HeatQuiet DEF Becomes, Setup, Serving
  <2>3. CASE /\ ~OtherHeat(s, e) /\ conn'[s].pc = conn[s].pc /\ conn'[s].heat = conn[s].heat
             /\ \A t \in Streams : t # s => conn'[t] = conn[t]
             /\ Merged(s, e)
    <3>1. conn[s].heat \in 1..Heat /\ \A h \in client[s].heats : h = conn[s].heat
      BY <1>0, <2>0 DEF HeatInv, Serving
    <3>2. events[e].heat = conn[s].heat
      BY <2>1, <2>3, <3>1, SameHeatDelta
    <3>3. \A h \in client'[s].heats : h = conn[s].heat
      BY <2>3, <3>1, <3>2 DEF Merged
    <3>4. HeatInv(s)'
      BY <1>1, <1>2, <1>3, <2>0, <2>3, <3>1, <3>2, <3>3 DEF HeatInv, Setup, Merged
    <3> QED
      BY <1>2, <2>3, <3>4, HeatOfOthers DEF Merged
  <2> QED
    BY <2>1, <2>2, <2>3 DEF Becomes
<1>10. CASE ReplayDone(s)
  <2>1. PICK p \in {"resnapshot", "live"} :
          /\ conn[s].pc = "replay" /\ UNCHANGED client
          /\ Becomes(s, p, NoCursor, 0, conn[s].delivered, 0, conn[s].heat, FALSE, {}, TRUE, 0)
    BY <1>10, ReplayDoneIs
  <2>2. HeatInv(s)'
    BY <1>0, <1>2, <1>3, <1>c, <2>1 DEF HeatInv, Setup, Serving, Becomes
  <2> QED
    BY <1>2, <1>c, <2>1, <2>2, HeatOfOthers DEF Becomes
<1>11. CASE Resnapshot(s)
  <2>1. PICK p \in {"resnapshot", "live"} :
          /\ Shown(s, Len(events), Heat, Barrier)
          /\ Becomes(s, p, NoCursor, 0, Barrier, 0, Heat, FALSE, {}, TRUE, 0)
    BY <1>11, ResnapshotIs
  <2>2. client'[s].heats = {Heat} /\ client'[s].cursor = Barrier
    BY <1>1, <2>1 DEF Shown
  <2>3. Barrier > 0 => events[Barrier].heat <= Heat
    BY <1>1
  <2>4. HeatInv(s)'
    BY <1>1, <1>2, <1>3, <2>1, <2>2, <2>3 DEF HeatInv, Setup, Becomes
  <2> QED
    BY <1>2, <2>1, <2>4, HeatOfOthers DEF Becomes, Shown
<1> QED
  BY <1>4, <1>5, <1>6, <1>7, <1>8, <1>9, <1>10, <1>11

\* Streams that open, register, take an item or end.
LEMMA HeatStream ==
    ASSUME IInv, HInv, NEW s \in Streams,
           \/ Open(s) \/ CursorRead(s) \/ CursorSet(s) \/ TakeItem(s) \/ Refused(s) \/ SetupFault(s) \/ Disconnect(s)
    PROVE  HInv'
<1>0. /\ conn[s].delivered \in Nat /\ conn[s].heat \in Nat /\ HandlerOK(conn[s], client[s]) /\ HeatInv(s)
      /\ client[s] \in Client
  BY LocalsType DEF HInv
<1>1. UNCHANGED outbox /\ events' = events /\ session' = session
  BY DEF Open, CursorRead, CursorSet, TakeItem, Refused, SetupFault, Disconnect, outbox
<1>2. Heat' = Heat /\ Heat \in Nat
  BY <1>1, Facts DEF Heat
<1>3. CASE Open(s)
  <2> DEFINE p == IF Subscribed THEN "snapshot" ELSE "cursor_read"
  <2>1. PICK c \in {client[s], NewClient} :
            /\ client' = [client EXCEPT ![s] = c]
            /\ conn' = [conn EXCEPT ![s] = [Idle EXCEPT !.pc = p, !.cursor = c.cursor]]
    BY <1>3 DEF Open
  <2>2. c \in Client /\ c.cursor \in Int
    BY <1>0, <2>1 DEF NewClient, Client, NoCursor
  <2>3. p \in HandlerPoint /\ p \notin Serving /\ p \notin Setup
    BY DEF HandlerPoint, Serving, Setup
  <2> HIDE DEF p
  <2>4. Becomes(s, p, c.cursor, 0, 0, 0, 0, FALSE, {}, TRUE, 0)
    BY <2>1, <2>2, <2>3, SetOpen
  <2>5. client' \in [Streams -> Client] /\ client'[s] = c /\ \A t \in Streams : t # s => client'[t] = client[t]
    BY <2>1, <2>2, ClientSet
  <2>6. HeatInv(s)'
    <3>1. conn'[s].pc = p
      BY <2>4 DEF Becomes
    <3>2. CASE c = client[s]
      BY <1>0, <1>1, <1>2, <2>3, <2>5, <3>1, <3>2 DEF HeatInv, Setup, Serving
    <3>3. CASE c = NewClient
      <4>1. client'[s].heats = {}
        BY <2>5, <3>3 DEF NewClient
      <4> QED
        BY <2>3, <3>1, <4>1 DEF HeatInv, Setup, Serving
    <3> QED
      BY <2>1, <3>2, <3>3
  <2> QED
    BY <1>1, <2>4, <2>5, <2>6, HeatOfOthers DEF Becomes
<1>4. CASE CursorRead(s)
  <2>1. UNCHANGED client /\ conn'[s].pc = "cursor_set" /\ \A t \in Streams : t # s => conn'[t] = conn[t]
    BY <1>4, CursorReadIs DEF Becomes
  <2> QED
    BY <1>1, <2>1, HeatQuiet DEF Setup, Serving
<1>5. CASE CursorSet(s)
  <2>1. "snapshot" \in HandlerPoint /\ 0 \in Nat
    BY DEF HandlerPoint
  <2>2. UNCHANGED client /\ conn' = [conn EXCEPT ![s].pc = "snapshot", ![s].top = 0]
    BY <1>5 DEF CursorSet
  <2>3. conn'[s].pc = "snapshot" /\ \A t \in Streams : t # s => conn'[t] = conn[t]
    BY <2>1, <2>2, SetTop DEF Becomes
  <2> QED
    BY <1>1, <2>2, <2>3, HeatQuiet DEF Setup, Serving
<1>6. CASE Refused(s) \/ SetupFault(s) \/ Disconnect(s)
  <2>1. UNCHANGED client /\ conn' = [conn EXCEPT ![s] = Idle]
    BY <1>6 DEF Refused, SetupFault, Disconnect
  <2>2. conn'[s].pc = "off" /\ \A t \in Streams : t # s => conn'[t] = conn[t]
    BY <2>1, SetIdle DEF Becomes
  <2> QED
    BY <1>1, <2>1, <2>2, HeatQuiet DEF Setup, Serving
<1>7. CASE TakeItem(s)
  <2> DEFINE item == Head(queues[s])
  <2>0. conn[s].pc = "live"
    BY <1>7, ItemIs
  <2>1. CASE /\ UNCHANGED client /\ conn'[s].pc = "resnapshot" /\ conn'[s].heat = conn[s].heat
             /\ \A t \in Streams : t # s => conn'[t] = conn[t]
    BY <1>1, <2>0, <2>1, HeatQuiet DEF Setup, Serving
  <2>2. CASE UNCHANGED conn /\ UNCHANGED client
    <3>1. \A t \in Streams : conn'[t] = conn[t] /\ client'[t] = client[t]
      BY <2>2
    <3>2. HeatInv(s)'
      BY <1>1, <1>2, <3>1, HeatKept
    <3> QED
      BY <1>1, <3>1, <3>2, HeatOfOthers
  <2>3. CASE /\ item \in OwnEver /\ ~OtherHeat(s, item) /\ Merged(s, item)
             /\ conn'[s].pc = conn[s].pc /\ conn'[s].heat = conn[s].heat
             /\ \A t \in Streams : t # s => conn'[t] = conn[t]
    <3> HIDE DEF item
    <3>1. conn[s].heat \in 1..Heat /\ \A h \in client[s].heats : h = conn[s].heat
      BY <1>0, <2>0 DEF HeatInv, Serving
    <3>2. events[item].heat = conn[s].heat
      BY <2>3, <3>1, SameHeatDelta
    <3>3. \A h \in client'[s].heats : h = conn[s].heat
      BY <2>3, <3>1, <3>2 DEF Merged
    <3>4. HeatInv(s)'
      BY <1>1, <1>2, <2>0, <2>3, <3>1, <3>2, <3>3 DEF HeatInv, Setup, Merged
    <3> QED
      BY <1>1, <2>3, <3>4, HeatOfOthers DEF Merged
  <2> QED
    BY <1>7, <2>1, <2>2, <2>3, TakeIs DEF Becomes
<1> QED
  BY <1>3, <1>4, <1>5, <1>6, <1>7

\* In a session that has its heat before streams open, no client ever merges
\* deltas of two source heats into one view, whatever new heats, rebuilds,
\* reconnects and overflowing queues do: every other heat is answered by a snapshot.
THEOREM OneHeatTheorem ==
    ASSUME FirstHeat = 1
    PROVE  Spec => []OneHeatPerView
<1>1. Init => HInv
  <2> SUFFICES ASSUME Init PROVE HInv
    OBVIOUS
  <2>1. Heat > 0
    <3>1. session.heats = [h \in 1..1 |-> h]
      BY DEF Init
    <3>2. session.heats \in Seq(Nat) /\ DOMAIN session.heats = 1..1
      BY <3>1, InitInv DEF IInv, TypeOK
    <3>3. Heat \in Nat /\ DOMAIN session.heats = 1..Heat
      BY <3>2, LenProperties DEF Heat
    <3>4. 1 \in DOMAIN session.heats
      BY <3>2
    <3> QED
      BY <3>3, <3>4
  <2>2. ASSUME NEW s \in Streams PROVE HeatInv(s)
    <3>1. conn[s].pc = "off" /\ client[s].heats = {}
      BY IdleIs DEF Init, NewClient
    <3> QED
      BY <3>1 DEF HeatInv, Serving, Setup
  <2> QED
    BY <2>1, <2>2 DEF HInv
<1>2. IInv /\ HInv /\ [Next]_vars => HInv'
  BY HeatWriters, HeatHandler, HeatStream DEF Next, HandlerStep
<1>3. HInv => OneHeatPerView
  BY DEF HInv, HeatInv, OneHeatPerView
<1> QED
  BY <1>1, <1>2, <1>3, Invariance, PTL DEF Spec

-----------------------------------------------------------------------------
(* Nothing is lost on the way to a client.                                 *)

\* No first subscriber is still reading the newest id while another queue is
\* registered: then setting the broker's cursor to it skips nobody's events.
RaceFree == \A s \in Streams : conn[s].pc \in {"cursor_read", "cursor_set"} => ~Subscribed

\* A row, or the marker that stands for all of them, is in the queue q.
Queued(q, e) == \E i \in DOMAIN q : q[i] \in {e, ResetRequired}

\* A queue has a marker only at its head, and ids in their order, which the broker
\* has passed and none of which it has yet to fan out.
Ordered(q, last, batch) ==
    /\ \A i \in DOMAIN q : q[i] = ResetRequired => i = 1
    /\ \A i, j \in DOMAIN q : i < j /\ q[i] > 0 /\ q[j] > 0 => q[i] < q[j]
    /\ \A i \in DOMAIN q : q[i] <= last /\ \A e \in batch : q[i] < e

\* What the broker has not passed is in its batch or comes after all of it.
PassInv == \A d \in Stored : d > broker.last => d \in broker.batch \/ \A b \in broker.batch : b < d

\* ... and the same of the id a first subscriber is about to give it.
WaitInv(s) ==
    conn[s].pc = "cursor_set" => \A d \in Stored : d <= conn[s].top \/ \A b \in broker.batch : b < d

\* What the broker has passed is queued, or part of the snapshot or of the replay.
MissInv(s) ==
    /\ conn[s].pc \in Setup => \A e \in Own : e <= conn[s].asof => e <= conn[s].delivered
    /\ conn[s].pc \in Setup => \A e \in Own : e <= broker.last => Queued(queues[s], e) \/ e <= conn[s].asof
    /\ conn[s].pc = "replay" => \A e \in Own : e <= broker.last =>
          conn[s].full \/ Queued(queues[s], e) \/ e <= conn[s].delivered \/ e \in conn[s].batch
    /\ conn[s].pc = "live" => \A e \in Own : e <= broker.last => Queued(queues[s], e) \/ e <= conn[s].delivered

\* What the client's cursor has passed is in its view, and the replay skips nothing.
SeenInv(s) ==
    /\ \A e \in Own : e <= client[s].cursor => e \in client[s].seen
    /\ conn[s].pc = "replay" => \A d \in Own :
          d > conn[s].delivered => d \in conn[s].batch \/ \A b \in conn[s].batch : b < d

LossInv(s) ==
    /\ Ordered(queues[s], broker.last, broker.batch)
    /\ WaitInv(s) /\ MissInv(s) /\ SeenInv(s)

OInv == PassInv /\ \A s \in Streams : LossInv(s)

\* A stream that a step leaves alone, while the broker stays and rows are only
\* deleted or added at the end.
LEMMA LossKept ==
    ASSUME IInv, OInv, NEW t \in Streams, conn'[t] = conn[t], client'[t] = client[t], queues'[t] = queues[t],
           broker' = broker,
           \A d \in Stored' : d \in Stored \/ d > Len(events), \A d \in Own' : d \in Own \/ d > Len(events),
           Own' \subseteq Int, Stored' \subseteq Int
    PROVE  LossInv(t)'
<1>1. /\ LossInv(t) /\ HandlerOK(conn[t], client[t]) /\ conn[t].delivered \in Nat /\ conn[t].asof \in Nat
      /\ client[t].cursor \in Int /\ conn[t].batch \in SUBSET Nat /\ conn[t].top \in Nat
  BY LocalsType DEF OInv
<1>2. /\ Len(events) \in Nat /\ OwnEver \in SUBSET (1..Len(events)) /\ broker.last \in Nat
      /\ broker.last <= Len(events) /\ broker.batch \subseteq 1..Len(events)
  BY Facts DEF IInv, BrokerInv
<1>3. client[t].cursor <= Len(events) /\ conn[t].asof <= Len(events) /\ conn[t].batch \subseteq 1..Len(events)
  BY <1>1, <1>2 DEF HandlerOK, NoCursor
<1>4. WaitInv(t)'
  <2> SUFFICES ASSUME conn[t].pc = "cursor_set", NEW d \in Stored', NEW b \in broker.batch, ~(d <= conn[t].top)
               PROVE  b < d
    BY DEF WaitInv
  <2>1. CASE d \in Stored
    BY <1>1, <2>1 DEF LossInv, WaitInv
  <2>2. CASE d > Len(events)
    <3>1. b \in Int /\ b <= Len(events) /\ d \in Int
      BY <1>2
    <3> QED
      BY <1>2, <2>2, <3>1
  <2> QED
    BY <2>1, <2>2
<1>5. MissInv(t)'
  <2>1. \A e \in Own' : e <= broker.last => e \in Own
    BY <1>2
  <2>2. \A e \in Own' : e <= conn[t].asof => e \in Own
    BY <1>1, <1>2, <1>3
  <2> QED
    BY <1>1, <2>1, <2>2 DEF LossInv, MissInv
<1>6. SeenInv(t)'
  <2>1. \A e \in Own' : e <= client[t].cursor => e \in Own
    BY <1>1, <1>2, <1>3
  <2>2. ASSUME conn[t].pc = "replay", NEW d \in Own', d > conn[t].delivered, d \notin conn[t].batch, NEW b \in conn[t].batch
        PROVE  b < d
    <3>1. CASE d \in Own
      BY <1>1, <2>2, <3>1 DEF LossInv, SeenInv
    <3>2. CASE d > Len(events)
      <4>1. b \in Int /\ b <= Len(events) /\ d \in Int
        BY <1>2, <1>3
      <4> QED
        BY <1>2, <3>2, <4>1
    <3> QED
      BY <3>1, <3>2
  <2> QED
    BY <1>1, <2>1, <2>2 DEF LossInv, SeenInv
<1>7. Ordered(queues[t], broker.last, broker.batch)'
  BY <1>1 DEF LossInv, Ordered
<1> QED
  BY <1>4, <1>5, <1>6, <1>7 DEF LossInv

\* A writer.
LEMMA LossWriters ==
    ASSUME IInv, OInv, WriterStep \/ UNCHANGED vars
    PROVE  OInv'
<1>0. conn' = conn /\ client' = client /\ queues' = queues /\ broker' = broker
  BY DEF WriterStep, AppendStreamEvent, AppendForeignEvent, NewHeat, StopSession, ApplyRetention, ResetDerivedState,
       vars, fanout
<1>1. /\ Len(events) \in Nat /\ DOMAIN events = 1..Len(events)
      /\ broker.last \in Nat /\ broker.last <= Len(events) /\ broker.batch \subseteq 1..Len(events)
  BY Facts DEF IInv, BrokerInv
<1>2. /\ \A d \in Stored' : d \in Stored \/ d > Len(events)
      /\ \A d \in Own' : d \in Own \/ d > Len(events)
      /\ Own' \subseteq Int /\ Stored' \subseteq Int
  <2>1. CASE AppendStreamEvent \/ AppendForeignEvent
    <3>1. PICK e \in Event : /\ events' = Append(events, e) /\ UNCHANGED <<gone, session>>
                             /\ e.own => e.heat \in 1..Heat
      <4>1. Heat \in Nat
        BY Facts
      <4>2. [own |-> FALSE, heat |-> 0] \in Event /\ [own |-> TRUE, heat |-> Heat] \in Event
        BY <4>1 DEF Event
      <4>3. CASE AppendStreamEvent
        <5>1. Heat \in 1..Heat
          BY <4>1, <4>3 DEF AppendStreamEvent
        <5> QED
          BY <4>2, <4>3, <5>1 DEF AppendStreamEvent
      <4>4. CASE AppendForeignEvent
        BY <4>2, <4>4 DEF AppendForeignEvent
      <4> QED
        BY <2>1, <4>3, <4>4
    <3>2. /\ DOMAIN events' = 1..(Len(events) + 1) /\ gone' = gone
          /\ OwnEver' = IF e.own THEN OwnEver \cup {Len(events) + 1} ELSE OwnEver
      BY <3>1, RowAdded
    <3>3. Stored' \subseteq Stored \cup {Len(events) + 1} /\ Own' \subseteq Own \cup {Len(events) + 1}
      <4>1. DOMAIN events' = DOMAIN events \cup {Len(events) + 1}
        BY <1>1, <3>2
      <4> QED
        BY <3>2, <4>1 DEF Stored, Own
    <3>4. Own \subseteq Int /\ Stored \subseteq Int
      BY Facts
    <3> QED
      BY <1>1, <3>3, <3>4
  <2>2. CASE NewHeat \/ StopSession \/ ApplyRetention \/ ResetDerivedState \/ UNCHANGED vars
    <3>1. events' = events /\ gone \subseteq gone'
      BY <2>2 DEF NewHeat, StopSession, ApplyRetention, ResetDerivedState, vars, outbox
    <3>2. Stored' \subseteq Stored /\ Own' \subseteq Own
      BY <3>1 DEF Stored, Own, OwnEver
    <3>3. Own \subseteq Int /\ Stored \subseteq Int
      BY Facts
    <3> QED
      BY <3>2, <3>3
  <2> QED
    BY <2>1, <2>2 DEF WriterStep
<1>3. PassInv'
  <2> SUFFICES ASSUME NEW d \in Stored', d > broker.last, d \notin broker.batch, NEW b \in broker.batch
               PROVE  b < d
    BY <1>0 DEF PassInv
  <2>1. CASE d \in Stored
    BY <2>1 DEF OInv, PassInv
  <2>2. CASE d > Len(events)
    <3>1. b \in Int /\ b <= Len(events) /\ d \in Int
      BY <1>1, <1>2
    <3> QED
      BY <1>1, <2>2, <3>1
  <2> QED
    BY <1>2, <2>1, <2>2
<1>4. ASSUME NEW t \in Streams PROVE LossInv(t)'
  <2>1. conn'[t] = conn[t] /\ client'[t] = client[t] /\ queues'[t] = queues[t] /\ broker' = broker
    BY <1>0
  <2> QED
    BY <1>2, <2>1, LossKept
<1> QED
  BY <1>3, <1>4 DEF OInv

\* An item that is offered leaves what was queued, and is queued or stands for it.
LEMMA OfferQueued ==
    ASSUME NEW q \in Seq(Int), NEW item \in Int
    PROVE  /\ Queued(Offer(q, item), item)
           /\ \A e : Queued(q, e) => Queued(Offer(q, item), e)
<1>1. /\ Len(q) \in Nat /\ DOMAIN q = 1..Len(q) /\ DOMAIN Append(q, item) = 1..(Len(q) + 1)
      /\ \A i \in 1..Len(q) : Append(q, item)[i] = q[i]
      /\ Append(q, item)[Len(q) + 1] = item
  BY AppendProperties, LenProperties
<1>2. CASE Len(q) < QueueSize
  <2>1. Offer(q, item) = Append(q, item)
    BY <1>2 DEF Offer
  <2>2. Len(q) + 1 \in DOMAIN Append(q, item) /\ DOMAIN q \subseteq DOMAIN Append(q, item)
    BY <1>1
  <2> QED
    BY <1>1, <2>1, <2>2 DEF Queued
<1>3. CASE ~(Len(q) < QueueSize)
  <2>1. Offer(q, item) = <<ResetRequired>> /\ 1 \in DOMAIN <<ResetRequired>> /\ <<ResetRequired>>[1] = ResetRequired
    BY <1>3 DEF Offer
  <2> QED
    BY <2>1 DEF Queued
<1> QED
  BY <1>2, <1>3

\* ... and keeps the queue ordered.
LEMMA OfferOrdered ==
    ASSUME NEW q \in Seq(Int), NEW item \in Nat, NEW last \in Nat, NEW batch \in SUBSET Nat, Ordered(q, last, batch),
           NEW last2 \in Nat, NEW batch2 \in SUBSET batch, last <= last2, item <= last2,
           \A b \in batch2 : item < b,
           item > 0 => \A i \in DOMAIN q : q[i] < item
    PROVE  Ordered(Offer(q, item), last2, batch2)
<1>1. /\ Len(q) \in Nat /\ DOMAIN q = 1..Len(q) /\ DOMAIN Append(q, item) = 1..(Len(q) + 1)
      /\ \A i \in 1..Len(q) : Append(q, item)[i] = q[i]
      /\ Append(q, item)[Len(q) + 1] = item
      /\ \A i \in 1..Len(q) : q[i] \in Int
  BY AppendProperties, LenProperties, ElementOfSeq
<1> DEFINE a == Append(q, item)
<1>2. CASE Len(q) < QueueSize
  <2>1. Offer(q, item) = a
    BY <1>2 DEF Offer
  <2>2. DOMAIN a = 1..(Len(q) + 1) /\ (\A i \in 1..Len(q) : a[i] = q[i]) /\ a[Len(q) + 1] = item
    BY <1>1
  <2> HIDE DEF a
  <2>3. \A i \in DOMAIN a : a[i] = ResetRequired => i = 1
    BY <1>1, <2>2 DEF Ordered, ResetRequired
  <2>4. ASSUME NEW i \in DOMAIN a, NEW j \in DOMAIN a, i < j, a[i] > 0, a[j] > 0
        PROVE  a[i] < a[j]
    <3>1. i \in 1..Len(q)
      BY <1>1, <2>2, <2>4
    <3>2. CASE j \in 1..Len(q)
      BY <1>1, <2>2, <2>4, <3>1, <3>2 DEF Ordered
    <3>3. CASE j = Len(q) + 1
      BY <1>1, <2>2, <2>4, <3>1, <3>3
    <3> QED
      BY <1>1, <2>2, <3>2, <3>3
  <2>5. ASSUME NEW i \in DOMAIN a PROVE a[i] <= last2 /\ \A e \in batch2 : a[i] < e
    <3>1. CASE i \in 1..Len(q)
      <4>1. a[i] = q[i] /\ q[i] \in Int /\ q[i] <= last /\ \A e \in batch : q[i] < e
        BY <1>1, <2>2, <3>1 DEF Ordered
      <4> QED
        BY <4>1
    <3>2. CASE i = Len(q) + 1
      BY <2>2, <3>2
    <3> QED
      BY <1>1, <2>2, <3>1, <3>2
  <2> QED
    BY <2>1, <2>3, <2>4, <2>5 DEF Ordered
<1>3. CASE ~(Len(q) < QueueSize)
  <2> DEFINE m == <<ResetRequired>>
  <2>1. Offer(q, item) = m /\ DOMAIN m = {1} /\ m[1] = ResetRequired
    BY <1>3 DEF Offer
  <2>2. ResetRequired <= last2 /\ ~(ResetRequired > 0) /\ \A e \in batch2 : ResetRequired < e
    BY DEF ResetRequired
  <2> HIDE DEF m
  <2> QED
    BY <2>1, <2>2 DEF Ordered
<1> QED
  BY <1>2, <1>3

\* Items are numbers.
LEMMA QueueItems ==
    ASSUME IInv, NEW s \in Streams
    PROVE  queues[s] \in Seq(Int) /\ \A i \in DOMAIN queues[s] : queues[s][i] \in Int
  BY LocalsType, ElementOfSeq, LenProperties

\* The broker.
LEMMA LossBroker ==
    ASSUME IInv, OInv, RaceFree, BrokerStep
    PROVE  OInv'
<1>0. /\ Len(events) \in Nat /\ DOMAIN events = 1..Len(events) /\ Stored \in SUBSET (1..Len(events))
      /\ broker.last \in Nat /\ broker.batch \in SUBSET Nat /\ broker.batch \subseteq 1..Len(events)
      /\ broker.pc # "fan" => broker.batch = {}
      /\ broker \in [pc : {"idle", "fan", "quality"}, last : Nat, batch : SUBSET Nat, full : BOOLEAN]
      /\ queues \in [Streams -> Seq(Int)] /\ Own \subseteq Stored /\ BatchSize \in Nat
  BY Facts, StreamAssumption DEF IInv, BrokerInv, TypeOK
<1>1. /\ events' = events /\ gone' = gone /\ conn' = conn /\ client' = client /\ subs' = subs
      /\ Stored' = Stored /\ Own' = Own
  BY DEF BrokerStep, BrokerRead, BrokerFan, BrokerBatchDone, BrokerQuality, outbox, Stored, Own, OwnEver
<1>2. ASSUME NEW t \in Streams PROVE SeenInv(t)'
  BY <1>1 DEF OInv, LossInv, SeenInv
<1>3. CASE BrokerRead
  <2> DEFINE batch == Page(Stored, broker.last, BatchSize)
  <2>1. broker'.last = broker.last /\ broker'.batch = batch /\ queues' = queues /\ Subscribed
    BY <1>0, <1>3 DEF BrokerRead
  <2>2. \A e \in batch : e \in Stored /\ e > broker.last /\ e \in Int
    BY <1>0 DEF Page
  <2>3. PassInv'
    <3> SUFFICES ASSUME NEW d \in Stored, d > broker.last, d \notin batch, NEW b \in batch PROVE b < d
      BY <1>1, <2>1 DEF PassInv
    <3>1. ~(d < b)
      <4> SUFFICES ASSUME d < b PROVE d \in batch
        OBVIOUS
      <4>1. broker.last \in Int /\ b \in Page(Stored, broker.last, BatchSize) /\ broker.last < d
        BY <1>0
      <4> QED
        BY <1>0, <4>1, PageIsPrefix
    <3>2. b \in Int /\ d \in Int /\ b # d
      BY <1>0, <2>2
    <3> QED
      BY <3>1, <3>2
  <2> HIDE DEF batch
  <2>4. ASSUME NEW t \in Streams PROVE LossInv(t)'
    <3>1. LossInv(t) /\ conn[t].pc # "cursor_set"
      BY <2>1 DEF OInv, RaceFree
    <3>2. MissInv(t)'
      BY <1>1, <2>1, <3>1 DEF LossInv, MissInv
    <3>3. WaitInv(t)'
      BY <1>1, <3>1 DEF WaitInv
    <3>4. Ordered(queues[t], broker.last, batch)
      <4>1. ASSUME NEW i \in DOMAIN queues[t], NEW e \in batch PROVE queues[t][i] < e
        <5>1. queues[t][i] \in Int /\ queues[t][i] <= broker.last /\ e > broker.last /\ e \in Int
          BY <2>2, <3>1, QueueItems DEF LossInv, Ordered
        <5> QED
          BY <1>0, <5>1
      <4> QED
        BY <3>1, <4>1 DEF LossInv, Ordered
    <3>5. Ordered(queues[t], broker.last, broker.batch)'
      BY <2>1, <3>4 DEF Ordered
    <3> QED
      BY <1>2, <3>2, <3>3, <3>5 DEF LossInv
  <2> QED
    BY <2>3, <2>4 DEF OInv
<1>4. CASE BrokerFan
  <2>1. PICK e \in broker.batch :
            /\ \A d \in broker.batch : e <= d
            /\ broker' = [broker EXCEPT !.batch = broker.batch \ {e}, !.last = IF e > broker.last THEN e ELSE broker.last]
            /\ IF events[e].own THEN Fanout(e) ELSE UNCHANGED queues
    BY <1>4 DEF BrokerFan
  <2> DEFINE b2 == broker.batch \ {e}
             l2 == IF e > broker.last THEN e ELSE broker.last
  <2>2. broker'.last = l2 /\ broker'.batch = b2
    BY <1>0, <2>1
  <2>3. e \in 1..Len(events) /\ e \in Nat /\ (events[e].own <=> e \in OwnEver)
    BY <1>0, <2>1 DEF OwnEver
  <2>4. b2 \in SUBSET broker.batch /\ l2 \in Nat /\ broker.last <= l2 /\ e <= l2 /\ \A b \in b2 : e < b
    BY <1>0, <2>1, <2>3
  <2>5. ASSUME NEW d \in Stored, d <= l2, ~(d <= broker.last) PROVE d = e
    <3>1. d \in Nat /\ d > broker.last
      BY <1>0, <2>5
    <3>2. d \in broker.batch \/ \A b \in broker.batch : b < d
      BY <3>1 DEF OInv, PassInv
    <3>3. d <= e
      BY <1>0, <2>3, <2>5, <3>1
    <3> QED
      BY <2>1, <2>3, <3>1, <3>2, <3>3
  <2>6. PassInv'
    <3> SUFFICES ASSUME NEW d \in Stored, d > l2, d \notin b2, NEW b \in b2 PROVE b < d
      BY <1>1, <2>2 DEF PassInv
    <3>1. d \in Nat /\ d > broker.last /\ d # e
      BY <1>0, <2>3
    <3> QED
      BY <3>1 DEF OInv, PassInv
  <2>7. ASSUME NEW t \in Streams PROVE LossInv(t)'
    <3>0. LossInv(t) /\ queues[t] \in Seq(Int) /\ StreamInv(t) /\ conn[t].delivered \in Nat
      BY LocalsType DEF OInv
    <3>1. WaitInv(t)'
      BY <1>1, <2>2, <3>0 DEF LossInv, WaitInv
    <3>2. \/ queues'[t] = queues[t] /\ (t \notin subs \/ e \notin OwnEver)
          \/ t \in subs /\ queues'[t] = Offer(queues[t], e)
      BY <2>1, <2>3 DEF Fanout
    <3>3. Ordered(queues'[t], l2, b2)
      <4>1. CASE queues'[t] = queues[t]
        <5>1. ASSUME NEW i \in DOMAIN queues[t] PROVE queues[t][i] <= l2
          <6>1. queues[t][i] \in Int /\ queues[t][i] <= broker.last
            BY <3>0, QueueItems DEF LossInv, Ordered
          <6> QED
            BY <1>0, <2>4, <6>1
        <5> QED
          BY <3>0, <4>1, <5>1 DEF LossInv, Ordered
      <4>2. CASE queues'[t] = Offer(queues[t], e)
        <5>1. \A i \in DOMAIN queues[t] : queues[t][i] < e
          BY <2>1, <3>0 DEF LossInv, Ordered
        <5>2. Ordered(queues[t], broker.last, broker.batch)
          BY <3>0 DEF LossInv
        <5> HIDE DEF b2, l2
        <5>3. Ordered(Offer(queues[t], e), l2, b2)
          BY <1>0, <2>3, <2>4, <3>0, <5>1, <5>2, OfferOrdered
        <5> QED
          BY <4>2, <5>3
      <4> QED
        BY <3>2, <4>1, <4>2
    <3>4. Ordered(queues[t], broker.last, broker.batch)'
      BY <2>2, <3>3 DEF Ordered
    <3>5. t \in subs => \A d \in Own : (Queued(queues[t], d) => Queued(queues'[t], d)) /\ (d = e => Queued(queues'[t], d))
      <4>1. Own \subseteq OwnEver /\ Own \subseteq Int
        BY Facts
      <4> QED
        BY <2>3, <3>0, <3>2, <4>1, OfferQueued
    <3>6. MissInv(t)'
      <4>1. CASE t \notin subs
        <5>1. conn[t].pc \in Outside
          BY <3>0, <4>1 DEF StreamInv
        <5> QED
          BY <1>1, <5>1 DEF MissInv, Outside, Setup
      <4>2. CASE t \in subs
        <5>1. \A d \in Own : d <= l2 => d <= broker.last \/ d = e
          BY <1>0, <2>5
        <5> HIDE DEF l2
        <5> QED
          BY <1>1, <2>2, <3>0, <3>5, <4>2, <5>1 DEF LossInv, MissInv
      <4> QED
        BY <4>1, <4>2
    <3> QED
      BY <1>2, <3>1, <3>4, <3>6 DEF LossInv
  <2> QED
    BY <2>6, <2>7 DEF OInv
<1>5. CASE BrokerBatchDone \/ BrokerQuality
  <2>1. /\ broker'.last = broker.last /\ broker'.batch = broker.batch /\ broker.batch = {}
        /\ queues' = queues \/ Fanout(Quality)
    BY <1>0, <1>5 DEF BrokerBatchDone, BrokerQuality
  <2>2. PassInv'
    BY <1>1, <2>1 DEF OInv, PassInv
  <2>3. ASSUME NEW t \in Streams PROVE LossInv(t)'
    <3>0. LossInv(t) /\ queues[t] \in Seq(Int)
      BY LocalsType DEF OInv
    <3>1. WaitInv(t)'
      BY <1>1, <2>1, <3>0 DEF LossInv, WaitInv
    <3>2. queues'[t] = queues[t] \/ queues'[t] = Offer(queues[t], Quality)
      BY <2>1 DEF Fanout
    <3>3. Quality \in Nat /\ Quality \in Int /\ ~(Quality > 0) /\ Quality <= broker.last
      BY <1>0 DEF Quality
    <3>4. Ordered(queues'[t], broker.last, broker.batch)
      <4>1. Ordered(queues[t], broker.last, broker.batch)
        BY <3>0 DEF LossInv
      <4>2. Ordered(Offer(queues[t], Quality), broker.last, broker.batch)
        BY <1>0, <2>1, <3>0, <3>3, <4>1, OfferOrdered
      <4> QED
        BY <3>2, <4>1, <4>2
    <3>5. Ordered(queues[t], broker.last, broker.batch)'
      BY <2>1, <3>4 DEF Ordered
    <3>6. \A d : Queued(queues[t], d) => Queued(queues'[t], d)
      BY <3>0, <3>2, <3>3, OfferQueued
    <3>7. MissInv(t)'
      BY <1>1, <2>1, <3>0, <3>6 DEF LossInv, MissInv
    <3> QED
      BY <1>2, <3>1, <3>5, <3>7 DEF LossInv
  <2> QED
    BY <2>2, <2>3 DEF OInv
<1> QED
  BY <1>3, <1>4, <1>5 DEF BrokerStep

\* A step of stream s leaves what the others hold.
LEMMA LossOfOthers ==
    ASSUME IInv, OInv, NEW s \in Streams, UNCHANGED outbox, broker' = broker,
           \A t \in Streams : t # s => conn'[t] = conn[t] /\ client'[t] = client[t] /\ queues'[t] = queues[t],
           LossInv(s)'
    PROVE  OInv'
<1>1. Stored' = Stored /\ Own' = Own
  BY DEF outbox, Stored, Own, OwnEver
<1>2. Own \subseteq Int /\ Stored \subseteq Int
  BY Facts
<1>3. PassInv'
  BY <1>1 DEF OInv, PassInv
<1>4. ASSUME NEW t \in Streams, t # s PROVE LossInv(t)'
  <2>1. conn'[t] = conn[t] /\ client'[t] = client[t] /\ queues'[t] = queues[t] /\ broker' = broker
    BY <1>4
  <2> QED
    BY <1>1, <1>2, <2>1, LossKept
<1> QED
  BY <1>3, <1>4 DEF OInv

\* Its own invariant, when the queues stay: what it says of its control point.
LEMMA LossHere ==
    ASSUME IInv, OInv, NEW s \in Streams, UNCHANGED outbox, UNCHANGED fanout,
           \A t \in Streams : t # s => conn'[t] = conn[t] /\ client'[t] = client[t],
           WaitInv(s)', MissInv(s)', SeenInv(s)'
    PROVE  OInv'
<1>1. broker' = broker /\ queues' = queues
  BY DEF fanout
<1>2. Ordered(queues[s], broker.last, broker.batch)'
  BY <1>1 DEF OInv, LossInv, Ordered
<1> QED
  BY <1>1, <1>2, LossOfOthers DEF LossInv

\* The steps of a handler.
LEMMA LossHandler ==
    ASSUME IInv, OInv, NEW s \in Streams,
           \/ CursorRead(s) \/ Snapshot(s) \/ CursorWindow(s) \/ CursorPrior(s)
           \/ First(s) \/ ReplayRead(s) \/ ReplayEvent(s) \/ ReplayDone(s) \/ Resnapshot(s)
    PROVE  OInv'
<1>0. /\ conn[s].cursor \in Int /\ conn[s].delivered \in Nat /\ conn[s].asof \in Nat /\ conn[s].batch \in SUBSET Nat
      /\ client[s].cursor \in Int
      /\ HandlerOK(conn[s], client[s]) /\ LossInv(s) /\ WaitInv(s) /\ MissInv(s) /\ SeenInv(s)
  BY LocalsType DEF OInv, LossInv
<1>1. /\ Len(events) \in Nat /\ OwnEver \in SUBSET (1..Len(events)) /\ Own \subseteq OwnEver /\ Own \subseteq Nat
      /\ Own \in SUBSET (1..Len(events)) /\ BatchSize \in Nat
      /\ \A e \in Own : e <= Len(events) /\ e <= Barrier
      /\ Barrier \in Nat /\ Barrier <= Len(events)
  BY Facts, BarrierIs, StreamAssumption
<1>2. UNCHANGED outbox /\ UNCHANGED fanout
  BY DEF CursorRead, Snapshot, CursorWindow, CursorPrior, First, ReplayRead, ReplayEvent, ReplayDone, Resnapshot
<1>3. Own' = Own /\ Stored' = Stored /\ broker' = broker /\ queues' = queues
  BY <1>2 DEF outbox, fanout, Own, Stored, OwnEver
<1>c. UNCHANGED client => \A t \in Streams : client'[t] = client[t]
  OBVIOUS
<1>4. CASE CursorRead(s)
  <2>1. /\ UNCHANGED client /\ (\A d \in Stored : d <= Newest(Stored))
        /\ conn'[s].pc = "cursor_set" /\ conn'[s].top = Newest(Stored) /\ \A t \in Streams : t # s => conn'[t] = conn[t]
    BY <1>4, CursorReadIs DEF Becomes
  <2>2. WaitInv(s)' /\ MissInv(s)' /\ SeenInv(s)'
    BY <1>0, <1>3, <1>c, <2>1 DEF WaitInv, MissInv, SeenInv, Setup
  <2> QED
    BY <1>2, <1>c, <2>1, <2>2, LossHere
<1>5. CASE Snapshot(s)
  <2>1. /\ UNCHANGED client /\ conn'[s].pc \in {"window", "first"} /\ conn'[s].delivered = Barrier
        /\ conn'[s].asof = Len(events) /\ \A t \in Streams : t # s => conn'[t] = conn[t]
    BY <1>5, SnapshotIs DEF Becomes
  <2>2. WaitInv(s)' /\ SeenInv(s)'
    BY <1>0, <1>3, <1>c, <2>1 DEF WaitInv, SeenInv
  <2>3. MissInv(s)'
    BY <1>1, <1>3, <2>1 DEF MissInv
  <2> QED
    BY <1>2, <1>c, <2>1, <2>2, <2>3, LossHere
<1>6. CASE CursorWindow(s) \/ CursorPrior(s)
  <2>1. /\ UNCHANGED client /\ conn[s].pc \in Setup /\ conn'[s].pc \in {"prior", "first"} /\ conn'[s].delivered = conn[s].delivered
        /\ conn'[s].asof = conn[s].asof /\ \A t \in Streams : t # s => conn'[t] = conn[t]
    BY <1>6, CursorWindowIs, CursorPriorIs DEF Becomes, Setup
  <2>2. WaitInv(s)' /\ SeenInv(s)'
    BY <1>0, <1>3, <1>c, <2>1 DEF WaitInv, SeenInv
  <2>3. MissInv(s)'
    BY <1>0, <1>3, <2>1 DEF MissInv
  <2> QED
    BY <1>2, <1>c, <2>1, <2>2, <2>3, LossHere
<1>7. CASE First(s)
  <2>0. conn[s].pc = "first" /\ conn[s].delivered <= conn[s].asof
    BY <1>0, <1>7, FirstIs DEF HandlerOK, Setup
  <2>1. CASE /\ Becomes(s, "live", NoCursor, 0, conn[s].delivered, 0, conn[s].heat, FALSE, {}, TRUE, 0)
             /\ Shown(s, conn[s].asof, conn[s].heat, conn[s].delivered)
    <3>1. MissInv(s)'
      BY <1>0, <1>3, <2>0, <2>1 DEF MissInv, Becomes, Setup
    <3>2. \A e \in Own : e <= conn[s].delivered => e <= conn[s].asof
      BY <1>0, <1>1, <2>0
    <3>3. WaitInv(s)' /\ SeenInv(s)'
      BY <1>1, <1>3, <2>1, <3>2 DEF WaitInv, SeenInv, Becomes, Shown
    <3> QED
      BY <1>2, <2>1, <3>1, <3>3, LossHere DEF Becomes, Shown
  <2>2. CASE /\ Becomes(s, "replay", NoCursor, 0, conn[s].cursor, 0, conn[s].heat, FALSE, {}, TRUE, 0)
             /\ UNCHANGED client
    <3>1. WaitInv(s)' /\ MissInv(s)' /\ SeenInv(s)'
      BY <1>0, <1>3, <1>c, <2>2 DEF WaitInv, MissInv, SeenInv, Becomes, Setup
    <3> QED
      BY <1>2, <1>c, <2>2, <3>1, LossHere DEF Becomes
  <2> QED
    BY <1>7, <2>1, <2>2, FirstIs
<1>8. CASE ReplayRead(s)
  <2> DEFINE page == Page(Own, conn[s].delivered, BatchSize)
  <2>1. /\ conn[s].pc = "replay" /\ UNCHANGED client /\ page \subseteq Own
        /\ conn'[s].pc = "replay" /\ conn'[s].delivered = conn[s].delivered /\ conn'[s].batch = page
        /\ conn'[s].full = (Cardinality(page) = BatchSize) /\ \A t \in Streams : t # s => conn'[t] = conn[t]
    BY <1>8, ReplayReadIs DEF Becomes
  <2>2. ASSUME NEW d \in Own, d > conn[s].delivered, d \notin page, NEW b \in page PROVE b < d
    <3>1. b \in Int /\ d \in Int /\ b # d
      <4> HIDE DEF page
      <4> QED
        BY <1>1, <2>1, <2>2
    <3>2. CASE d < b
      <4>1. conn[s].delivered \in Int /\ b \in Page(Own, conn[s].delivered, BatchSize) /\ conn[s].delivered < d
        BY <1>0, <2>2
      <4> QED
        BY <1>1, <2>2, <3>2, <4>1, PageIsPrefix
    <3> QED
      BY <3>1, <3>2
  <2>3. ASSUME NEW d \in Own, Cardinality(page) # BatchSize PROVE d <= conn[s].delivered \/ d \in page
    <3> SUFFICES ASSUME ~(d <= conn[s].delivered) PROVE d \in page
      OBVIOUS
    <3>1. d > conn[s].delivered /\ conn[s].delivered \in Int
      BY <1>0, <1>1
    <3> QED
      BY <1>1, <2>3, <3>1, ShortPage
  <2> HIDE DEF page
  <2>4. MissInv(s)'
    BY <1>3, <2>1, <2>3 DEF MissInv, Setup
  <2>5. WaitInv(s)' /\ SeenInv(s)'
    BY <1>0, <1>3, <1>c, <2>1, <2>2 DEF WaitInv, SeenInv
  <2> QED
    BY <1>2, <1>c, <2>1, <2>4, <2>5, LossHere
<1>9. CASE ReplayEvent(s)
  <2>0. conn[s].pc = "replay" /\ conn[s].delivered = client[s].cursor
    BY <1>0, <1>9, ReplayEventIs DEF HandlerOK
  <2>1. PICK e \in conn[s].batch :
                /\ e \in OwnEver /\ e \in Nat /\ e > conn[s].delivered
                /\ \A d \in conn[s].batch \ {e} : e < d
                /\ \/ /\ Becomes(s, "restart", conn[s].cursor, conn[s].top, conn[s].delivered, conn[s].asof,
                                 conn[s].heat, conn[s].reset, {}, conn[s].full, conn[s].replayed + 1)
                      /\ UNCHANGED client
                   \/ /\ Becomes(s, conn[s].pc, conn[s].cursor, conn[s].top, e, conn[s].asof,
                                 conn[s].heat, conn[s].reset, conn[s].batch \ {e}, conn[s].full, conn[s].replayed + 1)
                      /\ Merged(s, e)
    BY <1>9, ReplayEventIs
  <2>2. CASE /\ Becomes(s, "restart", conn[s].cursor, conn[s].top, conn[s].delivered, conn[s].asof,
                        conn[s].heat, conn[s].reset, {}, conn[s].full, conn[s].replayed + 1)
             /\ UNCHANGED client
    <3>1. WaitInv(s)' /\ MissInv(s)' /\ SeenInv(s)'
      BY <1>0, <1>3, <1>c, <2>2 DEF WaitInv, MissInv, SeenInv, Becomes, Setup
    <3> QED
      BY <1>2, <1>c, <2>2, <3>1, LossHere DEF Becomes
  <2>3. CASE /\ Becomes(s, conn[s].pc, conn[s].cursor, conn[s].top, e, conn[s].asof,
                        conn[s].heat, conn[s].reset, conn[s].batch \ {e}, conn[s].full, conn[s].replayed + 1)
             /\ Merged(s, e)
    <3>1. /\ conn'[s].pc = "replay" /\ conn'[s].delivered = e /\ conn'[s].batch = conn[s].batch \ {e}
          /\ conn'[s].full = conn[s].full
      BY <2>0, <2>3 DEF Becomes
    <3>2. \A d \in Own : d > conn[s].delivered => d \in conn[s].batch \/ \A b \in conn[s].batch : b < d
      BY <1>0, <2>0 DEF SeenInv
    <3>3. ASSUME NEW d \in Own, d <= e PROVE d \in client[s].seen \cup {e}
      <4>1. CASE d <= conn[s].delivered
        BY <1>0, <2>0, <4>1 DEF SeenInv
      <4>2. CASE d > conn[s].delivered /\ d # e
        <5>1. d \in Nat /\ d < e /\ ~(e < d)
          BY <1>1, <2>1, <3>3, <4>2
        <5> QED
          BY <2>1, <3>2, <4>2, <5>1
      <4> QED
        BY <1>0, <1>1, <4>1, <4>2
    <3>4. ASSUME NEW d \in Own, d > e, d \notin conn[s].batch \ {e}, NEW b \in conn[s].batch \ {e} PROVE b < d
      <4>1. d \in Nat /\ d # e /\ d > conn[s].delivered
        BY <1>0, <1>1, <2>1, <3>4
      <4> QED
        BY <3>2, <3>4, <4>1
    <3>5. SeenInv(s)'
      BY <1>3, <2>3, <3>1, <3>3, <3>4 DEF SeenInv, Merged
    <3>6. MissInv(s)'
      <4>1. \A d \in Own : d <= conn[s].delivered => d <= e
        BY <1>0, <1>1, <2>1
      <4>2. \A d \in Own : d \in conn[s].batch => d \in conn[s].batch \ {e} \/ d <= e
        BY <2>1
      <4> QED
        BY <1>0, <1>3, <2>0, <3>1, <4>1, <4>2 DEF MissInv, Setup
    <3>7. WaitInv(s)'
      BY <3>1 DEF WaitInv
    <3> QED
      BY <1>2, <2>3, <3>5, <3>6, <3>7, LossHere DEF Becomes, Merged
  <2> QED
    BY <2>1, <2>2, <2>3
<1>10. CASE ReplayDone(s)
  <2>1. PICK p \in {"resnapshot", "live"} :
          /\ conn[s].pc = "replay" /\ conn[s].batch = {} /\ UNCHANGED client /\ (p = "live" => ~conn[s].full)
          /\ Becomes(s, p, NoCursor, 0, conn[s].delivered, 0, conn[s].heat, FALSE, {}, TRUE, 0)
    BY <1>10, ReplayDoneIs
  <2>2. WaitInv(s)' /\ MissInv(s)' /\ SeenInv(s)'
    BY <1>0, <1>3, <1>c, <2>1 DEF WaitInv, MissInv, SeenInv, Becomes, Setup
  <2> QED
    BY <1>2, <1>c, <2>1, <2>2, LossHere DEF Becomes
<1>11. CASE Resnapshot(s)
  <2>1. PICK p \in {"resnapshot", "live"} :
          /\ Shown(s, Len(events), Heat, Barrier)
          /\ Becomes(s, p, NoCursor, 0, Barrier, 0, Heat, FALSE, {}, TRUE, 0)
    BY <1>11, ResnapshotIs
  <2>2. WaitInv(s)' /\ MissInv(s)' /\ SeenInv(s)'
    BY <1>1, <1>3, <2>1 DEF WaitInv, MissInv, SeenInv, Becomes, Setup, Shown
  <2> QED
    BY <1>2, <2>1, <2>2, LossHere DEF Becomes, Shown
<1> QED
  BY <1>4, <1>5, <1>6, <1>7, <1>8, <1>9, <1>10, <1>11

\* An item is taken: what is still queued is what it was, but for the item.
LEMMA LossTake == ASSUME IInv, OInv, NEW s \in Streams, TakeItem(s) PROVE OInv'
<1> DEFINE item == Head(queues[s])
           q == queues[s]
<1>0. /\ conn[s].delivered \in Nat /\ client[s].cursor \in Int
      /\ HandlerOK(conn[s], client[s]) /\ LossInv(s) /\ MissInv(s) /\ SeenInv(s) /\ Ordered(q, broker.last, broker.batch)
      /\ q \in Seq(Int) /\ \A i \in DOMAIN q : q[i] \in Int
  BY LocalsType, QueueItems DEF OInv, LossInv
<1>1. /\ conn[s].pc = "live" /\ item \in Int /\ queues'[s] = Tail(q)
      /\ Len(q) \in Nat /\ Len(q) > 0 /\ item = q[1]
      /\ DOMAIN q = 1..Len(q) /\ DOMAIN Tail(q) = 1..(Len(q) - 1)
      /\ \A i \in 1..(Len(q) - 1) : Tail(q)[i] = q[i + 1]
      /\ \A t \in Streams : t # s => queues'[t] = queues[t]
  BY ItemIs
<1>2. UNCHANGED outbox /\ events' = events /\ broker' = broker
  BY DEF TakeItem, outbox
<1>3. /\ Own' = Own /\ Own \subseteq Nat /\ Own \subseteq OwnEver /\ broker.last \in Nat
      /\ conn[s].delivered = client[s].cursor
  BY <1>0, <1>1, <1>2, Facts DEF outbox, Own, OwnEver, HandlerOK
<1> HIDE DEF item, q
<1>4. Ordered(Tail(q), broker.last, broker.batch)
  <2>1. \A i \in DOMAIN Tail(q) : i + 1 \in DOMAIN q /\ Tail(q)[i] = q[i + 1] /\ i + 1 # 1 /\ i \in Nat
    BY <1>1
  <2> QED
    BY <1>0, <2>1 DEF Ordered
<1>5. Ordered(queues[s], broker.last, broker.batch)'
  BY <1>1, <1>2, <1>4 DEF Ordered
<1>6. ASSUME NEW e \in Own, Queued(q, e) PROVE e = item \/ item = ResetRequired \/ Queued(Tail(q), e)
  <2>1. PICK i \in DOMAIN q : q[i] \in {e, ResetRequired}
    BY <1>6 DEF Queued
  <2>2. CASE i = 1
    BY <1>1, <2>1, <2>2
  <2>3. CASE i # 1
    <3>1. i - 1 \in DOMAIN Tail(q) /\ Tail(q)[i - 1] = q[i]
      BY <1>1, <2>3
    <3> QED
      BY <2>1, <3>1 DEF Queued
  <2> QED
    BY <2>2, <2>3
<1>7. CASE /\ UNCHANGED client /\ conn'[s].pc = "resnapshot" /\ \A t \in Streams : t # s => conn'[t] = conn[t]
  <2>1. WaitInv(s)' /\ MissInv(s)' /\ SeenInv(s)'
    BY <1>0, <1>3, <1>7 DEF WaitInv, MissInv, SeenInv, Setup
  <2> QED
    BY <1>1, <1>2, <1>5, <1>7, <2>1, LossOfOthers DEF LossInv
<1>8. CASE UNCHANGED client /\ UNCHANGED conn /\ item # ResetRequired /\ item <= conn[s].delivered
  <2>1. WaitInv(s)' /\ SeenInv(s)'
    BY <1>0, <1>1, <1>3, <1>8 DEF WaitInv, SeenInv
  <2>2. \A e \in Own : Queued(q, e) => Queued(Tail(q), e) \/ e <= conn[s].delivered
    BY <1>6, <1>8
  <2>3. MissInv(s)'
    BY <1>0, <1>1, <1>2, <1>3, <1>8, <2>2 DEF MissInv, Setup, q
  <2> QED
    BY <1>1, <1>2, <1>5, <1>8, <2>1, <2>3, LossOfOthers DEF LossInv
<1>9. CASE /\ item \in OwnEver /\ item \in Nat /\ item > conn[s].delivered /\ Merged(s, item)
           /\ conn'[s].pc = conn[s].pc /\ conn'[s].delivered = item /\ \A t \in Streams : t # s => conn'[t] = conn[t]
  <2>0. item # ResetRequired
    BY <1>9 DEF ResetRequired
  <2>1. ASSUME NEW e \in Own, e <= item, e # item, e > conn[s].delivered PROVE FALSE
    <3>1. item <= broker.last /\ e \in Nat
      BY <1>0, <1>1, <1>3 DEF Ordered
    <3>2. e <= broker.last /\ ~(e <= conn[s].delivered)
      BY <1>0, <1>3, <1>9, <2>1, <3>1
    <3>3. Queued(q, e)
      BY <1>0, <1>1, <3>2 DEF MissInv, q
    <3>4. PICK i \in DOMAIN q : q[i] = e \/ q[i] = ResetRequired
      BY <3>3 DEF Queued
    <3>5. 1 \in DOMAIN q /\ i # 1
      BY <1>1, <2>0, <2>1, <3>4
    <3>6. q[i] # ResetRequired
      BY <1>0, <3>5 DEF Ordered
    <3>7. 1 < i /\ q[1] > 0 /\ q[i] > 0
      BY <1>0, <1>1, <1>9, <2>1, <3>1, <3>4, <3>5, <3>6
    <3>8. q[1] < q[i]
      BY <1>0, <3>5, <3>7 DEF Ordered
    <3> QED
      BY <1>1, <2>1, <3>1, <3>4, <3>6, <3>8
  <2>2. \A e \in Own : e <= item => e \in client[s].seen \cup {item}
    <3> SUFFICES ASSUME NEW e \in Own, e <= item, e # item PROVE e \in client[s].seen
      OBVIOUS
    <3>1. e <= conn[s].delivered
      BY <1>0, <1>3, <2>1
    <3> QED
      BY <1>0, <1>3, <3>1 DEF SeenInv
  <2>3. WaitInv(s)' /\ SeenInv(s)'
    BY <1>1, <1>3, <1>9, <2>2 DEF WaitInv, SeenInv, Merged
  <2>4. \A e \in Own : Queued(q, e) \/ e <= conn[s].delivered => Queued(Tail(q), e) \/ e <= item
    <3> SUFFICES ASSUME NEW e \in Own, Queued(q, e) \/ e <= conn[s].delivered, ~Queued(Tail(q), e) PROVE e <= item
      OBVIOUS
    <3>1. e = item \/ e <= conn[s].delivered
      BY <1>6, <2>0
    <3> QED
      BY <1>0, <1>3, <1>9, <3>1
  <2>5. MissInv(s)'
    BY <1>0, <1>1, <1>2, <1>3, <1>9, <2>4 DEF MissInv, Setup, q
  <2> QED
    BY <1>1, <1>2, <1>5, <1>9, <2>3, <2>5, LossOfOthers DEF LossInv, Merged
<1> QED
  BY <1>7, <1>8, <1>9, TakeIs DEF Becomes, item

\* Streams that open, register or end.
LEMMA LossStream ==
    ASSUME IInv, OInv, RaceFree, NEW s \in Streams,
           Open(s) \/ CursorSet(s) \/ Refused(s) \/ SetupFault(s) \/ Disconnect(s)
    PROVE  OInv'
<1>0. /\ StreamInv(s) /\ LossInv(s) /\ SeenInv(s) /\ WaitInv(s) /\ Ordered(queues[s], broker.last, broker.batch)
      /\ client[s] \in Client /\ conn[s].top \in Nat
  BY LocalsType DEF OInv, LossInv
<1>1. UNCHANGED outbox /\ events' = events
  BY DEF Open, CursorSet, Refused, SetupFault, Disconnect, outbox
<1>2. Own' = Own /\ Stored' = Stored /\ Own \subseteq Nat /\ Stored \subseteq Nat
  BY <1>1, Facts DEF outbox, Own, Stored, OwnEver
<1>3. CASE Open(s)
  <2> DEFINE p == IF Subscribed THEN "snapshot" ELSE "cursor_read"
  <2>1. PICK c \in {client[s], NewClient} :
            /\ client' = [client EXCEPT ![s] = c]
            /\ conn' = [conn EXCEPT ![s] = [Idle EXCEPT !.pc = p, !.cursor = c.cursor]]
    BY <1>3 DEF Open
  <2>2. c \in Client /\ c.cursor \in Int
    BY <1>0, <2>1 DEF NewClient, Client, NoCursor
  <2>3. p \in HandlerPoint /\ p \in {"snapshot", "cursor_read"}
    BY DEF HandlerPoint
  <2> HIDE DEF p
  <2>4. Becomes(s, p, c.cursor, 0, 0, 0, 0, FALSE, {}, TRUE, 0)
    BY <2>1, <2>2, <2>3, SetOpen
  <2>5. client' \in [Streams -> Client] /\ client'[s] = c /\ \A t \in Streams : t # s => client'[t] = client[t]
    BY <2>1, <2>2, ClientSet
  <2>6. broker' = broker /\ queues' = queues
    BY <1>3 DEF Open
  <2>7. \A e \in Own : e <= c.cursor => e \in c.seen
    <3>1. CASE c = client[s]
      BY <1>0, <3>1 DEF SeenInv
    <3>2. CASE c = NewClient
      <4>1. c.cursor = -1
        BY <3>2 DEF NewClient, NoCursor
      <4>2. \A e \in Own : ~(e <= -1)
        BY <1>2
      <4> QED
        BY <4>1, <4>2
    <3> QED
      BY <2>1, <3>1, <3>2
  <2>8. WaitInv(s)' /\ MissInv(s)' /\ SeenInv(s)'
    BY <1>2, <2>3, <2>4, <2>5, <2>7 DEF WaitInv, MissInv, SeenInv, Becomes, Setup
  <2>9. Ordered(queues[s], broker.last, broker.batch)'
    BY <1>0, <2>6 DEF Ordered
  <2> QED
    BY <1>1, <2>4, <2>5, <2>6, <2>8, <2>9, LossOfOthers DEF LossInv, Becomes
<1>4. CASE Refused(s) \/ SetupFault(s) \/ Disconnect(s)
  <2>1. /\ UNCHANGED client /\ conn' = [conn EXCEPT ![s] = Idle] /\ broker' = broker
        /\ queues' = [queues EXCEPT ![s] = <<>>]
    BY <1>4 DEF Refused, SetupFault, Disconnect, Unsubscribe
  <2>2. conn'[s].pc = "off" /\ \A t \in Streams : t # s => conn'[t] = conn[t]
    BY <2>1, SetIdle DEF Becomes
  <2>3. queues'[s] = <<>> /\ \A t \in Streams : t # s => queues'[t] = queues[t]
    <3>1. <<>> \in Seq(Int)
      OBVIOUS
    <3> QED
      BY <2>1, <3>1, QueueSet
  <2>4. WaitInv(s)' /\ MissInv(s)' /\ SeenInv(s)'
    BY <1>0, <1>2, <2>1, <2>2 DEF WaitInv, MissInv, SeenInv, Setup
  <2>5. Ordered(queues[s], broker.last, broker.batch)'
    BY <2>3 DEF Ordered
  <2> QED
    BY <1>1, <2>1, <2>2, <2>3, <2>4, <2>5, LossOfOthers DEF LossInv
<1>5. CASE CursorSet(s)
  <2>1. /\ UNCHANGED client /\ conn' = [conn EXCEPT ![s].pc = "snapshot", ![s].top = 0] /\ queues' = queues
        /\ broker' = [broker EXCEPT !.last = conn[s].top] /\ conn[s].pc = "cursor_set" /\ ~Subscribed
    BY <1>5 DEF CursorSet, At, RaceFree
  <2>2. conn'[s].pc = "snapshot" /\ \A t \in Streams : t # s => conn'[t] = conn[t]
    <3>1. "snapshot" \in HandlerPoint /\ 0 \in Nat
      BY DEF HandlerPoint
    <3> QED
      BY <2>1, <3>1, SetTop DEF Becomes
  <2>3. broker'.last = conn[s].top /\ broker'.batch = broker.batch
    BY <2>1 DEF IInv, TypeOK
  <2>4. PassInv'
    BY <1>0, <1>2, <2>1, <2>3 DEF PassInv, WaitInv
  <2>5. ASSUME NEW t \in Streams PROVE LossInv(t)'
    <3>1. t \notin subs /\ StreamInv(t) /\ LossInv(t)
      BY <2>1 DEF Subscribed, IInv, OInv
    <3>2. conn[t].pc \in Outside /\ queues[t] = <<>>
      BY <3>1 DEF StreamInv
    <3>3. conn'[t].pc \notin Setup \cup {"replay", "live"}
      BY <2>2, <3>2 DEF Outside, Setup
    <3>4. WaitInv(t)'
      BY <1>2, <2>2, <2>3, <3>1 DEF LossInv, WaitInv
    <3>5. MissInv(t)' /\ SeenInv(t)'
      BY <1>2, <2>1, <3>1, <3>3 DEF LossInv, MissInv, SeenInv
    <3>6. Ordered(queues[t], broker.last, broker.batch)'
      BY <2>1, <3>2 DEF Ordered
    <3> QED
      BY <3>4, <3>5, <3>6 DEF LossInv
  <2> QED
    BY <2>4, <2>5 DEF OInv
<1> QED
  BY <1>3, <1>4, <1>5

\* The API starts over.
LEMMA LossRestart == ASSUME IInv, OInv, ApiRestart PROVE OInv'
<1>0. /\ client' = client /\ queues' = [s \in Streams |-> <<>>] /\ conn' = [s \in Streams |-> Idle]
      /\ broker' = [NewBroker EXCEPT !.last = Newest(Stored)]
      /\ Own' = Own /\ Stored' = Stored
  BY DEF ApiRestart, outbox, Own, Stored, OwnEver
<1>1. broker'.batch = {}
  BY <1>0 DEF NewBroker
<1>2. PassInv'
  BY <1>1 DEF PassInv
<1>3. ASSUME NEW t \in Streams PROVE LossInv(t)'
  <2>1. conn'[t].pc = "off" /\ queues'[t] = <<>> /\ SeenInv(t)
    BY <1>0, IdleIs DEF OInv, LossInv
  <2> QED
    BY <1>0, <2>1 DEF LossInv, Ordered, WaitInv, MissInv, SeenInv, Setup
<1> QED
  BY <1>2, <1>3 DEF OInv

\* Nothing has been sent or missed before the first stream opens.
LEMMA LossInit == Init => OInv
<1> SUFFICES ASSUME Init PROVE OInv
  OBVIOUS
<1>1. Stored = {} /\ Own = {}
  BY DEF Init, Stored, Own, OwnEver
<1>2. ASSUME NEW s \in Streams PROVE LossInv(s)
  <2>1. conn[s].pc = "off" /\ queues[s] = <<>>
    BY IdleIs DEF Init
  <2> QED
    BY <1>1, <2>1 DEF LossInv, Ordered, WaitInv, MissInv, SeenInv, Setup
<1> QED
  BY <1>1, <1>2 DEF OInv, PassInv

\* No step taken without a racing first subscriber loses an event.
LEMMA LossNext == ASSUME IInv, OInv, RaceFree, [Next]_vars PROVE OInv'
<1>1. CASE \E s \in Streams : HandlerStep(s)
  <2>1. PICK s \in Streams : HandlerStep(s)
    BY <1>1
  <2>2. CASE CursorSet(s)
    BY <2>2, LossStream
  <2>3. CASE TakeItem(s)
    BY <2>3, LossTake
  <2>4. CASE ~(CursorSet(s) \/ TakeItem(s))
    BY <2>1, <2>4, LossHandler DEF HandlerStep
  <2> QED
    BY <2>2, <2>3, <2>4
<1>2. CASE \E s \in Streams : Open(s) \/ Refused(s) \/ SetupFault(s) \/ Disconnect(s)
  BY <1>2, LossStream
<1> QED
  BY <1>1, <1>2, LossWriters, LossBroker, LossRestart DEF Next

\* The two guarantees follow.
LEMMA LossFree == ASSUME IInv, OInv PROVE NoSilentLoss /\ QueuesConsistent
<1>1. NoSilentLoss
  BY DEF OInv, LossInv, SeenInv, NoSilentLoss
<1>2. QueueComplete
  <2> SUFFICES ASSUME NEW s \in subs, conn[s].pc = "live", NEW e \in Own, conn[s].delivered < e, e <= broker.last
               PROVE  \E i \in DOMAIN queues[s] : queues[s][i] \in {e, ResetRequired}
    BY DEF QueueComplete, At
  <2>1. s \in Streams
    BY DEF IInv, TypeOK
  <2>2. e \in Nat /\ conn[s].delivered \in Nat
    BY <2>1, LocalsType, Facts
  <2>3. ~(e <= conn[s].delivered)
    BY <2>2
  <2>4. MissInv(s)
    BY <2>1 DEF OInv, LossInv
  <2>5. Queued(queues[s], e)
    BY <2>3, <2>4 DEF MissInv
  <2> QED
    BY <2>5 DEF Queued
<1> QED
  BY <1>1, <1>2 DEF QueuesConsistent, IInv

\* For any number of streams: as long as no first subscriber sets the broker's
\* cursor after another one was registered, a client's view has every stored event
\* up to its last event id, across overflows, retention, rebuilds and restarts.
THEOREM NoLossTheorem == Spec /\ []RaceFree => []NoSilentLoss
<1>1. Init => OInv
  BY LossInit
<1>2. IInv /\ OInv /\ RaceFree /\ [Next]_vars => OInv'
  BY LossNext
<1>3. IInv /\ OInv => NoSilentLoss
  BY LossFree
<1> QED
  BY <1>1, <1>2, <1>3, Invariance, PTL DEF Spec

\* ... and what the broker has passed is in the queue of every live stream, or a
\* reset marker is.
THEOREM QueuesTheorem == Spec /\ []RaceFree => []QueuesConsistent
<1>1. Init => OInv
  BY LossInit
<1>2. IInv /\ OInv /\ RaceFree /\ [Next]_vars => OInv'
  BY LossNext
<1>3. IInv /\ OInv => QueuesConsistent
  BY LossFree
<1> QED
  BY <1>1, <1>2, <1>3, Invariance, PTL DEF Spec

\* One stream has nobody to race with.
LEMMA OneStreamRaceFree ==
    ASSUME \A s, t \in Streams : s = t
    PROVE  Spec => []RaceFree
<1>1. Init => RaceFree
  BY IdleIs DEF Init, RaceFree
<1>2. IInv /\ RaceFree /\ [Next]_vars => RaceFree'
  <2> SUFFICES ASSUME IInv, RaceFree, [Next]_vars, NEW s \in Streams, conn'[s].pc \in {"cursor_read", "cursor_set"}
               PROVE  ~Subscribed'
    BY DEF RaceFree
  <2>1. IInv'
    BY NextInv
  <2>2. subs' = {}
    <3>1. s \notin subs'
      BY <2>1 DEF IInv, StreamInv, Outside
    <3>2. subs' \subseteq Streams
      BY <2>1 DEF IInv, TypeOK
    <3> QED
      BY <3>1, <3>2
  <2>3. orphans \in Nat /\ conn \in [Streams -> Handler]
    BY DEF IInv, TypeOK
  <2>4. CASE conn'[s].pc = conn[s].pc /\ orphans' = orphans
    BY <2>2, <2>4 DEF RaceFree, Subscribed
  <2>5. CASE Open(s)
    <3>1. ~Subscribed /\ orphans' = orphans
      <4>1. orphans' = orphans /\ subs' = IF Subscribed THEN subs \cup {s} ELSE subs
        BY <2>5 DEF Open
      <4> QED
        BY <2>2, <4>1
    <3> QED
      BY <2>2, <3>1 DEF Subscribed
  <2>6. CASE CursorRead(s)
    <3>1. conn[s].pc = "cursor_read" /\ orphans' = orphans
      BY <2>6 DEF CursorRead, At, fanout
    <3> QED
      BY <2>2, <3>1 DEF RaceFree, Subscribed
  <2>7. CASE CursorSet(s) \/ Snapshot(s) \/ CursorWindow(s) \/ CursorPrior(s) \/ First(s) \/ ReplayEvent(s)
             \/ ReplayDone(s) \/ Resnapshot(s) \/ TakeItem(s)
    <3>1. s \in subs'
      <4>1. s \in subs \/ CursorSet(s)
        BY <2>7 DEF Snapshot, CursorWindow, CursorPrior, First, ReplayEvent, ReplayDone, Resnapshot, TakeItem, At,
             IInv, StreamInv, Outside
      <4> QED
        BY <2>7, <4>1 DEF CursorSet, Snapshot, CursorWindow, CursorPrior, First, ReplayEvent, ReplayDone, Resnapshot,
             TakeItem, fanout
    <3> QED
      BY <2>2, <3>1
  <2>8. CASE ReplayRead(s)
    <3>1. conn'[s].pc = conn[s].pc /\ orphans' = orphans
      BY <2>8, ReplayReadIs DEF Becomes, fanout
    <3> QED
      BY <2>4, <3>1
  <2>9. CASE Refused(s) \/ SetupFault(s) \/ Disconnect(s)
    <3>1. conn' = [conn EXCEPT ![s] = Idle]
      BY <2>9 DEF Refused, SetupFault, Disconnect
    <3> QED
      BY <3>1, SetIdle DEF Becomes
  <2>10. CASE ApiRestart
    BY <2>10, IdleIs DEF ApiRestart
  <2>11. CASE WriterStep \/ BrokerStep \/ UNCHANGED vars
    <3>1. conn' = conn /\ orphans' = orphans
      BY <2>11 DEF WriterStep, BrokerStep, AppendStreamEvent, AppendForeignEvent, NewHeat, StopSession,
           ApplyRetention, ResetDerivedState, BrokerRead, BrokerFan, BrokerBatchDone, BrokerQuality, vars, fanout
    <3> QED
      BY <2>4, <3>1
  <2> QED
    BY <2>5, <2>6, <2>7, <2>8, <2>9, <2>10, <2>11 DEF Next, HandlerStep
<1> QED
  BY <1>1, <1>2, Invariance, PTL DEF Spec

\* With one stream nothing is lost, for every number of events, heats and faults.
THEOREM OneStreamNoLoss ==
    ASSUME \A s, t \in Streams : s = t
    PROVE  Spec => [](NoSilentLoss /\ QueuesConsistent)
  BY OneStreamRaceFree, NoLossTheorem, QueuesTheorem, PTL

=============================================================================
