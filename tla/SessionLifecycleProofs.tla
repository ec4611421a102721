----------------------- MODULE SessionLifecycleProofs -----------------------
(***************************************************************************)
(* For any number of sources, keys, sessions and requests: at most one     *)
(* active session per source, keyed requests take effect at most once,     *)
(* stored answers were true, closed sessions stay closed, and the audit    *)
(* trail of a session tells its lifecycle.                                 *)
(***************************************************************************)
EXTENDS SessionLifecycle, SequenceTheorems, TLAPS

\* The inductive invariant: KeyedOnce alone is not inductive, because a step
\* decides from the stored keys and writes the audit; KeysMatchAudit ties them.
IInv ==
    /\ TypeOK
    /\ OneActivePerSource
    /\ KeyedOnce
    /\ KeysMatchAudit
    /\ AnswersWereTrue

TransitionOps == {"start", "stop", "abort"}

\* The step form of ClosedIsFinal.
OnlyForward ==
    \A id \in SessionIds :
        id \in DOMAIN sessions' /\ sessions'[id].lifecycle \in Reached(sessions[id].lifecycle)

\* The row an operation writes is a well-formed session of the same source and
\* spec, in the lifecycle the operation stands for.
LEMMA UpdatedRow ==
    ASSUME TypeOK, NEW row \in Session, NEW op \in TransitionOps
    PROVE  /\ Updated(op, row) \in Session
           /\ Updated(op, row).source = row.source
           /\ Updated(op, row).spec = row.spec
           /\ Updated(op, row).lifecycle =
                IF op = "start" THEN "active" ELSE IF op = "stop" THEN "stopped" ELSE "aborted"
           /\ EventOf(op) \in {"started", "stopped", "aborted"}
<1>1. CASE op = "start"
  BY <1>1 DEF Updated, EventOf, Session, Lifecycles
<1>2. CASE op = "stop"
  BY <1>2 DEF Updated, EventOf, Session, Lifecycles
<1>3. CASE op = "abort"
  BY <1>3 DEF Updated, EventOf, Session, Lifecycles
<1> QED
  BY <1>1, <1>2, <1>3 DEF TransitionOps

\* An operation only moves a session to a lifecycle reachable from its own.
LEMMA UpdatedReached ==
    ASSUME TypeOK, NEW row \in Session, NEW op \in TransitionOps,
           row.lifecycle \in Allowed(op)
    PROVE  Updated(op, row).lifecycle \in Reached(row.lifecycle)
<1>1. CASE op = "start"
  BY <1>1, UpdatedRow DEF Allowed, Reached, Lifecycles
<1>2. CASE op = "stop"
  BY <1>2, UpdatedRow DEF Allowed, Reached, Lifecycles
<1>3. CASE op = "abort"
  BY <1>3, UpdatedRow DEF Allowed, Reached, Lifecycles
<1> QED
  BY <1>1, <1>2, <1>3 DEF TransitionOps

\* Reachability of lifecycles is reflexive and transitive.
LEMMA ReachedOrder ==
    /\ \A l \in Lifecycles : l \in Reached(l)
    /\ \A k, l, m \in Lifecycles :
          l \in Reached(k) /\ m \in Reached(l) => m \in Reached(k)
BY DEF Reached, Lifecycles

\* What Record does to the audit and the stored keys preserves the link
\* between them, provided the key was unused.
LEMMA RecordStep ==
    ASSUME IInv, NEW request \in Requests, NEW key \in Keys \cup {NoKey}, NEW id \in Nat,
           NEW event \in {"created", "started", "stopped", "aborted"}, NEW result \in Session,
           StoredUnder(key) = {},
           Record(request, key, id, event, result)
    PROVE  /\ stored' \subseteq StoredKey
           /\ audit' \in Seq(AuditEvent)
           /\ KeyedOnce'
           /\ KeysMatchAudit'
<1> DEFINE new == [session |-> id, event |-> event, key |-> key]
           row == [key |-> key, request |-> request, session |-> id, result |-> result]
<1>1. new \in AuditEvent
  BY DEF AuditEvent
<1>2. audit \in Seq(AuditEvent) /\ stored \subseteq StoredKey
  BY DEF IInv, TypeOK
<1>3. audit' = Append(audit, new)
  BY DEF Record
<1>4. /\ audit' \in Seq(AuditEvent)
      /\ Len(audit) \in Nat
      /\ Len(audit') = Len(audit) + 1
      /\ DOMAIN audit = 1..Len(audit)
      /\ DOMAIN audit' = 1..(Len(audit) + 1)
      /\ \A i \in 1..Len(audit) : audit'[i] = audit[i]
      /\ audit'[Len(audit) + 1] = new
  BY <1>1, <1>2, <1>3, AppendProperties, LenProperties
<1>5. stored' \subseteq StoredKey
  BY <1>2 DEF Record, StoredKey
<1>6. key # NoKey => \A i \in DOMAIN audit : audit[i].key # key
  BY DEF IInv, KeysMatchAudit, StoredUnder
<1>7. KeyedOnce'
  <2> SUFFICES ASSUME NEW i \in DOMAIN audit', NEW j \in DOMAIN audit',
                      audit'[i].key = audit'[j].key, audit'[i].key # NoKey
               PROVE  i = j
    BY DEF KeyedOnce
  <2>1. CASE i \in 1..Len(audit) /\ j \in 1..Len(audit)
    BY <1>4, <2>1 DEF IInv, KeyedOnce
  <2>2. CASE i = Len(audit) + 1 /\ j \in 1..Len(audit)
    BY <1>4, <1>6, <2>2
  <2>3. CASE i \in 1..Len(audit) /\ j = Len(audit) + 1
    BY <1>4, <1>6, <2>3
  <2>4. CASE i = Len(audit) + 1 /\ j = Len(audit) + 1
    BY <2>4
  <2> QED
    BY <1>4, <2>1, <2>2, <2>3, <2>4
<1>8. KeysMatchAudit'
  <2>1. ASSUME NEW r \in stored'
        PROVE  \E i \in DOMAIN audit' : audit'[i].key = r.key /\ audit'[i].session = r.session
    <3>1. CASE r \in stored
      BY <1>4, <3>1 DEF IInv, KeysMatchAudit
    <3>2. CASE r = row
      BY <1>4, <3>2
    <3> QED
      BY <2>1, <3>1, <3>2 DEF Record
  <2>2. ASSUME NEW i \in DOMAIN audit', audit'[i].key # NoKey
        PROVE  \E r \in stored' : r.key = audit'[i].key /\ r.session = audit'[i].session
    <3>1. CASE i \in 1..Len(audit)
      BY <1>4, <2>2, <3>1 DEF IInv, KeysMatchAudit, Record
    <3>2. CASE i = Len(audit) + 1
      <4>1. audit'[i] = new /\ key # NoKey
        BY <1>4, <2>2, <3>2
      <4>2. row \in stored'
        BY <4>1 DEF Record
      <4>3. row.key = audit'[i].key /\ row.session = audit'[i].session
        BY <4>1
      <4> QED
        BY <4>2, <4>3
    <3> QED
      BY <1>4, <3>1, <3>2
  <2> QED
    BY <2>1, <2>2 DEF KeysMatchAudit
<1> QED
  BY <1>4, <1>5, <1>7, <1>8

\* The invariant holds in the empty database.
LEMMA InitInvariant == Init => IInv
BY EmptySeq DEF Init, IInv, TypeOK, OneActivePerSource, KeyedOnce, KeysMatchAudit,
                AnswersWereTrue, SessionIds

\* A refusal or a replayed answer changes no table.
LEMMA UnchangedInvariant ==
    ASSUME IInv, UNCHANGED <<sessions, stored, audit>>
    PROVE  IInv' /\ OnlyForward
<1>1. IInv'
  BY DEF IInv, TypeOK, OneActivePerSource, KeyedOnce, KeysMatchAudit, AnswersWereTrue, SessionIds
<1>2. sessions \in Seq(Session)
  BY DEF IInv, TypeOK
<1>3. \A id \in DOMAIN sessions : sessions[id] \in Session
  BY <1>2, ElementOfSeq, LenProperties
<1>4. \A id \in DOMAIN sessions : sessions[id].lifecycle \in Lifecycles
  BY <1>3 DEF Session
<1> QED
  BY <1>1, <1>4, ReachedOrder DEF OnlyForward, SessionIds

\* Creating a draft.
LEMMA CreateInvariant ==
    ASSUME IInv, NEW source \in Sources, NEW spec \in SpecType, NEW key \in Keys \cup {NoKey},
           Create(source, spec, key)
    PROVE  IInv' /\ OnlyForward
<1> DEFINE request == [op |-> "create", source |-> source, spec |-> spec]
           row == [source |-> source, spec |-> spec, lifecycle |-> "draft",
                   intent |-> "none"]
<1>1. CASE UNCHANGED <<sessions, stored, audit>>
  BY <1>1, UnchangedInvariant
<1>2. CASE /\ StoredUnder(key) = {}
           /\ sessions' = Append(sessions, row)
           /\ Record(request, key, Len(sessions) + 1, "created", row)
  <2>1. /\ sessions \in Seq(Session)
        /\ Len(sessions) \in Nat
        /\ DOMAIN sessions = 1..Len(sessions)
    BY LenProperties DEF IInv, TypeOK
  <2>3. row \in Session
    BY DEF Session, Lifecycles
  <2>4. /\ sessions' \in Seq(Session)
        /\ DOMAIN sessions' = 1..(Len(sessions) + 1)
        /\ \A i \in 1..Len(sessions) : sessions'[i] = sessions[i]
        /\ sessions'[Len(sessions) + 1] = row
    BY <1>2, <2>1, <2>3, AppendProperties, LenProperties
  <2>5. request \in Requests
    BY DEF Requests
  <2>6. /\ stored' \subseteq StoredKey
        /\ audit' \in Seq(AuditEvent)
        /\ KeyedOnce'
        /\ KeysMatchAudit'
    BY <1>2, <2>1, <2>3, <2>5, RecordStep
  <2>7. OneActivePerSource'
    BY <2>1, <2>4 DEF IInv, OneActivePerSource, SessionIds
  <2>8. AnswersWereTrue'
    <3>1. ASSUME NEW r \in stored'
          PROVE  /\ r.session \in DOMAIN sessions'
                 /\ sessions'[r.session].lifecycle \in Reached(r.result.lifecycle)
                 /\ sessions'[r.session].source = r.result.source
                 /\ sessions'[r.session].spec = r.result.spec
      <4>1. CASE r \in stored
        BY <2>1, <2>4, <4>1 DEF IInv, AnswersWereTrue, SessionIds
      <4>2. CASE r = [key |-> key, request |-> request,
                      session |-> Len(sessions) + 1, result |-> row]
        BY <2>1, <2>4, <4>2, ReachedOrder DEF Lifecycles
      <4> QED
        BY <1>2, <3>1, <4>1, <4>2 DEF Record
    <3> QED
      BY <3>1 DEF AnswersWereTrue, SessionIds
  <2>9. OnlyForward
    <3>1. \A i \in 1..Len(sessions) : sessions[i] \in Session
      BY <2>1, ElementOfSeq
    <3>2. \A i \in 1..Len(sessions) : sessions[i].lifecycle \in Lifecycles
      BY <3>1 DEF Session
    <3> QED
      BY <2>1, <2>4, <3>2, ReachedOrder DEF OnlyForward, SessionIds
  <2> QED
    BY <2>4, <2>6, <2>7, <2>8, <2>9 DEF IInv, TypeOK
<1> QED
  BY <1>1, <1>2 DEF Create, AnswerStored, Refuse

\* start, stop and abort.
LEMMA TransitionInvariant ==
    ASSUME IInv, NEW op \in TransitionOps, NEW id \in Nat, NEW key \in Keys \cup {NoKey},
           Transition(op, id, key)
    PROVE  IInv' /\ OnlyForward
<1> DEFINE request == [op |-> op, session |-> id]
           row == Updated(op, sessions[id])
<1>1. CASE UNCHANGED <<sessions, stored, audit>>
  BY <1>1, UnchangedInvariant
<1>2. CASE /\ StoredUnder(key) = {} /\ id \in SessionIds
           /\ sessions[id].lifecycle \in Allowed(op)
           /\ ~(op = "start" /\ SourceBusy(id))
           /\ sessions' = [sessions EXCEPT ![id] = row]
           /\ Record(request, key, id, EventOf(op), row)
  <2>1. /\ TypeOK
        /\ sessions \in Seq(Session)
        /\ Len(sessions) \in Nat
        /\ DOMAIN sessions = 1..Len(sessions)
        /\ id \in 1..Len(sessions)
        /\ \A i \in 1..Len(sessions) : sessions[i] \in Session
    BY <1>2, LenProperties, ElementOfSeq DEF IInv, TypeOK, SessionIds
  <2>2. /\ row \in Session
        /\ row.source = sessions[id].source
        /\ row.spec = sessions[id].spec
        /\ row.lifecycle = IF op = "start" THEN "active"
                           ELSE IF op = "stop" THEN "stopped" ELSE "aborted"
        /\ EventOf(op) \in {"started", "stopped", "aborted"}
    BY <2>1, UpdatedRow
  <2>3. /\ sessions' \in Seq(Session)
        /\ DOMAIN sessions' = 1..Len(sessions)
        /\ \A i \in 1..Len(sessions) : i # id => sessions'[i] = sessions[i]
        /\ sessions'[id] = row
    <3> HIDE DEF row
    <3> QED
      BY <1>2, <2>1, <2>2, ExceptSeq, LenProperties
  <2>4. row.lifecycle \in Reached(sessions[id].lifecycle)
    BY <1>2, <2>1, UpdatedReached
  <2>5. request \in Requests
    BY DEF Requests, TransitionOps, Operations
  <2>6. /\ stored' \subseteq StoredKey
        /\ audit' \in Seq(AuditEvent)
        /\ KeyedOnce'
        /\ KeysMatchAudit'
    <3> HIDE DEF row, request
    <3> QED
      BY <1>2, <2>2, <2>5, RecordStep
  <2>7. OneActivePerSource'
    <3> SUFFICES ASSUME NEW s \in 1..Len(sessions), NEW t \in 1..Len(sessions),
                        sessions'[s].lifecycle = "active", sessions'[t].lifecycle = "active",
                        sessions'[s].source = sessions'[t].source
                 PROVE  s = t
      BY <2>3 DEF OneActivePerSource, SessionIds
    <3> HIDE DEF row
    <3>1. CASE s # id /\ t # id
      BY <2>1, <2>3, <3>1 DEF IInv, OneActivePerSource, SessionIds
    <3>2. CASE s = id /\ t # id
      BY <1>2, <2>1, <2>2, <2>3, <3>2 DEF SourceBusy, SessionIds
    <3>3. CASE s # id /\ t = id
      BY <1>2, <2>1, <2>2, <2>3, <3>3 DEF SourceBusy, SessionIds
    <3> QED
      BY <3>1, <3>2, <3>3
  <2>8. AnswersWereTrue'
    <3> SUFFICES ASSUME NEW r \in stored'
                 PROVE  /\ r.session \in DOMAIN sessions'
                        /\ sessions'[r.session].lifecycle \in Reached(r.result.lifecycle)
                        /\ sessions'[r.session].source = r.result.source
                        /\ sessions'[r.session].spec = r.result.spec
      BY DEF AnswersWereTrue, SessionIds
    <3>1. CASE r \in stored
      <4>1. /\ r.session \in 1..Len(sessions)
            /\ sessions[r.session].lifecycle \in Reached(r.result.lifecycle)
            /\ sessions[r.session].source = r.result.source
            /\ sessions[r.session].spec = r.result.spec
        BY <2>1, <3>1 DEF IInv, AnswersWereTrue, SessionIds
      <4>2. CASE r.session # id
        BY <2>3, <4>1, <4>2
      <4>3. CASE r.session = id
        <5>1. r.result.lifecycle \in Lifecycles
          BY <2>1, <3>1 DEF TypeOK, StoredKey, Session
        <5>2. sessions[id].lifecycle \in Lifecycles /\ row.lifecycle \in Lifecycles
          BY <2>1, <2>2 DEF Session
        <5> HIDE DEF row
        <5>3. row.lifecycle \in Reached(r.result.lifecycle)
          BY <2>4, <4>1, <4>3, <5>1, <5>2, ReachedOrder
        <5> QED
          BY <2>2, <2>3, <4>1, <4>3, <5>3
      <4> QED
        BY <4>2, <4>3
    <3>2. CASE r = [key |-> key, request |-> request, session |-> id, result |-> row]
      <4> HIDE DEF row
      <4>1. row.lifecycle \in Reached(row.lifecycle)
        BY <2>2, ReachedOrder DEF Session
      <4> QED
        BY <2>1, <2>3, <3>2, <4>1
    <3> QED
      BY <1>2, <3>1, <3>2 DEF Record
  <2>9. OnlyForward
    <3> HIDE DEF row
    <3>1. \A i \in 1..Len(sessions) : sessions[i].lifecycle \in Lifecycles
      BY <2>1 DEF Session
    <3> QED
      BY <2>1, <2>3, <2>4, <3>1, ReachedOrder DEF OnlyForward, SessionIds
  <2> QED
    BY <2>3, <2>6, <2>7, <2>8, <2>9 DEF IInv, TypeOK
<1> QED
  BY <1>1, <1>2 DEF Transition, AnswerStored, Refuse

\* Every step keeps the invariant and moves sessions only forward.
LEMMA StepInvariant == IInv /\ [Next]_vars => IInv' /\ OnlyForward
<1> SUFFICES ASSUME IInv, [Next]_vars PROVE IInv' /\ OnlyForward
  OBVIOUS
<1>1. CASE UNCHANGED vars
  BY <1>1, UnchangedInvariant DEF vars
<1>2. ASSUME NEW key \in Keys \cup {NoKey}, NEW source \in Sources, NEW spec \in SpecType,
             Create(source, spec, key)
      PROVE  IInv' /\ OnlyForward
  BY <1>2, CreateInvariant
<1>3. ASSUME NEW key \in Keys \cup {NoKey}, NEW op \in Operations \ {"create"},
             NEW id \in 1..MaxSessions, Transition(op, id, key)
      PROVE  IInv' /\ OnlyForward
  BY <1>3, TransitionInvariant, MaxAssumption DEF Operations, TransitionOps
<1> QED
  BY <1>1, <1>2, <1>3 DEF Next

-----------------------------------------------------------------------------
(* The audit trail.                                                        *)

\* What the trail needs besides IInv: no event of a session that is not there, so
\* that the trail of a new session begins with its creation.
AuditInv ==
    /\ AuditTellsLifecycle
    /\ \A i \in DOMAIN audit : audit[i].session \in SessionIds

\* The events of the audit.
Happenings == {"created", "started", "stopped", "aborted"}

\* An event of another session leaves a trail as it is.
LEMMA TellsKept ==
    ASSUME audit \in Seq(AuditEvent), NEW e \in AuditEvent, audit' = Append(audit, e),
           NEW id, NEW way, Tells(id, way), e.session # id
    PROVE  Tells(id, way)'
<1>1. /\ Len(audit) \in Nat /\ DOMAIN audit = 1..Len(audit) /\ DOMAIN audit' = 1..(Len(audit) + 1)
      /\ \A i \in 1..Len(audit) : audit'[i] = audit[i]
      /\ audit'[Len(audit) + 1] = e
  BY AppendProperties, LenProperties
<1>2. PICK at \in [DOMAIN way -> DOMAIN audit] :
         /\ \A j, k \in DOMAIN way : j < k => at[j] < at[k]
         /\ {i \in DOMAIN audit : audit[i].session = id} = {at[k] : k \in DOMAIN way}
         /\ \A k \in DOMAIN way : audit[at[k]].event = way[k]
  BY DEF Tells
<1>3. at \in [DOMAIN way -> DOMAIN audit']
  BY <1>1
<1>4. {i \in DOMAIN audit' : audit'[i].session = id} = {i \in DOMAIN audit : audit[i].session = id}
  BY <1>1
<1>5. \A k \in DOMAIN way : audit'[at[k]].event = way[k]
  BY <1>1, <1>2
<1> QED
  BY <1>2, <1>3, <1>4, <1>5 DEF Tells

\* An event of the session itself extends its trail.
LEMMA TellsMore ==
    ASSUME audit \in Seq(AuditEvent), NEW e \in AuditEvent, audit' = Append(audit, e),
           NEW way \in Seq(Happenings), Tells(e.session, way)
    PROVE  Tells(e.session, Append(way, e.event))'
<1> DEFINE n == Len(way)
           more == Append(way, e.event)
<1>1. /\ Len(audit) \in Nat /\ DOMAIN audit = 1..Len(audit) /\ DOMAIN audit' = 1..(Len(audit) + 1)
      /\ \A i \in 1..Len(audit) : audit'[i] = audit[i]
      /\ audit'[Len(audit) + 1] = e
  BY AppendProperties, LenProperties
<1>2. /\ n \in Nat /\ DOMAIN way = 1..n /\ DOMAIN more = 1..(n + 1)
      /\ \A k \in 1..n : more[k] = way[k]
      /\ more[n + 1] = e.event
  <2>1. e.event \in Happenings
    BY DEF AuditEvent, Happenings
  <2> QED
    BY <2>1, AppendProperties, LenProperties
<1>3. PICK at \in [DOMAIN way -> DOMAIN audit] :
         /\ \A j, k \in DOMAIN way : j < k => at[j] < at[k]
         /\ {i \in DOMAIN audit : audit[i].session = e.session} = {at[k] : k \in DOMAIN way}
         /\ \A k \in DOMAIN way : audit[at[k]].event = way[k]
  BY DEF Tells
<1> DEFINE to == [k \in 1..(n + 1) |-> IF k \in 1..n THEN at[k] ELSE Len(audit) + 1]
<1> HIDE DEF n, more
<1>4. /\ to \in [DOMAIN more -> DOMAIN audit']
      /\ \A k \in 1..n : to[k] = at[k] /\ at[k] \in 1..Len(audit)
      /\ to[n + 1] = Len(audit) + 1
  <2>1. \A k \in 1..n : at[k] \in 1..Len(audit)
    BY <1>1, <1>2
  <2>2. \A k \in 1..(n + 1) : (IF k \in 1..n THEN at[k] ELSE Len(audit) + 1) \in 1..(Len(audit) + 1)
    BY <1>1, <2>1
  <2>3. to \in [1..(n + 1) -> 1..(Len(audit) + 1)]
    BY <2>2
  <2>4. n + 1 \in 1..(n + 1) /\ n + 1 \notin 1..n /\ 1..n \subseteq 1..(n + 1)
    BY <1>2
  <2> QED
    BY <1>1, <1>2, <2>1, <2>3, <2>4
<1> HIDE DEF to
<1>5. \A j, k \in DOMAIN more : j < k => to[j] < to[k]
  <2> SUFFICES ASSUME NEW j \in 1..(n + 1), NEW k \in 1..(n + 1), j < k
               PROVE  to[j] < to[k]
    BY <1>2
  <2>1. CASE k \in 1..n
    <3>1. j \in 1..n
      BY <1>2, <2>1
    <3> QED
      BY <1>2, <1>3, <1>4, <2>1, <3>1
  <2>2. CASE k = n + 1
    <3>1. j \in 1..n
      BY <1>2, <2>2
    <3> QED
      BY <1>1, <1>4, <2>2, <3>1
  <2> QED
    BY <1>2, <2>1, <2>2
<1>6. {i \in DOMAIN audit' : audit'[i].session = e.session} = {to[k] : k \in DOMAIN more}
  <2>1. ASSUME NEW i \in DOMAIN audit', audit'[i].session = e.session
        PROVE  \E k \in DOMAIN more : i = to[k]
    <3>1. CASE i \in 1..Len(audit)
      <4>1. \E k \in DOMAIN way : i = at[k]
        BY <1>1, <1>3, <2>1, <3>1
      <4> QED
        BY <1>2, <1>4, <4>1
    <3>2. CASE i = Len(audit) + 1
      BY <1>2, <1>4, <3>2
    <3> QED
      BY <1>1, <3>1, <3>2
  <2>2. ASSUME NEW k \in DOMAIN more
        PROVE  to[k] \in DOMAIN audit' /\ audit'[to[k]].session = e.session
    <3>1. CASE k \in 1..n
      <4>1. at[k] \in {i \in DOMAIN audit : audit[i].session = e.session}
        BY <1>2, <1>3, <3>1
      <4> QED
        BY <1>1, <1>4, <3>1, <4>1
    <3>2. CASE k = n + 1
      BY <1>1, <1>4, <3>2
    <3> QED
      BY <1>2, <3>1, <3>2
  <2> QED
    BY <2>1, <2>2
<1>7. \A k \in DOMAIN more : audit'[to[k]].event = more[k]
  <2> SUFFICES ASSUME NEW k \in 1..(n + 1) PROVE audit'[to[k]].event = more[k]
    BY <1>2
  <2>1. CASE k \in 1..n
    BY ZenonT(60), <1>1, <1>2, <1>3, <1>4, <2>1
  <2>2. CASE k = n + 1
    BY <1>1, <1>2, <1>4, <2>2
  <2>3. k \in 1..n \/ k = n + 1
    BY <1>2
  <2> QED
    BY <2>1, <2>2, <2>3
<1> QED
  BY <1>4, <1>5, <1>6, <1>7 DEF Tells, more

\* The first event of a session is its whole trail.
LEMMA TellsFirst ==
    ASSUME audit \in Seq(AuditEvent), NEW e \in AuditEvent, audit' = Append(audit, e),
           \A i \in DOMAIN audit : audit[i].session # e.session
    PROVE  Tells(e.session, <<e.event>>)'
<1>1. /\ Len(audit) \in Nat /\ DOMAIN audit = 1..Len(audit) /\ DOMAIN audit' = 1..(Len(audit) + 1)
      /\ \A i \in 1..Len(audit) : audit'[i] = audit[i]
      /\ audit'[Len(audit) + 1] = e
  BY AppendProperties, LenProperties
<1> DEFINE way == <<e.event>>
           at == [k \in {1} |-> Len(audit) + 1]
<1>2. DOMAIN way = {1} /\ way[1] = e.event
  OBVIOUS
<1>3. at \in [DOMAIN way -> DOMAIN audit'] /\ at[1] = Len(audit) + 1
  BY <1>1, <1>2
<1> HIDE DEF way, at
<1>4. \A j, k \in DOMAIN way : j < k => at[j] < at[k]
  BY <1>2
<1>5. {i \in DOMAIN audit' : audit'[i].session = e.session} = {Len(audit) + 1}
  BY <1>1
<1>6. {at[k] : k \in DOMAIN way} = {Len(audit) + 1}
  BY <1>2, <1>3
<1>7. \A k \in DOMAIN way : audit'[at[k]].event = way[k]
  BY <1>1, <1>2, <1>3
<1> QED
  BY <1>3, <1>4, <1>5, <1>6, <1>7 DEF Tells, way

\* The ways are sequences of events, one event apart.
LEMMA WayShapes ==
    /\ <<"created">> \in Seq(Happenings) /\ <<"created", "started">> \in Seq(Happenings)
    /\ Append(<<"created">>, "started") = <<"created", "started">>
    /\ Append(<<"created">>, "aborted") = <<"created", "aborted">>
    /\ Append(<<"created", "started">>, "stopped") = <<"created", "started", "stopped">>
    /\ Append(<<"created", "started">>, "aborted") = <<"created", "started", "aborted">>
<1>1. <<"created">> \in Seq(Happenings) /\ <<"created", "started">> \in Seq(Happenings)
  BY DEF Happenings
<1>2. ASSUME NEW a \in Happenings, NEW b \in Happenings
      PROVE  Append(<<a>>, b) = <<a, b>>
  <2>1. <<a>> \in Seq(Happenings) /\ <<a, b>> \in Seq(Happenings) /\ Len(<<a>>) = 1 /\ Len(<<a, b>>) = 2
    OBVIOUS
  <2>2. /\ Append(<<a>>, b) \in Seq(Happenings) /\ Len(Append(<<a>>, b)) = 2
        /\ Append(<<a>>, b)[1] = a /\ Append(<<a>>, b)[2] = b
    BY <2>1, AppendProperties
  <2>3. <<a, b>>[1] = a /\ <<a, b>>[2] = b
    OBVIOUS
  <2>4. \A i \in 1..2 : Append(<<a>>, b)[i] = <<a, b>>[i]
    BY <2>2, <2>3
  <2> QED
    BY <2>1, <2>2, <2>4, SeqEqual
<1>3. ASSUME NEW a \in Happenings, NEW b \in Happenings, NEW c \in Happenings
      PROVE  Append(<<a, b>>, c) = <<a, b, c>>
  <2>1. <<a, b>> \in Seq(Happenings) /\ <<a, b, c>> \in Seq(Happenings) /\ Len(<<a, b>>) = 2 /\ Len(<<a, b, c>>) = 3
    OBVIOUS
  <2>2. /\ Append(<<a, b>>, c) \in Seq(Happenings) /\ Len(Append(<<a, b>>, c)) = 3
        /\ Append(<<a, b>>, c)[1] = a /\ Append(<<a, b>>, c)[2] = b /\ Append(<<a, b>>, c)[3] = c
    BY <2>1, AppendProperties
  <2>3. <<a, b, c>>[1] = a /\ <<a, b, c>>[2] = b /\ <<a, b, c>>[3] = c
    OBVIOUS
  <2>4. \A i \in 1..3 : Append(<<a, b>>, c)[i] = <<a, b, c>>[i]
    BY <2>2, <2>3
  <2> QED
    BY <2>1, <2>2, <2>4, SeqEqual
<1> QED
  BY <1>1, <1>2, <1>3 DEF Happenings

\* An allowed operation goes on along a way.
LEMMA WayGoesOn ==
    ASSUME NEW op \in TransitionOps, NEW l \in Allowed(op), NEW way \in Ways(l)
    PROVE  /\ way \in Seq(Happenings)
           /\ Append(way, EventOf(op)) \in
                Ways(IF op = "start" THEN "active" ELSE IF op = "stop" THEN "stopped" ELSE "aborted")
<1>1. CASE op = "start"
  <2>1. l = "draft" /\ EventOf(op) = "started"
    BY <1>1 DEF Allowed, EventOf
  <2>2. way = <<"created">> /\ Ways("active") = {<<"created", "started">>}
    BY <2>1 DEF Ways
  <2> QED
    BY <1>1, <2>1, <2>2, WayShapes
<1>2. CASE op = "stop"
  <2>1. l = "active" /\ EventOf(op) = "stopped"
    BY <1>2 DEF Allowed, EventOf
  <2>2. way = <<"created", "started">> /\ Ways("stopped") = {<<"created", "started", "stopped">>}
    BY <2>1 DEF Ways
  <2> QED
    BY <1>2, <2>1, <2>2, WayShapes
<1>3. CASE op = "abort"
  <2>1. l \in {"draft", "active"} /\ EventOf(op) = "aborted"
    BY <1>3 DEF Allowed, EventOf
  <2>2. way \in {<<"created">>, <<"created", "started">>}
    BY <2>1 DEF Ways
  <2>3. Ways("aborted") = {<<"created", "aborted">>, <<"created", "started", "aborted">>}
    BY DEF Ways
  <2> QED
    BY <1>3, <2>1, <2>2, <2>3, WayShapes
<1> QED
  BY <1>1, <1>2, <1>3 DEF TransitionOps

\* A creation begins a trail, a transition extends one, and a refusal or a
\* replayed answer writes no event.
LEMMA AuditStep == ASSUME IInv, AuditInv, [Next]_vars PROVE AuditInv'
<1>0. /\ TypeOK /\ audit \in Seq(AuditEvent) /\ sessions \in Seq(Session)
      /\ Len(sessions) \in Nat /\ DOMAIN sessions = 1..Len(sessions)
      /\ Len(audit) \in Nat /\ DOMAIN audit = 1..Len(audit)
      /\ \A i \in 1..Len(sessions) : sessions[i] \in Session
      /\ \A i \in 1..Len(audit) : audit[i] \in AuditEvent
  BY LenProperties, ElementOfSeq DEF IInv, TypeOK
<1>1. CASE UNCHANGED <<sessions, stored, audit>>
  BY ZenonT(60), <1>1 DEF AuditInv, AuditTellsLifecycle, Tells, SessionIds
<1>2. ASSUME NEW source \in Sources, NEW spec \in SpecType, NEW key \in Keys \cup {NoKey},
             sessions' = Append(sessions, [source |-> source, spec |-> spec, lifecycle |-> "draft", intent |-> "none"]),
             audit' = Append(audit, [session |-> Len(sessions) + 1, event |-> "created", key |-> key])
      PROVE  AuditInv'
  <2>0. PICK n \in Nat : n = Len(sessions) + 1
    BY <1>0
  <2> DEFINE e == [session |-> n, event |-> "created", key |-> key]
             row == [source |-> source, spec |-> spec, lifecycle |-> "draft", intent |-> "none"]
  <2>1. e \in AuditEvent /\ row \in Session /\ e.session = n /\ n = Len(sessions) + 1 /\ e.event = "created"
          /\ row.lifecycle = "draft"
    BY <2>0 DEF AuditEvent, Session, Lifecycles
  <2>2. audit' = Append(audit, e) /\ sessions' = Append(sessions, row)
    BY <1>2, <2>0
  <2> HIDE DEF e, row
  <2>3. /\ DOMAIN sessions' = 1..(Len(sessions) + 1)
        /\ \A i \in 1..Len(sessions) : sessions'[i] = sessions[i]
        /\ sessions'[Len(sessions) + 1] = row
    BY <1>0, <2>1, <2>2, AppendProperties, LenProperties
  <2>4. /\ DOMAIN audit' = 1..(Len(audit) + 1)
        /\ \A i \in 1..Len(audit) : audit'[i] = audit[i]
        /\ audit'[Len(audit) + 1] = e
    BY <1>0, <2>1, <2>2, AppendProperties, LenProperties
  <2>5. \A i \in DOMAIN audit' : audit'[i].session \in DOMAIN sessions'
    BY <1>0, <2>1, <2>3, <2>4 DEF AuditInv, SessionIds
  <2>6. ASSUME NEW id \in DOMAIN sessions'
        PROVE  \E way \in Ways(sessions'[id].lifecycle) : Tells(id, way)'
    <3>1. CASE id \in 1..Len(sessions)
      <4>1. PICK way \in Ways(sessions[id].lifecycle) : Tells(id, way)
        BY <1>0, <3>1 DEF AuditInv, AuditTellsLifecycle, SessionIds
      <4>2. Tells(id, way)'
        <5>1. e.session # id
          BY <1>0, <2>1, <3>1
        <5> QED
          BY <1>0, <2>1, <2>2, <4>1, <5>1, TellsKept
      <4> QED
        BY <2>3, <3>1, <4>1, <4>2
    <3>2. CASE id = Len(sessions) + 1
      <4>1. \A i \in DOMAIN audit : audit[i].session # e.session
        BY <1>0, <2>1 DEF AuditInv, SessionIds
      <4>2. Tells(e.session, <<e.event>>)'
        BY <1>0, <2>1, <2>2, <4>1, TellsFirst
      <4>3. <<e.event>> \in Ways("draft")
        BY <2>1 DEF Ways
      <4>4. Tells(id, <<e.event>>)'
        BY <2>1, <3>2, <4>2
      <4> QED
        BY <2>1, <2>3, <3>2, <4>3, <4>4
    <3> QED
      BY <1>0, <2>3, <3>1, <3>2
  <2> QED
    BY <2>5, <2>6 DEF AuditInv, AuditTellsLifecycle, SessionIds
<1>3. ASSUME NEW op \in TransitionOps, NEW id \in DOMAIN sessions, NEW key \in Keys \cup {NoKey},
             sessions[id].lifecycle \in Allowed(op),
             sessions' = [sessions EXCEPT ![id] = Updated(op, sessions[id])],
             audit' = Append(audit, [session |-> id, event |-> EventOf(op), key |-> key])
      PROVE  AuditInv'
  <2> DEFINE e == [session |-> id, event |-> EventOf(op), key |-> key]
             row == Updated(op, sessions[id])
             l == IF op = "start" THEN "active" ELSE IF op = "stop" THEN "stopped" ELSE "aborted"
  <2>1. /\ row \in Session /\ row.lifecycle = l /\ EventOf(op) \in {"started", "stopped", "aborted"}
        /\ id \in Nat
    BY <1>0, UpdatedRow
  <2>2. e \in AuditEvent /\ e.session = id /\ e.event = EventOf(op)
    BY <2>1 DEF AuditEvent
  <2>3. audit' = Append(audit, e) /\ sessions' = [sessions EXCEPT ![id] = row]
    BY <1>3
  <2> HIDE DEF e, row, l
  <2>4. /\ DOMAIN sessions' = DOMAIN sessions
        /\ \A i \in DOMAIN sessions : i # id => sessions'[i] = sessions[i]
        /\ sessions'[id] = row
    BY <1>0, <2>3
  <2>5. /\ DOMAIN audit' = 1..(Len(audit) + 1)
        /\ \A i \in 1..Len(audit) : audit'[i] = audit[i]
        /\ audit'[Len(audit) + 1] = e
    BY <1>0, <2>2, <2>3, AppendProperties, LenProperties
  <2>6. \A i \in DOMAIN audit' : audit'[i].session \in DOMAIN sessions'
    BY <1>0, <2>2, <2>4, <2>5 DEF AuditInv, SessionIds
  <2>7. ASSUME NEW s \in DOMAIN sessions'
        PROVE  \E way \in Ways(sessions'[s].lifecycle) : Tells(s, way)'
    <3>1. PICK way \in Ways(sessions[s].lifecycle) : Tells(s, way)
      BY <2>4 DEF AuditInv, AuditTellsLifecycle, SessionIds
    <3>2. CASE s # id
      <4>1. Tells(s, way)'
        BY <1>0, <2>2, <2>3, <3>1, <3>2, TellsKept
      <4> QED
        BY <2>4, <3>1, <3>2, <4>1
    <3>3. CASE s = id
      <4>1. way \in Seq(Happenings) /\ Append(way, e.event) \in Ways(l)
        BY <1>3, <2>2, <3>1, <3>3, WayGoesOn DEF l
      <4>2. Tells(e.session, Append(way, e.event))'
        BY <1>0, <2>2, <2>3, <3>1, <3>3, <4>1, TellsMore
      <4>3. Tells(s, Append(way, e.event))'
        BY <2>2, <3>3, <4>2
      <4> QED
        BY <2>1, <2>4, <3>3, <4>1, <4>3
    <3> QED
      BY <3>2, <3>3
  <2> QED
    BY <2>6, <2>7 DEF AuditInv, AuditTellsLifecycle, SessionIds
<1>4. ASSUME NEW source \in Sources, NEW spec \in SpecType, NEW key \in Keys \cup {NoKey},
             Create(source, spec, key)
      PROVE  AuditInv'
  BY <1>1, <1>2, <1>4 DEF Create, AnswerStored, Refuse, Record
<1>5. ASSUME NEW op \in Operations \ {"create"}, NEW id \in 1..MaxSessions, NEW key \in Keys \cup {NoKey},
             Transition(op, id, key)
      PROVE  AuditInv'
  <2>1. op \in TransitionOps
    BY DEF Operations, TransitionOps
  <2> QED
    BY <1>1, <1>3, <1>5, <2>1 DEF Transition, AnswerStored, Refuse, Record, SessionIds
<1> QED
  BY <1>1, <1>4, <1>5 DEF Next, vars

-----------------------------------------------------------------------------
(* The theorems.                                                           *)

\* The lifecycle tables keep their types (TypeOK), for every value of the
\* constants.
THEOREM TypeCorrect == Spec => []TypeOK
<1>1. IInv => TypeOK
  BY DEF IInv
<1> QED
  BY <1>1, InitInvariant, StepInvariant, PTL DEF Spec

\* start_session never gives a source a second active session.
THEOREM OneActive == Spec => []OneActivePerSource
<1>1. IInv => OneActivePerSource
  BY DEF IInv
<1> QED
  BY <1>1, InitInvariant, StepInvariant, PTL DEF Spec

\* Retries of a keyed request take effect at most once, and stored keys and
\* audit events always come in pairs.
THEOREM ExactlyOnce == Spec => [](KeyedOnce /\ KeysMatchAudit)
<1>1. IInv => KeyedOnce /\ KeysMatchAudit
  BY DEF IInv
<1> QED
  BY <1>1, InitInvariant, StepInvariant, PTL DEF Spec

\* The three tables tell one story: _write_audit's events of a session are exactly
\* the way to its lifecycle, in order, however requests are retried and race.
THEOREM AuditTold == Spec => []AuditConsistent
<1>1. Init => AuditInv
  BY DEF Init, AuditInv, AuditTellsLifecycle, SessionIds
<1>2. IInv /\ AuditInv /\ [Next]_vars => AuditInv'
  BY AuditStep
<1>3. IInv /\ AuditInv => AuditConsistent
  BY DEF IInv, AuditInv, AuditConsistent
<1> QED
  BY <1>1, <1>2, <1>3, InitInvariant, StepInvariant, PTL DEF Spec

\* A replayed answer is a state the session really was in.
THEOREM StoredAnswersTrue == Spec => []AnswersWereTrue
<1>1. IInv => AnswersWereTrue
  BY DEF IInv
<1> QED
  BY <1>1, InitInvariant, StepInvariant, PTL DEF Spec

\* A closed session never reopens and no session is ever lost: what the ingest
\* worker assumes of the lifecycle it polls.
THEOREM LifecycleForward == Spec => ClosedIsFinal
<1>1. IInv /\ [Next]_vars => [OnlyForward]_vars
  BY StepInvariant
<1> QED
  BY <1>1, InitInvariant, StepInvariant, PTL DEF Spec, ClosedIsFinal, OnlyForward
=============================================================================
