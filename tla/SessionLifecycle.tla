-------------------------- MODULE SessionLifecycle --------------------------
(***************************************************************************)
(* Analysis sessions and their engineer operations (lifecycle.py): create, *)
(* start, stop and abort, each one BEGIN IMMEDIATE transaction that        *)
(* replays a stored answer, refuses, or commits the row, its audit event   *)
(* and its idempotency key together.                                       *)
(*                                                                         *)
(* Clients retry and race freely: any request may arrive at any time with  *)
(* any key, so a lost response, a duplicated call and two engineers at the *)
(* same button are all behaviours of Next.                                 *)
(***************************************************************************)
EXTENDS Naturals, Sequences

CONSTANTS
    Sources,        \* slugs of TIMING_SOURCE_CATALOG
    Keys,           \* idempotency keys clients use
    NoKey,          \* a call without a key
    Modes, Durations, Pits,     \* values clients put in a create request
    Absent,         \* None in a create request
    MaxSessions,    \* bound on analysis_sessions
    MaxRequests     \* bound on audited operations

ASSUME NoKeyAssumption == NoKey \notin Keys
ASSUME MaxAssumption == MaxSessions \in Nat /\ MaxRequests \in Nat

VARIABLES
    sessions,   \* analysis_sessions in creation order
    stored,     \* session_idempotency_keys rows
    audit,      \* session_audit_events in commit order, each with the key that caused it
    answer      \* what the last request returned

vars == <<sessions, stored, audit, answer>>

Lifecycles == {"draft", "active", "stopped", "aborted"}
RaceDurations == {14400, 21600, 43200, 86400}
RequiredPits == 2..8

SpecType == [mode : Modes, duration : Durations \cup {Absent}, pits : Pits \cup {Absent}]

Session == [source : Sources, spec : SpecType, lifecycle : Lifecycles,
            intent : {"none", "operator_stop", "operator_abort"}]

Operations == {"create", "start", "stop", "abort"}
Requests == [op : {"create"}, source : Sources, spec : SpecType]
            \cup [op : Operations \ {"create"}, session : Nat]
StoredKey == [key : Keys, request : Requests, session : Nat, result : Session]
AuditEvent == [session : Nat, event : {"created", "started", "stopped", "aborted"},
               key : Keys \cup {NoKey}]

SessionIds == DOMAIN sessions

\* The type invariant of the lifecycle tables.
TypeOK ==
    /\ sessions \in Seq(Session)
    /\ stored \subseteq StoredKey
    /\ audit \in Seq(AuditEvent)

Init ==
    /\ sessions = <<>>
    /\ stored = {}
    /\ audit = <<>>
    /\ answer = [kind |-> "none"]

-----------------------------------------------------------------------------
(* Request validation, before any transaction.                             *)

\* _validate_session_spec: race needs both parameters, other modes take none.
ValidSpec(spec) ==
    IF spec.mode = "race"
    THEN spec.duration \in RaceDurations /\ spec.pits \in RequiredPits
    ELSE spec.mode \in {"practice", "qualifying"}
         /\ spec.duration = Absent /\ spec.pits = Absent

\* Mutant: only a creation is recognised as a retry.
StoredUnderCreate(key) == {row \in stored : row.key = key /\ row.request.op = "create"}

\* _idempotency_replay: rows stored under this key (none for a call without one).
StoredUnder(key) == {row \in stored : row.key = key}

Refuse(reason) ==
    /\ answer' = [kind |-> reason]
    /\ UNCHANGED <<sessions, stored, audit>>

\* A key seen before answers from its stored result, or conflicts.
AnswerStored(request, key) ==
    \E row \in StoredUnder(key) :
        IF row.request = request
        THEN /\ answer' = [kind |-> "replayed", result |-> row.result]
             /\ UNCHANGED <<sessions, stored, audit>>
        ELSE Refuse("IdempotencyConflict")

\* Mutant: the key of an applied request is not stored.
RecordUnkeyed(request, key, id, event, result) ==
    /\ audit' = Append(audit, [session |-> id, event |-> event, key |-> key])
    /\ answer' = [kind |-> "done", result |-> result]
    /\ UNCHANGED stored

\* _write_audit and _store_idempotency, in the transaction of the row change.
Record(request, key, id, event, result) ==
    /\ audit' = Append(audit, [session |-> id, event |-> event, key |-> key])
    /\ stored' = IF key = NoKey THEN stored
                 ELSE stored \cup {[key |-> key, request |-> request,
                                    session |-> id, result |-> result]}
    /\ answer' = [kind |-> "done", result |-> result]

-----------------------------------------------------------------------------

\* create_session.
Create(source, spec, key) ==
    LET request == [op |-> "create", source |-> source, spec |-> spec]
        row == [source |-> source, spec |-> spec, lifecycle |-> "draft",
                intent |-> "none"]
    IN \/ ~ValidSpec(spec) /\ Refuse("ValidationError")
       \/ ValidSpec(spec) /\ AnswerStored(request, key)
       \/ /\ ValidSpec(spec) /\ StoredUnder(key) = {}
          /\ Len(sessions) < MaxSessions /\ Len(audit) < MaxRequests
          /\ sessions' = Append(sessions, row)
          /\ Record(request, key, Len(sessions) + 1, "created", row)

\* Mutant: the preflight looks at the session itself instead of its source.
SourceBusyOwn(id) == sessions[id].lifecycle = "active"

\* The preflight SELECT behind ActiveSessionConflict.
SourceBusy(id) ==
    \E other \in SessionIds :
        sessions[other].source = sessions[id].source /\ sessions[other].lifecycle = "active"

\* Mutant: a stopped session may be started again.
AllowedRestart(op) ==
    CASE op = "start" -> {"draft", "stopped"}
      [] op = "stop"  -> {"active"}
      [] op = "abort" -> {"draft", "active"}

\* Mutant: abort forgets that a stopped session is closed.
AllowedLateAbort(op) ==
    CASE op = "start" -> {"draft"}
      [] op = "stop"  -> {"active"}
      [] op = "abort" -> {"draft", "active", "stopped"}

\* From which lifecycles an operation may start.
Allowed(op) ==
    CASE op = "start" -> {"draft"}
      [] op = "stop"  -> {"active"}
      [] op = "abort" -> {"draft", "active"}

\* The row after the UPDATE of an operation.
Updated(op, row) ==
    CASE op = "start" -> [row EXCEPT !.lifecycle = "active", !.intent = "none"]
      [] op = "stop"  -> [row EXCEPT !.lifecycle = "stopped", !.intent = "operator_stop"]
      [] op = "abort" -> [row EXCEPT !.lifecycle = "aborted", !.intent = "operator_abort"]

EventOf(op) == CASE op = "start" -> "started"
                 [] op = "stop"  -> "stopped"
                 [] op = "abort" -> "aborted"

\* _transition_session.
Transition(op, id, key) ==
    LET request == [op |-> op, session |-> id]
    IN \/ AnswerStored(request, key)
       \/ StoredUnder(key) = {} /\ id \notin SessionIds /\ Refuse("SessionNotFound")
       \/ /\ StoredUnder(key) = {} /\ id \in SessionIds
          /\ \/ /\ sessions[id].lifecycle \notin Allowed(op)
                /\ Refuse("TransitionError")
             \/ /\ sessions[id].lifecycle \in Allowed(op)
                /\ op = "start" /\ SourceBusy(id)
                /\ Refuse("ActiveSessionConflict")
             \/ /\ sessions[id].lifecycle \in Allowed(op)
                /\ ~(op = "start" /\ SourceBusy(id))
                /\ Len(audit) < MaxRequests
                /\ sessions' = [sessions EXCEPT ![id] = Updated(op, @)]
                /\ Record(request, key, id, EventOf(op), Updated(op, sessions[id]))

Next ==
    \E key \in Keys \cup {NoKey} :
        \/ \E source \in Sources, spec \in SpecType : Create(source, spec, key)
        \/ \E op \in Operations \ {"create"}, id \in 1..MaxSessions : Transition(op, id, key)

Spec == Init /\ [][Next]_vars

-----------------------------------------------------------------------------

\* No source ever has two active sessions, however starts race or are retried.
OneActivePerSource ==
    \A s, t \in SessionIds :
        sessions[s].lifecycle = "active" /\ sessions[t].lifecycle = "active"
        /\ sessions[s].source = sessions[t].source => s = t

\* A keyed request takes effect at most once, whatever the number of retries
\* and whatever other requests reuse its key.
KeyedOnce ==
    \A i, j \in DOMAIN audit :
        audit[i].key = audit[j].key /\ audit[i].key # NoKey => i = j

\* A refused request consumes nothing and an applied one is always recorded:
\* every stored key has its audit event, and every keyed event its stored key.
KeysMatchAudit ==
    /\ \A row \in stored : \E i \in DOMAIN audit :
          audit[i].key = row.key /\ audit[i].session = row.session
    /\ \A i \in DOMAIN audit :
          audit[i].key # NoKey => \E row \in stored :
             row.key = audit[i].key /\ row.session = audit[i].session

\* The ways to a lifecycle, as the audit events they leave.
Ways(lifecycle) ==
    CASE lifecycle = "draft"   -> {<<"created">>}
      [] lifecycle = "active"  -> {<<"created", "started">>}
      [] lifecycle = "stopped" -> {<<"created", "started", "stopped">>}
      [] lifecycle = "aborted" -> {<<"created", "aborted">>, <<"created", "started", "aborted">>}

\* The audit events of a session are those of the way, in its order and no others.
Tells(id, way) ==
    \E at \in [DOMAIN way -> DOMAIN audit] :
        /\ \A j, k \in DOMAIN way : j < k => at[j] < at[k]
        /\ {i \in DOMAIN audit : audit[i].session = id} = {at[k] : k \in DOMAIN way}
        /\ \A k \in DOMAIN way : audit[at[k]].event = way[k]

\* The audit trail of a session alone tells its lifecycle.
AuditTellsLifecycle ==
    \A id \in SessionIds : \E way \in Ways(sessions[id].lifecycle) : Tells(id, way)

\* The three tables tell one story: their rows are typed, keys and events match,
\* and the trail of a session is the way to its lifecycle.
AuditConsistent == TypeOK /\ KeysMatchAudit /\ AuditTellsLifecycle

\* A stored answer is a state the session really was in: the session never
\* stands behind what a replayed response promised.
Reached(l) == CASE l = "draft"  -> Lifecycles
                [] l = "active" -> Lifecycles \ {"draft"}
                [] l \in {"stopped", "aborted"} -> {l}
AnswersWereTrue ==
    \A row \in stored :
        /\ row.session \in SessionIds
        /\ sessions[row.session].lifecycle \in Reached(row.result.lifecycle)
        /\ sessions[row.session].source = row.result.source
        /\ sessions[row.session].spec = row.result.spec

\* The assumption the ingest worker rests on: a session is never deleted, a
\* closed one never reopens, and an active one never becomes a draft again.
ClosedIsFinal ==
    [][\A id \in SessionIds :
          id \in DOMAIN sessions'
          /\ sessions'[id].lifecycle \in Reached(sessions[id].lifecycle)]_vars
=============================================================================
