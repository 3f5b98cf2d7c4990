-------------------------- MODULE WebhookReceiver ---------------------------
(***************************************************************************)
(* The webhook endpoint (receiver.py): what one delivery does to the       *)
(* shared state, and what the server that sent it is told.                 *)
(*                                                                         *)
(* Handlers are coroutines on one event loop.  A handler runs from one     *)
(* await to the next without interruption, and has two awaits: the body of *)
(* the request (receiver.py:98) and, for an event, the schedule sink       *)
(* (:239).  So a delivery is received, then either answered in one step or *)
(* left awaiting the sink while other handlers run, then answered.         *)
(*                                                                         *)
(* The sink hands the event to the workflow runtime.  It is external: it   *)
(* may accept the event and return, accept it and raise, or only raise.    *)
(* The server is external too and may post any request on any connection,  *)
(* the same event on two of them included.  What the subscription manager  *)
(* does to the shared state is reduced to the calls it makes.              *)
(***************************************************************************)
EXTENDS AgentEventState

CONSTANTS Conn,            \* connections the endpoint serves at once
          Event,           \* event ids
          Request,         \* the requests the server may post
          ResponseCursor,  \* cursors of subscribe responses
          MaxWakes,        \* bound: workflows started per event
          MaxRaises        \* bound: times the sink starts one and then raises

Kind == {"verification", "gap", "terminated", "unknown", "event",
         "odd event", "malformed event", "malformed body"}

\* The bodies that are no control envelope: event deliveries, good or bad.
EventKind == {"event", "odd event", "malformed event"}

\* A token of the signature header: its scheme, the key of its tag, and whether
\* the tag is over this request's id, timestamp and body.
Token == [scheme: {"v1", "other"}, key: Secret, intact: BOOLEAN]

\* What a request is to the handler: the kind of its body, its signature tokens
\* (none if a header is missing), whether its timestamp is in the freshness
\* window, and the event id and cursor of its body.  An odd event has an id no
\* dictionary takes as a key: a list or an object.
RequestType == [kind: Kind, signatures: SUBSET Token, fresh: BOOLEAN,
                event: Event, cursor: Cursor \cup {None}]

ASSUME RequestAssumption == Request \subseteq RequestType
ASSUME ResponseCursorAssumption == ResponseCursor \subseteq Cursor
ASSUME BoundAssumption == MaxWakes \in Nat /\ MaxRaises \in Nat

\* The endpoint serves finitely many connections, and a stream, as far as it has
\* come, has finitely many ids: what is counted below can be counted.
ASSUME FiniteAssumption == IsFiniteSet(Conn) /\ IsFiniteSet(Event)

VARIABLES sub,       \* AgentEventState._sub
          seen,      \* AgentEventState._seen
          schedule,  \* whether AgentEventState.schedule is set
          conn,      \* per connection: the handler's phase, its request, its answer
          woken,     \* workflows the runtime has started, per event
          raised     \* of these, those whose start was reported as a failure

shared == <<sub, seen, schedule>>
runtime == <<woken, raised>>
vars == <<sub, seen, schedule, conn, woken, raised>>

Phase == {"idle", "received", "scheduling", "accepted", "answered"}
Status == {0, 200, 400, 401, 404, 500, 503}   \* 0: no answer yet

Idle == [phase |-> "idle", request |-> {}, status |-> 0]

Init == /\ sub = {}
        /\ seen = <<>>
        /\ schedule = FALSE
        /\ conn = [c \in Conn |-> Idle]
        /\ woken = [e \in Event |-> 0]
        /\ raised = [e \in Event |-> 0]
-----------------------------------------------------------------------------
(* One step of a handler: what it reads, and how it ends. *)

RequestOf(c) == CHOOSE r \in Request : conn[c].request = {r}

\* The handler of c has the body and goes on to its end or its next await.
Received(c) == conn[c].phase = "received"

Answer_NoStatus(c, status) == conn' = [conn EXCEPT ![c].phase = "answered"]  \* mutant
Answer(c, status) ==
    conn' = [conn EXCEPT ![c].phase = "answered", ![c].status = status]

\* Answered, and nothing else done.
Reply(c, status) == Answer(c, status) /\ UNCHANGED <<shared, runtime>>

Await(c, phase) == conn' = [conn EXCEPT ![c].phase = phase]

\* verify: the keys for which one of the tokens holds, whatever the others are
SignedBy(r) == {t.key : t \in {u \in r.signatures : u.scheme = "v1" /\ u.intact}}

\* _verify_signature: signed by the tracked secret, and fresh
VerifySignature(r) == SecretFor(sub) \subseteq SignedBy(r) /\ r.fresh

Routable == Tracked(sub)

\* Past the three checks every delivery has to pass, with a body of this kind.
Dispatched(c, kind) == /\ Received(c)
                       /\ RequestOf(c).kind = kind
                       /\ Routable
                       /\ VerifySignature(RequestOf(c))
-----------------------------------------------------------------------------
(* handle_webhook up to the dispatch *)

RejectUnroutable(c) == Received(c) /\ ~Routable /\ Reply(c, 404)

RejectUnverified(c) ==
    Received(c) /\ Routable /\ ~VerifySignature(RequestOf(c)) /\ Reply(c, 401)

RejectMalformedBody(c) == Dispatched(c, "malformed body") /\ Reply(c, 400)
-----------------------------------------------------------------------------
(* Control envelopes *)

HandleVerification(c) == Dispatched(c, "verification") /\ Reply(c, 200)

HandleGap(c) ==
    /\ Dispatched(c, "gap")
    /\ sub' = SetCursor(sub, RequestOf(c).cursor)
    /\ Answer(c, 200)
    /\ UNCHANGED <<seen, schedule, runtime>>

\* No module of the program sets `request_resubscribe`, so the envelope is
\* acknowledged and that is all.
HandleTerminated(c) == Dispatched(c, "terminated") /\ Reply(c, 200)

IgnoreUnknownControl(c) == Dispatched(c, "unknown") /\ Reply(c, 200)
-----------------------------------------------------------------------------
(* _handle_event, up to the await of the sink *)

RejectMalformedEvent(c) == Dispatched(c, "malformed event") /\ Reply(c, 400)

\* External: is_seen raises TypeError, which nobody catches; the framework
\* answers, and the server will try again.
RaiseOnOddEvent(c) == Dispatched(c, "odd event") /\ Reply(c, 500)

AckDuplicate(c) ==
    LET e == RequestOf(c).event IN
    /\ Dispatched(c, "event")
    /\ IsSeen(seen, e)
    /\ seen' = RefreshIfSeen(seen, e)
    /\ Answer(c, 200)
    /\ UNCHANGED <<sub, schedule, runtime>>

AskRetryUntilWired(c) ==
    /\ Dispatched(c, "event")
    /\ ~IsSeen(seen, RequestOf(c).event)
    /\ ~schedule
    /\ Reply(c, 503)

\* Past the dedup check, with a sink to wait for.
Fresh(c) == /\ Dispatched(c, "event")
            /\ ~IsSeen(seen, RequestOf(c).event)
            /\ schedule

AwaitSchedule_MarksFirst(c) ==   \* mutant: the id is recorded before the await
    /\ Fresh(c) /\ Await(c, "scheduling")
    /\ seen' = MarkSeen(seen, RequestOf(c).event) /\ UNCHANGED <<sub, schedule, runtime>>

AwaitSchedule_PersistsFirst(c) ==   \* mutant: and so is the cursor
    /\ Fresh(c) /\ Await(c, "scheduling")
    /\ sub' = SetCursor(sub, RequestOf(c).cursor) /\ UNCHANGED <<seen, schedule, runtime>>

AwaitSchedule_Unchecked(c) ==   \* mutant: the dedup check is missing
    /\ Dispatched(c, "event") /\ schedule
    /\ Await(c, "scheduling") /\ UNCHANGED <<shared, runtime>>

AwaitSchedule(c) ==
    /\ Fresh(c)
    /\ Await(c, "scheduling")
    /\ UNCHANGED <<shared, runtime>>
-----------------------------------------------------------------------------
(* The sink, and _handle_event after the await *)

\* External: the runtime starts a workflow for the event.
RuntimeAccepts(c) ==
    LET e == RequestOf(c).event IN
    /\ conn[c].phase = "scheduling"
    /\ woken[e] < MaxWakes
    /\ woken' = [woken EXCEPT ![e] = @ + 1]
    /\ Await(c, "accepted")
    /\ UNCHANGED <<shared, raised>>

ScheduleReturns_Unmarked(c) ==   \* mutant: the id is never recorded
    /\ conn[c].phase = "accepted" /\ Answer(c, 200)
    /\ sub' = SetCursor(sub, RequestOf(c).cursor) /\ UNCHANGED <<seen, schedule, runtime>>

ScheduleReturns(c) ==
    LET r == RequestOf(c) IN
    /\ conn[c].phase = "accepted"
    /\ seen' = MarkSeen(seen, r.event)
    /\ sub' = SetCursor(sub, r.cursor)
    /\ Answer(c, 200)
    /\ UNCHANGED <<schedule, runtime>>

\* mutant: a sink that raised is acknowledged like one that returned
ScheduleFails_Acks(c) == conn[c].phase = "scheduling" /\ Reply(c, 200)

\* The sink raises before the runtime has the event ...
ScheduleFails(c) == conn[c].phase = "scheduling" /\ Reply(c, 503)

\* ... or after: the workflow is started and the handler takes it for failed.
ScheduleRaisesLate(c) ==
    LET e == RequestOf(c).event IN
    /\ conn[c].phase = "accepted"
    /\ raised[e] < MaxRaises
    /\ raised' = [raised EXCEPT ![e] = @ + 1]
    /\ Answer(c, 503)
    /\ UNCHANGED <<shared, woken>>
-----------------------------------------------------------------------------
(* The environment: the server, the subscription manager, the activation *)

Post(c, r) ==
    /\ conn[c].phase = "idle"
    /\ conn' = [conn EXCEPT ![c].phase = "received", ![c].request = {r}]
    /\ UNCHANGED <<shared, runtime>>

\* The answer leaves; whether it reaches the server is not the handler's affair.
Finish(c) ==
    /\ conn[c].phase = "answered"
    /\ conn' = [conn EXCEPT ![c] = Idle]
    /\ UNCHANGED <<shared, runtime>>

\* start() publishes one secret, before it subscribes.
ManagerPublishes(secret) ==
    /\ ~Tracked(sub)
    /\ sub' = SetPending(secret)
    /\ UNCHANGED <<seen, schedule, conn, runtime>>

\* start() and every refresh store the response of events/subscribe: its id, and
\* its refreshBefore and cursor if it has them.
ManagerActivates(id, refreshBefore, cursor) ==
    /\ Tracked(sub)
    /\ sub' = SetActive(sub, id, refreshBefore, cursor)
    /\ UNCHANGED <<seen, schedule, conn, runtime>>

WireSchedule ==
    /\ ~schedule
    /\ schedule' = TRUE
    /\ UNCHANGED <<sub, seen, conn, runtime>>
-----------------------------------------------------------------------------
Handler(c) ==
    \/ RejectUnroutable(c)    \/ RejectUnverified(c)      \/ RejectMalformedBody(c)
    \/ HandleVerification(c)  \/ HandleGap(c)             \/ HandleTerminated(c)
    \/ IgnoreUnknownControl(c) \/ RejectMalformedEvent(c) \/ RaiseOnOddEvent(c)
    \/ AckDuplicate(c)
    \/ AskRetryUntilWired(c)  \/ AwaitSchedule(c)         \/ ScheduleReturns(c)
    \/ ScheduleFails(c)       \/ ScheduleRaisesLate(c)

Next ==
    \/ \E c \in Conn : \/ Handler(c)
                       \/ RuntimeAccepts(c)
                       \/ Finish(c)
                       \/ \E r \in Request : Post(c, r)
    \/ \E secret \in Secret : ManagerPublishes(secret)
    \/ \E id \in SubId, g \in Grant \cup {None}, k \in ResponseCursor \cup {None} :
           ManagerActivates(id, g, k)
    \/ WireSchedule

Spec == Init /\ [][Next]_vars
-----------------------------------------------------------------------------
ConnType == [phase: Phase, request: {{}} \cup {{r} : r \in Request}, status: Status]

\* Every connection is in a phase that fits what it holds: a request from its
\* receipt to its answer, a status exactly when answered.
TypeOK ==
    /\ TrackedType(sub)
    /\ seen \in Seq(Event)
    /\ Len(seen) <= Capacity
    /\ schedule \in BOOLEAN
    /\ conn \in [Conn -> ConnType]
    /\ \A c \in Conn : /\ conn[c].phase = "idle" <=> conn[c].request = {}
                       /\ conn[c].phase = "answered" <=> conn[c].status # 0
    /\ woken \in [Event -> Nat]
    /\ raised \in [Event -> Nat]

\* No event is dropped: a 2xx for an event delivery, fresh or duplicate, is given
\* only after the runtime started a workflow for it, and never if the event has
\* no id that can be recorded.  The order of receiver.py:234-245 (schedule first,
\* commit dedup only on success) is there for this.
AckedEventIsWoken ==
    \A c \in Conn :
        conn[c].phase = "answered" /\ conn[c].status = 200 =>
            LET r == RequestOf(c)
            IN  r.kind \in EventKind => r.kind = "event" /\ woken[r.event] > 0

\* The cursor a later subscribe resumes from was earned: it is one the server
\* answered a subscribe with, or sent in a gap envelope, or sent with an event
\* that a workflow was started for.  A cursor persisted before the await
\* (receiver.py:239-245) would skip the event if the agent then failed.
CursorIsEarned ==
    \A s \in sub :
        s.cursor = None \/ s.cursor \in ResponseCursor \/
            \E r \in Request :
                /\ r.cursor = s.cursor /\ r.fresh /\ s.secret \in SignedBy(r)
                /\ r.kind = "gap" \/ (r.kind = "event" /\ woken[r.event] > 0)

\* The check of the dedup record and its update are on two sides of an await
\* (receiver.py:223 and :244), so an event may be woken more than once; but not
\* without limit: every connection may be past the check when the first of them
\* records the id, and each start that is reported as failed allows one more.
DuplicatesAreBounded ==
    Capacity >= Cardinality(Event) =>
        \A e \in Event : woken[e] <= Cardinality(Conn) + raised[e]

\* An event is settled when it is recorded and no handler is past the check.
Settled(e) ==
    /\ IsSeen(seen, e)
    /\ \A c \in Conn : conn[c].phase = "scheduling" => RequestOf(c).event # e

\* A settled event stays settled and is never woken again, whatever is posted,
\* as long as the dictionary holds every id (receiver.py:223-226).
SettledStaysSettled ==
    [][Capacity >= Cardinality(Event) =>
        \A e \in Event : Settled(e) => Settled(e)' /\ woken'[e] = woken[e]]_vars

\* "scheduled exactly once despite two deliveries" (tests/receiver_test.py:344):
\* the test delivers the second after the first was answered.
ScheduledOnce == \A e \in Event : woken[e] <= 1

=============================================================================
