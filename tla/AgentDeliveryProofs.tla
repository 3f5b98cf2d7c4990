------------------------ MODULE AgentDeliveryProofs -------------------------
(***************************************************************************)
(* For a stream of any length, any number of connections, faults, waivers  *)
(* and crashes: every position the next subscription could begin at is     *)
(* safe, the server takes nothing for delivered that was not woken, and    *)
(* agent and server implement the inbox.                                   *)
(*                                                                         *)
(* The provers cannot cite the theorems of an instance, so what is needed  *)
(* of the receiver is established here, for its steps in this composition. *)
(***************************************************************************)
EXTENDS AgentDelivery, SubscriptionManagerProofs, DedupLruProofs, WellFoundedInduction

\* A position from which a subscription may begin: nothing is lost up to it.
Safe(k) == k <= emitted /\ \A e \in 1..k : Handled(e) \/ e \in skipped

\* The receiver: a handler past the check has an event; who is about to commit,
\* or has acknowledged, and every recorded id has its workflow.
HandlersFit ==
    /\ \A c \in Conn : \A r \in conn[c].request :
           /\ conn[c].phase \in {"scheduling", "accepted"} => r.kind = "event"
           /\ \/ conn[c].phase = "accepted"
              \/ conn[c].phase = "answered" /\ conn[c].status = 200 /\ r.kind = "event"
              => woken[r.event] > 0
    /\ \A e \in Event : IsSeen(seen, e) => woken[e] > 0

\* Nothing is ahead of the stream.
InStream ==
    /\ \A e \in Event : woken[e] > 0 => e <= emitted
    /\ acked \cup waived \subseteq 1..emitted
    /\ gap # {} => emitted > 0
    /\ \A c \in Conn : \A r \in conn[c].request : r.kind = "event" => r.event <= emitted

\* Every position anybody holds is safe: the record, a call, a response, the
\* requests in the handlers, whatever their session, and the server.
PositionsAreSafe ==
    /\ \A s \in sub : s.cursor # None => Safe(s.cursor)
    /\ \A c \in call : c.method = "events/subscribe" /\ c.cursor # None => Safe(c.cursor)
    /\ \A k \in reply \cup gap \cup {from} : Safe(k)
    /\ \A c \in Conn : \A r \in conn[c].request : Safe(r.cursor)

\* Which coroutine is where, and what it has then.
ManagerFits ==
    /\ start \in {"subscribe", "returned"} => sub # {} /\ secret # {}
    /\ start \in {"new", "initialize", "list"} => sub = {}
    /\ loop # "none" => start = "returned"
    /\ \A c \in call : c.method = "events/subscribe" =>
           /\ start = "subscribe" \/ loop = "refresh"
           /\ c.cursor = None => start = "subscribe"
    /\ reply # {} => start = "subscribe" \/ loop = "refresh"
    /\ \A k, j \in reply : k = j
    /\ crashes \in 0..MaxCrashes

\* What there is only in a session, and only after the first one; and that an
\* agent that did not fail knows, from then on, where to resume.
SessionsFit ==
    /\ ~live => acked = {} /\ gap = {} /\ hears = {}
    /\ live => subscribed
    /\ ~subscribed => /\ reply = {}
                      /\ \A s \in sub : s.cursor = None
                      /\ \A c \in Conn : conn[c].phase = "idle"
                      /\ waived = 1..emitted
    /\ start = "returned" => subscribed /\ \A s \in sub : s.cursor # None
    /\ crashes = 0 /\ ~GaveUp =>
           /\ skipped = {}
           /\ subscribed => start = "returned" \/ (start = "subscribe" /\ reply # {})

\* The inductive invariant.
IInv == /\ TypeOK
        /\ HandlersFit
        /\ InStream
        /\ PositionsAreSafe
        /\ ServerForgetsNothing
        /\ ManagerFits
        /\ SessionsFit
-----------------------------------------------------------------------------
(* The receiver *)

\* A connection that is not idle has one request.
LEMMA RequestOfIsRequest ==
    ASSUME Receiver!TypeOK, NEW c \in Conn, conn[c].phase # "idle"
    PROVE  /\ Receiver!RequestOf(c) \in Request
           /\ conn[c].request = {Receiver!RequestOf(c)}
<1>1. conn[c] \in Receiver!ConnType /\ conn[c].request # {}
  BY DEF Receiver!TypeOK
<1>2. \E r \in Request : conn[c].request = {r}
  BY <1>1 DEF Receiver!ConnType
<1> QED
  BY <1>2 DEF Receiver!RequestOf

\* What the handlers hold was posted by this server.
LEMMA RequestsAreRequests ==
    ASSUME Receiver!TypeOK
    PROVE  \A c \in Conn : conn[c].request \subseteq Request
BY DEF Receiver!TypeOK, Receiver!ConnType

\* And it posts events and gap envelopes, with positions for cursors.
LEMMA RequestFields ==
    ASSUME NEW r \in Request
    PROVE  r.kind \in {"event", "gap"} /\ r.event \in Event /\ r.cursor \in Cursor
BY DEF Request, Post

\* What a step of the handler of c, or of the runtime for it, comes to.
HandlerMoves(c) ==
    LET r == Receiver!RequestOf(c)
        now == conn'[c]
    IN  /\ conn[c].phase \notin {"idle", "answered"}
        /\ conn' \in [Conn -> Receiver!ConnType]
        /\ \A d \in Conn \ {c} : conn'[d] = conn[d]
        /\ now.request = conn[c].request
        /\ now.phase \in {"scheduling", "accepted", "answered"}
        /\ now.phase = "answered" <=> now.status # 0
        /\ now.phase # "answered" => r.kind = "event"
        /\ now.phase = "accepted" => woken'[r.event] > 0
        /\ now.phase = "answered" /\ now.status = 200 /\ r.kind = "event" =>
               woken'[r.event] > 0
        /\ sub' = sub \/ (sub' = SetCursor(sub, r.cursor) /\ woken' = woken)
        /\ seen' \in Seq(Event) /\ Len(seen') <= Capacity
        /\ \A e \in Event : IsSeen(seen', e) => IsSeen(seen, e) \/ woken[e] > 0
        /\ \/ woken' = woken
           \/ r.kind = "event" /\ woken' = [woken EXCEPT ![r.event] = @ + 1]
        /\ raised' \in [Event -> Nat]
        /\ UNCHANGED schedule

\* A handler that answers.
LEMMA AnswerMoves ==
    ASSUME Receiver!TypeOK, NEW c \in Conn, conn[c].phase \notin {"idle", "answered"},
           NEW status \in Receiver!Status \ {0}, Receiver!Answer(c, status)
    PROVE  /\ conn' \in [Conn -> Receiver!ConnType]
           /\ \A d \in Conn \ {c} : conn'[d] = conn[d]
           /\ conn'[c].request = conn[c].request
           /\ conn'[c].phase = "answered" /\ conn'[c].status = status
<1>1. conn \in [Conn -> Receiver!ConnType]
  BY DEF Receiver!TypeOK
<1>2. [conn[c] EXCEPT !.phase = "answered", !.status = status] \in Receiver!ConnType
  BY <1>1 DEF Receiver!ConnType, Receiver!Phase
<1>3. conn' = [conn EXCEPT ![c] = [conn[c] EXCEPT !.phase = "answered", !.status = status]]
  BY <1>1 DEF Receiver!Answer
<1>4. conn' \in [Conn -> Receiver!ConnType] /\ \A d \in Conn \ {c} : conn'[d] = conn[d]
  BY <1>1, <1>2, <1>3
<1>5. conn'[c] = [conn[c] EXCEPT !.phase = "answered", !.status = status]
  BY <1>1, <1>3
<1> QED
  BY <1>1, <1>4, <1>5 DEF Receiver!ConnType

\* A handler that enters the sink, or whose event the runtime takes.
LEMMA AwaitMoves ==
    ASSUME Receiver!TypeOK, NEW c \in Conn, conn[c].phase \notin {"idle", "answered"},
           NEW phase \in {"scheduling", "accepted"}, Receiver!Await(c, phase)
    PROVE  /\ conn' \in [Conn -> Receiver!ConnType]
           /\ \A d \in Conn \ {c} : conn'[d] = conn[d]
           /\ conn'[c].request = conn[c].request
           /\ conn'[c].phase = phase /\ conn'[c].status = 0
<1>1. conn \in [Conn -> Receiver!ConnType] /\ conn[c].status = 0
  BY DEF Receiver!TypeOK
<1>2. [conn[c] EXCEPT !.phase = phase] \in Receiver!ConnType
  BY <1>1 DEF Receiver!ConnType, Receiver!Phase
<1>3. conn' = [conn EXCEPT ![c] = [conn[c] EXCEPT !.phase = phase]]
  BY <1>1 DEF Receiver!Await
<1>4. conn' \in [Conn -> Receiver!ConnType] /\ \A d \in Conn \ {c} : conn'[d] = conn[d]
  BY <1>1, <1>2, <1>3
<1>5. conn'[c] = [conn[c] EXCEPT !.phase = phase]
  BY <1>1, <1>3
<1> QED
  BY <1>1, <1>4, <1>5 DEF Receiver!ConnType

\* A handler that answers and touches nothing else, or only the count of raises.
LEMMA PlainAnswerMoves ==
    ASSUME TypeOK, NEW c \in Conn, conn[c].phase \notin {"idle", "answered"},
           NEW status \in Receiver!Status \ {0}, Receiver!Answer(c, status),
           UNCHANGED <<sub, seen, schedule, woken>>, raised' \in [Event -> Nat],
           status = 200 => Receiver!RequestOf(c).kind # "event"
    PROVE  HandlerMoves(c)
<1>1. Receiver!TypeOK
  BY DEF TypeOK
<1>2. /\ conn' \in [Conn -> Receiver!ConnType]
      /\ \A d \in Conn \ {c} : conn'[d] = conn[d]
      /\ conn'[c].request = conn[c].request
      /\ conn'[c].phase = "answered" /\ conn'[c].status = status
  BY <1>1, AnswerMoves
<1>3. seen \in Seq(Event) /\ Len(seen) <= Capacity
  BY <1>1 DEF Receiver!TypeOK
<1> QED
  BY <1>2, <1>3 DEF HandlerMoves

\* A handler that replies has done nothing else.
LEMMA ReplyMoves ==
    ASSUME TypeOK, NEW c \in Conn, conn[c].phase \notin {"idle", "answered"},
           NEW status \in {200, 400, 401, 404, 500, 503}, Receiver!Reply(c, status),
           status = 200 => Receiver!RequestOf(c).kind # "event"
    PROVE  HandlerMoves(c)
<1>1. status \in Receiver!Status \ {0}
  BY DEF Receiver!Status
<1>2. Receiver!Answer(c, status) /\ UNCHANGED <<sub, seen, schedule, woken, raised>>
  BY DEF Receiver!Reply, Receiver!shared, Receiver!runtime
<1>3. raised' \in [Event -> Nat]
  BY <1>2 DEF TypeOK, Receiver!TypeOK
<1> QED
  BY <1>1, <1>2, <1>3, PlainAnswerMoves

\* The instance's copies of the state's operators are the operators.
LEMMA SameOperators ==
    /\ \A S : Receiver!TrackedType(S) <=> TrackedType(S)
    /\ \A S, k : Receiver!SetCursor(S, k) = SetCursor(S, k)
    /\ \A ids, e : /\ Receiver!IsSeen(ids, e) <=> IsSeen(ids, e)
                   /\ Receiver!MarkSeen(ids, e) = MarkSeen(ids, e)
                   /\ IsSeen(ids, e) => Receiver!RefreshIfSeen(ids, e) = SeenOrRecord(ids, e)
<1>0. \A S : Receiver!TrackedType(S) <=> TrackedType(S)
  BY Zenon DEF Receiver!TrackedType, TrackedType, Receiver!Subscription, Subscription
<1>1. \A S, k : Receiver!SetCursor(S, k) = SetCursor(S, k)
  BY Zenon DEF Receiver!SetCursor, SetCursor
<1>2. \A ids, e : Receiver!IsSeen(ids, e) <=> IsSeen(ids, e)
  BY Zenon DEF Receiver!IsSeen, IsSeen, Receiver!Contains, Contains
<1>3. \A ids, e : Receiver!MoveToEnd(ids, e) = MoveToEnd(ids, e)
  BY Zenon DEF Receiver!MoveToEnd, MoveToEnd, Receiver!Position, Position,
               Receiver!RemoveAt, RemoveAt
<1>4. \A ids, e : Receiver!Insert(ids, e) = Insert(ids, e)
  BY Zenon DEF Receiver!Insert, Insert, Receiver!Contains, Contains
<1>5. \A ids : Receiver!Evict(ids) = Evict(ids)
  BY Zenon DEF Receiver!Evict, Evict
<1>6. \A ids, e : Receiver!MarkSeen(ids, e) = MarkSeen(ids, e)
  BY <1>3, <1>4, <1>5, Zenon DEF Receiver!MarkSeen, MarkSeen
<1>7. \A ids, e : IsSeen(ids, e) => Receiver!RefreshIfSeen(ids, e) = SeenOrRecord(ids, e)
  BY <1>2, <1>3, Zenon DEF Receiver!RefreshIfSeen, SeenOrRecord
<1> QED
  BY <1>0, <1>1, <1>2, <1>6, <1>7

\* Every branch of handle_webhook (receiver.py:96-140) that this server's
\* requests can take is such a move.
LEMMA HandlerSteps ==
    ASSUME TypeOK, HandlersFit, NEW c \in Conn,
           Receiver!Handler(c) \/ Receiver!RuntimeAccepts(c)
    PROVE  HandlerMoves(c)
<1> DEFINE r == Receiver!RequestOf(c)
<1>1. Receiver!TypeOK
  BY DEF TypeOK
<1>3. conn[c].phase # "idle" => conn[c].request = {r} /\ r \in Request /\ r.event \in Event
  BY <1>1, RequestOfIsRequest, RequestFields
<1>2. /\ seen \in Seq(Event) /\ Len(seen) <= Capacity
      /\ raised \in [Event -> Nat] /\ woken \in [Event -> Nat]
      /\ conn[c].phase \in {"scheduling", "accepted"} => r.kind = "event"
      /\ conn[c].phase = "accepted" => woken[r.event] > 0
  BY <1>1, <1>3 DEF Receiver!TypeOK, HandlersFit
<1>4. CASE \/ Receiver!RejectUnroutable(c) \/ Receiver!RejectUnverified(c)
           \/ Receiver!RejectMalformedBody(c) \/ Receiver!HandleVerification(c)
           \/ Receiver!HandleTerminated(c) \/ Receiver!IgnoreUnknownControl(c)
           \/ Receiver!RejectMalformedEvent(c) \/ Receiver!RaiseOnOddEvent(c)
           \/ Receiver!AskRetryUntilWired(c)
  <2>1. conn[c].phase = "received"
    BY <1>4, Zenon
       DEF Receiver!RejectUnroutable, Receiver!RejectUnverified,
           Receiver!RejectMalformedBody, Receiver!HandleVerification,
           Receiver!HandleTerminated, Receiver!IgnoreUnknownControl,
           Receiver!RejectMalformedEvent, Receiver!RaiseOnOddEvent,
           Receiver!AskRetryUntilWired, Receiver!Dispatched, Receiver!Received
  <2>2. CASE \/ Receiver!RejectUnroutable(c) \/ Receiver!RejectUnverified(c)
             \/ Receiver!RejectMalformedBody(c) \/ Receiver!RejectMalformedEvent(c)
             \/ Receiver!RaiseOnOddEvent(c) \/ Receiver!AskRetryUntilWired(c)
    <3>1. \/ Receiver!Reply(c, 400) \/ Receiver!Reply(c, 401) \/ Receiver!Reply(c, 404)
          \/ Receiver!Reply(c, 500) \/ Receiver!Reply(c, 503)
      BY <2>2, Zenon
         DEF Receiver!RejectUnroutable, Receiver!RejectUnverified,
             Receiver!RejectMalformedBody, Receiver!RejectMalformedEvent,
             Receiver!RaiseOnOddEvent, Receiver!AskRetryUntilWired
    <3> HIDE DEF r
    <3>2. PICK status \in {400, 401, 404, 500, 503} : Receiver!Reply(c, status)
      BY <3>1
    <3>3. status \in {200, 400, 401, 404, 500, 503} /\ status # 200
      OBVIOUS
    <3> QED
      BY <2>1, <3>2, <3>3, ReplyMoves
  <2>3. CASE \/ Receiver!HandleVerification(c) \/ Receiver!HandleTerminated(c)
             \/ Receiver!IgnoreUnknownControl(c)
    <3>1. Receiver!Reply(c, 200)
      BY <2>3, Zenon
         DEF Receiver!HandleVerification, Receiver!HandleTerminated,
             Receiver!IgnoreUnknownControl
    <3>2. r.kind = "verification" \/ r.kind = "terminated" \/ r.kind = "unknown"
      BY <2>3, Zenon
         DEF Receiver!HandleVerification, Receiver!HandleTerminated,
             Receiver!IgnoreUnknownControl, Receiver!Dispatched
    <3>3. r.kind # "event"
      BY <3>2
    <3> QED
      BY <2>1, <3>1, <3>3, ReplyMoves
  <2> QED
    BY <1>4, <2>2, <2>3, Zenon
<1>5. CASE Receiver!ScheduleFails(c)
  <2>1. conn[c].phase = "scheduling" /\ Receiver!Answer(c, 503)
        /\ UNCHANGED <<sub, seen, schedule, woken, raised>>
    BY <1>5 DEF Receiver!ScheduleFails, Receiver!Reply, Receiver!shared, Receiver!runtime
  <2>2. 503 \in Receiver!Status \ {0} /\ raised' \in [Event -> Nat]
    BY <1>2, <2>1 DEF Receiver!Status
  <2> QED
    BY <2>1, <2>2, PlainAnswerMoves
<1>6. CASE Receiver!ScheduleRaisesLate(c)
  <2>1. /\ conn[c].phase = "accepted" /\ Receiver!Answer(c, 503)
        /\ UNCHANGED <<sub, seen, schedule, woken>>
        /\ raised' = [raised EXCEPT ![r.event] = @ + 1]
    BY <1>6 DEF Receiver!ScheduleRaisesLate, Receiver!shared
  <2>2. raised' \in [Event -> Nat]
    BY <1>2, <1>3, <2>1
  <2> QED
    BY <2>1, <2>2, PlainAnswerMoves DEF Receiver!Status
<1>7. CASE Receiver!HandleGap(c)
  <2>1. /\ conn[c].phase = "received" /\ r.kind = "gap" /\ Receiver!Answer(c, 200)
        /\ sub' = SetCursor(sub, r.cursor)
        /\ UNCHANGED <<seen, schedule, woken, raised>>
    BY <1>7, SameOperators DEF Receiver!HandleGap, Receiver!Dispatched, Receiver!Received,
                               Receiver!runtime
  <2>2. /\ conn' \in [Conn -> Receiver!ConnType]
        /\ \A d \in Conn \ {c} : conn'[d] = conn[d]
        /\ conn'[c].request = conn[c].request
        /\ conn'[c].phase = "answered" /\ conn'[c].status = 200
    BY <1>1, <2>1, AnswerMoves DEF Receiver!Status
  <2> QED
    BY <1>2, <2>1, <2>2 DEF HandlerMoves
<1>8. CASE Receiver!AckDuplicate(c)
  <2>1. /\ conn[c].phase = "received" /\ Receiver!Answer(c, 200)
        /\ IsSeen(seen, r.event)
        /\ seen' = SeenOrRecord(seen, r.event)
        /\ UNCHANGED <<sub, schedule, woken, raised>>
    BY <1>8, SameOperators DEF Receiver!AckDuplicate, Receiver!Dispatched,
                               Receiver!Received, Receiver!runtime
  <2>2. /\ conn' \in [Conn -> Receiver!ConnType]
        /\ \A d \in Conn \ {c} : conn'[d] = conn[d]
        /\ conn'[c].request = conn[c].request
        /\ conn'[c].phase = "answered" /\ conn'[c].status = 200
    BY <1>1, <2>1, AnswerMoves DEF Receiver!Status
  <2>3. /\ seen' \in Seq(Event) /\ Len(seen') <= Capacity
        /\ \A e : IsSeen(seen', e) => IsSeen(seen, e)
    BY <1>2, <1>3, <2>1, MarkSeenIsSeenOrRecord, MarkSeenContents
  <2>4. woken[r.event] > 0
    BY <1>3, <2>1 DEF HandlersFit
  <2> QED
    BY <1>2, <2>1, <2>2, <2>3, <2>4 DEF HandlerMoves
<1>9. CASE Receiver!AwaitSchedule(c)
  <2>1. /\ conn[c].phase = "received" /\ r.kind = "event"
        /\ Receiver!Await(c, "scheduling")
        /\ UNCHANGED <<sub, seen, schedule, woken, raised>>
    BY <1>9 DEF Receiver!AwaitSchedule, Receiver!Fresh, Receiver!Dispatched,
                Receiver!Received, Receiver!shared, Receiver!runtime
  <2>2. /\ conn' \in [Conn -> Receiver!ConnType]
        /\ \A d \in Conn \ {c} : conn'[d] = conn[d]
        /\ conn'[c].request = conn[c].request
        /\ conn'[c].phase = "scheduling" /\ conn'[c].status = 0
    BY <1>1, <2>1, AwaitMoves
  <2> QED
    BY <1>2, <2>1, <2>2 DEF HandlerMoves
<1>10. CASE Receiver!ScheduleReturns(c)
  <2>1. /\ conn[c].phase = "accepted" /\ Receiver!Answer(c, 200)
        /\ seen' = MarkSeen(seen, r.event)
        /\ sub' = SetCursor(sub, r.cursor)
        /\ UNCHANGED <<schedule, woken, raised>>
    BY <1>10, SameOperators DEF Receiver!ScheduleReturns, Receiver!runtime
  <2>2. /\ conn' \in [Conn -> Receiver!ConnType]
        /\ \A d \in Conn \ {c} : conn'[d] = conn[d]
        /\ conn'[c].request = conn[c].request
        /\ conn'[c].phase = "answered" /\ conn'[c].status = 200
    BY <1>1, <2>1, AnswerMoves DEF Receiver!Status
  <2>3. /\ seen' \in Seq(Event) /\ Len(seen') <= Capacity
        /\ \A e : IsSeen(seen', e) => IsSeen(seen, e) \/ e = r.event
    BY <1>2, <1>3, <2>1, MarkSeenContents
  <2> QED
    BY <1>2, <2>1, <2>2, <2>3 DEF HandlerMoves
<1>11. CASE Receiver!RuntimeAccepts(c)
  <2>1. /\ conn[c].phase = "scheduling" /\ Receiver!Await(c, "accepted")
        /\ woken' = [woken EXCEPT ![r.event] = @ + 1]
        /\ UNCHANGED <<sub, seen, schedule, raised>>
    BY <1>11 DEF Receiver!RuntimeAccepts, Receiver!shared
  <2>2. /\ conn' \in [Conn -> Receiver!ConnType]
        /\ \A d \in Conn \ {c} : conn'[d] = conn[d]
        /\ conn'[c].request = conn[c].request
        /\ conn'[c].phase = "accepted" /\ conn'[c].status = 0
    BY <1>1, <2>1, AwaitMoves
  <2>3. woken'[r.event] > 0
    BY <1>2, <1>3, <2>1
  <2> QED
    BY <1>2, <2>1, <2>2, <2>3 DEF HandlerMoves
<1> QED
  BY <1>4, <1>5, <1>6, <1>7, <1>8, <1>9, <1>10, <1>11 DEF Receiver!Handler

\* set_cursor replaces the cursor and nothing else (state.py:122-131).
LEMMA SetCursorKeeps ==
    ASSUME NEW S, TrackedType(S), NEW k \in Cursor \cup {None}
    PROVE  /\ TrackedType(SetCursor(S, k))
           /\ S = {} <=> SetCursor(S, k) = {}
           /\ \A t \in SetCursor(S, k) : t.cursor = k
<1>1. CASE S = {}
  BY <1>1 DEF TrackedType, SetCursor
<1>2. CASE S # {}
  <2>1. PICK s \in Subscription : S = {s}
    BY <1>2 DEF TrackedType
  <2> DEFINE t == [s EXCEPT !.cursor = k]
  <2>2. SetCursor(S, k) = {t}
    BY <2>1 DEF SetCursor
  <2>3. t \in Subscription /\ t.cursor = k
    BY <2>1 DEF Subscription
  <2> HIDE DEF t
  <2> QED
    BY <2>1, <2>2, <2>3 DEF TrackedType
<1> QED
  BY <1>1, <1>2

\* A stored response replaces the cursor.
LEMMA StoresCursor ==
    ASSUME TrackedType(sub), NEW r \in Result, Stores(r)
    PROVE  /\ sub = {} <=> sub' = {}
           /\ \A t \in sub' : t.cursor = r.cursor
<1>1. CASE sub = {}
  BY <1>1 DEF Stores, SetActive
<1>2. CASE sub # {}
  <2>1. PICK s \in Subscription : sub = {s}
    BY <1>2 DEF TrackedType
  <2> DEFINE t == [s EXCEPT !.id = r.id, !.refreshBefore = r.refreshBefore,
                            !.cursor = r.cursor]
  <2>2. sub' = {t}
    BY <2>1 DEF Stores, SetActive
  <2>3. t.cursor = r.cursor
    BY <2>1 DEF Subscription
  <2> HIDE DEF t
  <2> QED
    BY <2>1, <2>2, <2>3
<1> QED
  BY <1>1, <1>2
-----------------------------------------------------------------------------
(* Positions *)

\* The constants of this composition, as its modules see them.
LEMMA Bounds ==
    /\ MaxEvents \in Nat /\ MaxCrashes \in Nat
    /\ Cursor = 0..MaxEvents /\ Secret = 0..MaxCrashes
    /\ None \notin Cursor
BY DeliveryAssumption, NoneAssumption

\* Nothing undoes what makes a position safe.
Grows == /\ emitted' \in 0..MaxEvents /\ emitted <= emitted'
         /\ \A e \in Event : woken[e] > 0 => woken'[e] > 0
         /\ waived \subseteq waived' /\ skipped \subseteq skipped'

\* So a safe position stays safe.
LEMMA SafeStays ==
    ASSUME emitted \in 0..MaxEvents, Grows
    PROVE  \A k \in Cursor : Safe(k) => Safe(k)'
<1> SUFFICES ASSUME NEW k \in Cursor, Safe(k) PROVE Safe(k)'
  OBVIOUS
<1>1. k \in Nat /\ k <= emitted /\ k <= emitted' /\ MaxEvents \in Nat
  BY Bounds DEF Safe, Grows
<1>2. ASSUME NEW e \in 1..k PROVE Handled(e)' \/ e \in skipped'
  <2>1. e \in Event /\ (Handled(e) \/ e \in skipped)
    BY <1>1 DEF Safe, Event
  <2> QED
    BY <2>1 DEF Grows, Handled
<1> QED
  BY <1>1, <1>2 DEF Safe

\* So what is held stays safe, wherever it goes.
LEMMA HeldStaysSafe ==
    ASSUME TypeOK, PositionsAreSafe, Grows
    PROVE  /\ \A s \in sub : s.cursor # None => s.cursor \in Cursor /\ Safe(s.cursor)'
           /\ \A c \in call : c.method = "events/subscribe" /\ c.cursor # None =>
                  c.cursor \in Cursor /\ Safe(c.cursor)'
           /\ \A k \in reply \cup gap \cup {from} : k \in Cursor /\ Safe(k)'
           /\ \A c \in Conn : \A r \in conn[c].request :
                  r.cursor \in Cursor /\ Safe(r.cursor)'
<1>1. \A k \in Cursor : Safe(k) => Safe(k)'
  BY SafeStays DEF TypeOK
<1>2. \A s \in sub : s.cursor # None => s.cursor \in Cursor /\ Safe(s.cursor)
  BY DEF PositionsAreSafe, TypeOK, ManagerTypeOK, TrackedType, Subscription
<1>3. \A c \in call : c.method = "events/subscribe" /\ c.cursor # None =>
          c.cursor \in Cursor /\ Safe(c.cursor)
  BY DEF PositionsAreSafe, TypeOK, ManagerTypeOK, Call
<1>4. \A k \in reply \cup gap \cup {from} : k \in Cursor /\ Safe(k)
  BY DEF PositionsAreSafe, TypeOK
<1>5. \A c \in Conn : \A r \in conn[c].request : r.cursor \in Cursor /\ Safe(r.cursor)
  BY RequestsAreRequests, RequestFields DEF PositionsAreSafe, TypeOK
<1> QED
  BY <1>1, <1>2, <1>3, <1>4, <1>5

\* A step that adds only safe positions keeps all of them safe.
LEMMA PositionsStaySafe ==
    ASSUME TypeOK, PositionsAreSafe, Grows,
           \A s \in sub' : s.cursor # None => s \in sub \/ Safe(s.cursor)',
           \A c \in call' : c.method = "events/subscribe" /\ c.cursor # None =>
               c \in call \/ Safe(c.cursor)',
           \A k \in reply' \cup gap' \cup {from'} :
               k \in reply \cup gap \cup {from} \/ Safe(k)',
           \A c \in Conn : \A r \in conn'[c].request :
               r \in conn[c].request \/ Safe(r.cursor)'
    PROVE  PositionsAreSafe'
BY HeldStaysSafe DEF PositionsAreSafe

\* Well-foundedness, as the watermark needs it.
LEMMA LeastElement ==
    ASSUME NEW S, S \subseteq Nat, S # {}
    PROVE  \E n \in S : \A m \in S : n <= m
<1> DEFINE R == OpToRel(<, Nat)
<1>1. IsWellFoundedOn(R, Nat)
  BY NatLessThanWellFounded
<1>2. \A m, n \in Nat : m < n => <<m, n>> \in R
  BY DEF OpToRel
<1> HIDE DEF R
<1>3. PICK n \in S : \A m \in S : <<m, n>> \notin R
  BY <1>1, WFMin
<1>4. \A m \in S : ~(m < n)
  BY <1>2, <1>3, Zenon
<1> QED
  BY <1>4

\* The watermark is there: just before the first event still to be delivered.
LEMMA WatermarkIs ==
    ASSUME emitted \in Nat, from \in 0..emitted
    PROVE  /\ Watermark \in from..emitted
           /\ (from + 1)..Watermark \cap Pending = {}
<1> DEFINE Fits(w) == /\ (from + 1)..w \cap Pending = {}
                      /\ w = emitted \/ w + 1 \in Pending
<1>1. Pending \subseteq (from + 1)..emitted
  BY DEF Pending
<1>2. \E w \in from..emitted : Fits(w)
  <2>1. CASE Pending = {}
    BY <2>1
  <2>2. CASE Pending # {}
    <3>0. Pending \subseteq Nat
      BY <1>1
    <3>1. PICK p \in Pending : \A q \in Pending : p <= q
      BY <2>2, <3>0, LeastElement
    <3>2. p \in (from + 1)..emitted /\ p - 1 \in from..emitted
      BY <1>1
    <3>3. (from + 1)..(p - 1) \cap Pending = {}
      BY <3>1, <3>2
    <3> QED
      BY <3>2, <3>3
  <2> QED
    BY <2>1, <2>2
<1>3. Watermark = CHOOSE w \in from..emitted : Fits(w)
  BY DEF Watermark
<1> HIDE DEF Fits
<1>4. Watermark \in from..emitted /\ Fits(Watermark)
  BY <1>2, <1>3
<1> QED
  BY <1>4 DEF Fits

\* The watermark of a session is safe, and so is all that was emitted once what
\* is still to be delivered is waived.
LEMMA WatermarkIsSafe ==
    ASSUME TypeOK, Safe(from), ServerForgetsNothing
    PROVE  /\ Watermark \in Cursor /\ Safe(Watermark) /\ from <= Watermark
           /\ \A e \in 1..emitted : e \in Pending \/ Handled(e) \/ e \in skipped
<1>1. /\ emitted \in 0..MaxEvents /\ from \in 0..MaxEvents /\ from <= emitted
      /\ MaxEvents \in Nat
  BY Bounds DEF TypeOK, Safe
<1>2. /\ Watermark \in from..emitted
      /\ (from + 1)..Watermark \cap Pending = {}
  BY <1>1, WatermarkIs
<1>3. ASSUME NEW e \in 1..emitted
      PROVE  e \in Pending \/ Handled(e) \/ e \in skipped
  <2>1. CASE e <= from
    BY <1>1, <2>1 DEF Safe
  <2>2. CASE e > from
    BY <2>2 DEF Pending, ServerForgetsNothing, Handled
  <2> QED
    BY <1>1, <2>1, <2>2
<1>4. ASSUME NEW e \in 1..Watermark PROVE Handled(e) \/ e \in skipped
  <2>1. CASE e <= from
    BY <1>1, <1>2, <2>1 DEF Safe
  <2>2. CASE e > from
    <3>1. e \in 1..emitted /\ e \notin Pending
      BY <1>1, <1>2, <2>2
    <3> QED
      BY <1>3, <3>1
  <2> QED
    BY <1>1, <1>2, <2>1, <2>2
<1>5. Watermark \in Nat /\ Watermark <= emitted /\ from <= Watermark /\ Watermark \in Cursor
  BY <1>1, <1>2, Bounds
<1> QED
  BY <1>3, <1>4, <1>5 DEF Safe
-----------------------------------------------------------------------------
(* The invariant: at the beginning, and in the receiver's steps *)

\* An agent that has not started holds no position.
LEMMA InitIInv == Init => IInv
<1> SUFFICES ASSUME Init PROVE IInv
  OBVIOUS
<1> USE DEF Init, ManagerInit
<1>1. TypeOK
  <2>1. ManagerTypeOK
    BY DEF ManagerTypeOK, TrackedType, StartPc, LoopPc, StopPc
  <2>2. conn \in [Conn -> Receiver!ConnType]
    BY DEF Receiver!Idle, Receiver!ConnType, Receiver!Phase, Receiver!Status
  <2>3. \A c \in Conn : conn[c] = Receiver!Idle
    OBVIOUS
  <2>4. Receiver!TypeOK
    BY <2>2, <2>3, CapacityAssumption
       DEF Receiver!TypeOK, Receiver!Idle, Receiver!TrackedType
  <2>5. 0 \in 0..MaxEvents /\ 0 \in Cursor /\ 0 \in Secret
    BY Bounds
  <2> QED
    BY <2>1, <2>4, <2>5 DEF TypeOK
<1>2. HandlersFit
  BY DEF HandlersFit, Receiver!Idle, IsSeen, Contains
<1>3. InStream
  BY DEF InStream, Receiver!Idle, Event
<1>4. PositionsAreSafe
  <2>1. Safe(0)
    BY DEF Safe
  <2> QED
    BY <2>1 DEF PositionsAreSafe, Receiver!Idle
<1>5. ServerForgetsNothing
  BY DEF ServerForgetsNothing
<1>6. ManagerFits
  BY Bounds DEF ManagerFits
<1>7. SessionsFit
  BY DEF SessionsFit, Receiver!Idle, GaveUp
<1> QED
  BY <1>1, <1>2, <1>3, <1>4, <1>5, <1>6, <1>7 DEF IInv

\* No step of a handler undoes a wake, and the only one it adds is its own.
LEMMA HandlerWakes ==
    ASSUME TypeOK, NEW c \in Conn, HandlerMoves(c)
    PROVE  LET r == Receiver!RequestOf(c) IN
           /\ conn[c].phase # "idle" /\ conn[c].request = {r}
           /\ r \in Request /\ r.event \in Event
           /\ r.cursor \in Cursor /\ r.cursor # None
           /\ woken' \in [Event -> Nat]
           /\ \A e \in Event :
                  /\ woken[e] > 0 => woken'[e] > 0
                  /\ woken'[e] > 0 => woken[e] > 0 \/ (r.kind = "event" /\ e = r.event)
<1> DEFINE r == Receiver!RequestOf(c)
<1>1. Receiver!TypeOK /\ conn[c].phase # "idle"
  BY DEF TypeOK, HandlerMoves
<1>2. /\ conn[c].request = {r} /\ r \in Request /\ r.event \in Event
      /\ r.cursor \in Cursor /\ r.cursor # None
  BY <1>1, RequestOfIsRequest, RequestFields, Bounds
<1>3. woken \in [Event -> Nat]
  BY <1>1 DEF Receiver!TypeOK
<1>4. \/ woken' = woken
      \/ r.kind = "event" /\ woken' = [woken EXCEPT ![r.event] = @ + 1]
  BY DEF HandlerMoves
<1> HIDE DEF r
<1>5. /\ woken' \in [Event -> Nat]
      /\ \A e \in Event :
             /\ woken[e] > 0 => woken'[e] > 0
             /\ woken'[e] > 0 => woken[e] > 0 \/ (r.kind = "event" /\ e = r.event)
  BY <1>2, <1>3, <1>4
<1> QED
  BY <1>1, <1>2, <1>5 DEF r

\* A move of a handler keeps the types and undoes nothing.
LEMMA HandlerKeepsType ==
    ASSUME TypeOK, NEW c \in Conn, HandlerMoves(c)
    PROVE  /\ Receiver!TypeOK' /\ TrackedType(sub')
           /\ Grows \/ emitted' # emitted \/ waived' # waived \/ skipped' # skipped
<1> DEFINE r == Receiver!RequestOf(c)
<1>1. Receiver!TypeOK /\ TrackedType(sub) /\ emitted \in 0..MaxEvents
  BY DEF TypeOK, ManagerTypeOK
<1>2. conn[c].phase # "idle" /\ r.cursor \in Cursor \cup {None}
  BY HandlerWakes
<1>3. TrackedType(sub')
  BY <1>1, <1>2, SetCursorKeeps DEF HandlerMoves
<1>4. /\ woken' \in [Event -> Nat]
      /\ \A e \in Event : woken[e] > 0 => woken'[e] > 0
  BY HandlerWakes
<1>5. conn' \in [Conn -> Receiver!ConnType]
  BY DEF HandlerMoves
<1>6. ASSUME NEW d \in Conn
      PROVE  /\ conn'[d].phase = "idle" <=> conn'[d].request = {}
             /\ conn'[d].phase = "answered" <=> conn'[d].status # 0
  <2>1. CASE d = c
    BY <1>1, <1>2, <2>1 DEF HandlerMoves, Receiver!TypeOK
  <2>2. CASE d # c
    BY <1>1, <2>2 DEF HandlerMoves, Receiver!TypeOK
  <2> QED
    BY <2>1, <2>2
<1>7. Receiver!TrackedType(sub')
  BY <1>3, SameOperators
<1>8. /\ seen' \in Seq(Event) /\ Len(seen') <= Capacity
      /\ schedule' \in BOOLEAN /\ raised' \in [Event -> Nat]
  BY <1>1 DEF HandlerMoves, Receiver!TypeOK
<1> QED
  BY <1>1, <1>3, <1>4, <1>5, <1>6, <1>7, <1>8 DEF Receiver!TypeOK, Grows

\* It wakes before it records and before it acknowledges.
LEMMA HandlerKeepsFit ==
    ASSUME TypeOK, HandlersFit, NEW c \in Conn, HandlerMoves(c)
    PROVE  HandlersFit'
<1> DEFINE r == Receiver!RequestOf(c)
<1>1. conn[c].request = {r} /\ conn'[c].request = conn[c].request
  BY HandlerWakes DEF HandlerMoves
<1>2. \A e \in Event : woken[e] > 0 => woken'[e] > 0
  BY HandlerWakes
<1>3. ASSUME NEW d \in Conn, NEW q \in conn'[d].request
      PROVE  /\ conn'[d].phase \in {"scheduling", "accepted"} => q.kind = "event"
             /\ \/ conn'[d].phase = "accepted"
                \/ conn'[d].phase = "answered" /\ conn'[d].status = 200 /\ q.kind = "event"
                => woken'[q.event] > 0
  <2>1. CASE d = c
    BY <1>1, <1>3, <2>1 DEF HandlerMoves
  <2>2. CASE d # c
    <3>1. conn'[d] = conn[d] /\ q.event \in Event
      BY <1>3, <2>2, RequestsAreRequests, RequestFields DEF HandlerMoves, TypeOK
    <3> QED
      BY <1>2, <1>3, <3>1 DEF HandlersFit
  <2> QED
    BY <2>1, <2>2
<1>4. \A e \in Event : IsSeen(seen', e) => woken'[e] > 0
  BY <1>2 DEF HandlersFit, HandlerMoves
<1> QED
  BY <1>3, <1>4 DEF HandlersFit

\* The cursor it commits is the one of its event, which the server computed
\* when everything up to it was done.
LEMMA ReceiverStepKeepsIInv ==
    ASSUME IInv, NEW c \in Conn, ReceiverStep(c)
    PROVE  IInv'
<1> USE DEF IInv
<1> DEFINE r == Receiver!RequestOf(c)
<1>1. /\ UNCHANGED <<secret, start, loop, stop, call, emitted, waived, skipped, live, key>>
      /\ UNCHANGED <<from, acked, gap, subscribed, hears, reply, crashes>>
  BY DEF ReceiverStep, Fault, streamVars, sessionVars, boundVars
<1>2. HandlerMoves(c)
  BY HandlerSteps DEF ReceiverStep
<1>3. /\ Receiver!TypeOK' /\ TrackedType(sub') /\ Grows
  BY <1>1, <1>2, HandlerKeepsType
<1>4. /\ conn[c].phase # "idle" /\ conn[c].request = {r} /\ r.event \in Event
      /\ r.cursor \in Cursor /\ r.cursor # None
  BY <1>2, HandlerWakes
<1>5. /\ sub' = {} <=> sub = {}
      /\ sub' = sub \/ \A t \in sub' : t.cursor = r.cursor
  BY <1>2, <1>4, SetCursorKeeps DEF HandlerMoves, TypeOK, ManagerTypeOK
<1>6. \A d \in Conn : conn'[d].request = conn[d].request
  BY <1>2 DEF HandlerMoves
<1>8. TypeOK'
  BY <1>1, <1>3 DEF TypeOK, ManagerTypeOK
<1>9. HandlersFit'
  BY <1>2, HandlerKeepsFit
<1>10. InStream'
  <2>1. \A e \in Event : woken'[e] > 0 => woken[e] > 0 \/ (r.kind = "event" /\ e = r.event)
    BY <1>2, HandlerWakes
  <2>2. \A e \in Event : woken'[e] > 0 => e <= emitted
    BY <1>4, <2>1 DEF InStream
  <2> QED
    BY <1>1, <1>6, <2>2 DEF InStream
<1>11. PositionsAreSafe'
  <2>1. Safe(r.cursor) /\ \A k \in Cursor : Safe(k) => Safe(k)'
    BY <1>3, <1>4, SafeStays DEF PositionsAreSafe, TypeOK
  <2>2. \A t \in sub' : t.cursor # None => t \in sub \/ Safe(t.cursor)'
    BY <1>4, <1>5, <2>1
  <2> QED
    BY <1>1, <1>3, <1>6, <2>2, PositionsStaySafe
<1>12. ServerForgetsNothing'
  BY <1>1, <1>3 DEF ServerForgetsNothing, Grows, TypeOK
<1>13. ManagerFits'
  BY <1>1, <1>5 DEF ManagerFits
<1>14. SessionsFit'
  BY <1>1, <1>4, <1>5 DEF SessionsFit, GaveUp
<1> QED
  BY <1>8, <1>9, <1>10, <1>11, <1>12, <1>13, <1>14
-----------------------------------------------------------------------------
(* The invariant in the server's steps *)

\* Nothing of the manager's.
LEMMA ManagerRests ==
    ASSUME ManagerTypeOK, UNCHANGED managerVars
    PROVE  ManagerTypeOK'
BY DEF ManagerTypeOK, managerVars

\* A new event is after every position held: none becomes unsafe.
LEMMA EmitKeepsIInv ==
    ASSUME IInv, Emit
    PROVE  IInv'
<1> USE DEF IInv
<1>1. /\ UNCHANGED <<sub, secret, start, loop, stop, call>>
      /\ UNCHANGED <<seen, schedule, conn, woken, raised>>
      /\ UNCHANGED <<skipped, live, key, from, acked, gap, subscribed, hears, reply, crashes>>
      /\ emitted < MaxEvents /\ emitted' = emitted + 1
      /\ waived' = IF subscribed THEN waived ELSE waived \cup {emitted + 1}
  BY DEF Emit, managerVars, receiverVars, sessionVars, boundVars
<1>2. /\ emitted \in 0..MaxEvents /\ MaxEvents \in Nat /\ emitted' \in 0..MaxEvents
      /\ emitted + 1 \in Event
  BY <1>1, Bounds DEF TypeOK, Event
<1>3. Grows
  BY <1>1, <1>2 DEF Grows
<1>4. TypeOK'
  <2>1. waived' \subseteq Event
    BY <1>1, <1>2 DEF TypeOK
  <2>2. ManagerTypeOK' /\ Receiver!TypeOK'
    BY <1>1, ManagerRests DEF TypeOK, managerVars, Receiver!TypeOK
  <2> QED
    BY <1>1, <1>2, <2>1, <2>2 DEF TypeOK
<1>5. HandlersFit'
  BY <1>1 DEF HandlersFit
<1>6. InStream'
  <2>1. acked' \cup waived' \subseteq 1..emitted'
    BY <1>1, <1>2 DEF InStream
  <2>2. \A e \in Event : woken'[e] > 0 => e <= emitted'
    BY <1>1, <1>2 DEF InStream, Event
  <2>3. \A c \in Conn : \A r \in conn'[c].request : r.kind = "event" => r.event <= emitted'
    <3>1. \A c \in Conn : \A r \in conn[c].request : r.event \in 1..MaxEvents
      BY RequestsAreRequests, RequestFields DEF TypeOK, Event
    <3> QED
      BY <1>1, <1>2, <3>1 DEF InStream
  <2> QED
    BY <1>1, <1>2, <2>1, <2>2, <2>3 DEF InStream
<1>7. PositionsAreSafe'
  BY <1>1, <1>3, PositionsStaySafe
<1>8. ServerForgetsNothing'
  BY <1>1 DEF ServerForgetsNothing
<1>9. ManagerFits'
  BY <1>1 DEF ManagerFits
<1>10. SessionsFit'
  <2>1. ~subscribed => waived' = 1..emitted'
    BY <1>1, <1>2 DEF SessionsFit
  <2> QED
    BY <1>1, <2>1 DEF SessionsFit, GaveUp
<1> QED
  BY <1>4, <1>5, <1>6, <1>7, <1>8, <1>9, <1>10

\* A delivery or a gap envelope goes out.
LEMMA PostKeepsIInv ==
    ASSUME IInv, live, NEW c \in Conn, NEW r \in Request, Receiver!Post(c, r),
           Safe(r.cursor), r.kind = "event" => r.event <= emitted,
           hears' = hears \cup {c},
           UNCHANGED <<secret, start, loop, stop, call, streamVars, sessionVars, reply, boundVars>>
    PROVE  IInv'
<1> USE DEF IInv
<1>1. /\ UNCHANGED <<sub, secret, start, loop, stop, call, seen, schedule, woken, raised>>
      /\ UNCHANGED <<emitted, waived, skipped, live, key, from, acked, gap, subscribed, reply>>
      /\ UNCHANGED crashes
  BY DEF Receiver!Post, Receiver!shared, Receiver!runtime, streamVars, sessionVars, boundVars
<1>2. /\ conn[c].phase = "idle"
      /\ conn' \in [Conn -> Receiver!ConnType]
      /\ conn'[c].phase = "received" /\ conn'[c].request = {r} /\ conn'[c].status = 0
      /\ \A d \in Conn \ {c} : conn'[d] = conn[d]
  <2>1. conn \in [Conn -> Receiver!ConnType] /\ conn[c].phase = "idle" /\ conn[c].status = 0
    BY DEF Receiver!Post, TypeOK, Receiver!TypeOK
  <2> DEFINE now == [conn[c] EXCEPT !.phase = "received", !.request = {r}]
  <2>2. conn' = [conn EXCEPT ![c] = now]
    BY <2>1 DEF Receiver!Post
  <2>3. /\ now \in Receiver!ConnType
        /\ now.phase = "received" /\ now.request = {r} /\ now.status = 0
    BY <2>1 DEF Receiver!ConnType, Receiver!Phase
  <2> HIDE DEF now
  <2> QED
    BY <2>1, <2>2, <2>3
<1>3. Grows
  BY <1>1 DEF Grows, TypeOK
<1>4. TypeOK'
  <2>1. Receiver!TypeOK'
    <3>1. ASSUME NEW d \in Conn
          PROVE  /\ conn'[d].phase = "idle" <=> conn'[d].request = {}
                 /\ conn'[d].phase = "answered" <=> conn'[d].status # 0
      BY <1>2 DEF TypeOK, Receiver!TypeOK
    <3> QED
      BY <1>1, <1>2, <3>1 DEF TypeOK, Receiver!TypeOK
  <2>2. hears' \subseteq Conn
    BY DEF TypeOK
  <2> QED
    BY <1>1, <2>1, <2>2, ManagerRests DEF TypeOK, managerVars
<1>5. HandlersFit'
  <2>1. ASSUME NEW d \in Conn, NEW q \in conn'[d].request
        PROVE  /\ conn'[d].phase \in {"scheduling", "accepted"} => q.kind = "event"
               /\ \/ conn'[d].phase = "accepted"
                  \/ conn'[d].phase = "answered" /\ conn'[d].status = 200 /\ q.kind = "event"
                  => woken'[q.event] > 0
    <3>1. CASE d = c
      BY <1>2, <3>1
    <3>2. CASE d # c
      BY <1>1, <1>2, <2>1, <3>2 DEF HandlersFit
    <3> QED
      BY <3>1, <3>2
  <2> QED
    BY <1>1, <2>1 DEF HandlersFit
<1>6. InStream'
  <2>1. ASSUME NEW d \in Conn, NEW q \in conn'[d].request, q.kind = "event"
        PROVE  q.event <= emitted
    BY <1>2, <2>1 DEF InStream
  <2> QED
    BY <1>1, <2>1 DEF InStream
<1>7. PositionsAreSafe'
  <2>1. Safe(r.cursor)'
    BY <1>3, SafeStays, RequestFields DEF TypeOK
  <2>2. \A d \in Conn : \A q \in conn'[d].request :
            q \in conn[d].request \/ Safe(q.cursor)'
    BY <1>2, <2>1
  <2> QED
    BY <1>1, <1>3, <2>2, PositionsStaySafe
<1>8. ServerForgetsNothing'
  BY <1>1 DEF ServerForgetsNothing
<1>9. ManagerFits'
  BY <1>1 DEF ManagerFits
<1>10. SessionsFit'
  BY <1>1 DEF SessionsFit, GaveUp
<1> QED
  BY <1>4, <1>5, <1>6, <1>7, <1>8, <1>9, <1>10

\* The cursor of a delivery is the watermark.
LEMMA DeliverKeepsIInv ==
    ASSUME IInv, NEW e \in Event, Deliver(e)
    PROVE  IInv'
<1>1. live /\ e \in Pending
  BY DEF Deliver
<1>2. Watermark \in Cursor /\ Safe(Watermark) /\ key \in Secret
  BY WatermarkIsSafe DEF IInv, PositionsAreSafe, TypeOK
<1> DEFINE r == Post("event", e, Watermark, key)
<1>3. r \in Request
  BY <1>2 DEF Request
<1>4. r.cursor = Watermark /\ r.event = e /\ e <= emitted
  BY <1>1 DEF Post, Pending
<1>5. PICK c \in Conn : Receiver!Post(c, r) /\ hears' = hears \cup {c}
  BY DEF Deliver
<1>6. UNCHANGED <<secret, start, loop, stop, call, streamVars, sessionVars, reply, boundVars>>
  BY DEF Deliver
<1> HIDE DEF r
<1> QED
  BY <1>1, <1>2, <1>3, <1>4, <1>5, <1>6, PostKeepsIInv

\* The cursor of a gap envelope is after events that are waived.
LEMMA GapKeepsIInv ==
    ASSUME IInv, DeliverGap
    PROVE  IInv'
<1>1. PICK k \in gap, c \in Conn :
          /\ Receiver!Post(c, Post("gap", 1, k, key))
          /\ hears' = hears \cup {c}
  BY DEF DeliverGap
<1> DEFINE r == Post("gap", 1, k, key)
<1>2. k \in Cursor /\ Safe(k) /\ key \in Secret
  BY DEF IInv, PositionsAreSafe, TypeOK
<1>3. 1 \in Event
  <2>1. emitted \in 0..MaxEvents /\ emitted > 0 /\ MaxEvents \in Nat
    BY Bounds DEF IInv, InStream, TypeOK
  <2> QED
    BY <2>1 DEF Event
<1>4. r \in Request
  BY <1>2, <1>3 DEF Request
<1>5. r.cursor = k /\ r.kind # "event"
  BY DEF Post
<1>6. /\ UNCHANGED <<secret, start, loop, stop, call, streamVars, sessionVars, reply, boundVars>>
      /\ live
  BY DEF DeliverGap
<1> HIDE DEF r
<1>7. Receiver!Post(c, r) /\ hears' = hears \cup {c} /\ Safe(r.cursor)
  BY <1>1, <1>2, <1>5 DEF r
<1> QED
  BY <1>4, <1>5, <1>6, <1>7, PostKeepsIInv

\* A 2xx is believed, and is given only after a wake.
LEMMA AnswerArrivesKeepsIInv ==
    ASSUME IInv, NEW c \in Conn, AnswerArrives(c)
    PROVE  IInv'
<1> USE DEF IInv
<1> DEFINE r == Receiver!RequestOf(c)
<1>1. /\ UNCHANGED <<sub, secret, start, loop, stop, call, seen, schedule, woken, raised>>
      /\ UNCHANGED <<emitted, waived, skipped, live, key, from, subscribed, reply, crashes>>
  BY DEF AnswerArrives, Receiver!Finish, Receiver!shared, Receiver!runtime, streamVars, boundVars
<1>2. /\ conn[c].phase = "answered"
      /\ conn' \in [Conn -> Receiver!ConnType]
      /\ conn'[c] = Receiver!Idle
      /\ \A d \in Conn \ {c} : conn'[d] = conn[d]
  <2>1. conn \in [Conn -> Receiver!ConnType] /\ Receiver!Idle \in Receiver!ConnType
    BY DEF TypeOK, Receiver!TypeOK, Receiver!Idle, Receiver!ConnType, Receiver!Phase,
           Receiver!Status
  <2>2. conn[c].phase = "answered" /\ conn' = [conn EXCEPT ![c] = Receiver!Idle]
    BY DEF AnswerArrives, Receiver!Finish
  <2> QED
    BY <2>1, <2>2
<1>3. conn[c].request = {r} /\ r \in Request /\ r.event \in Event
  BY <1>2, RequestOfIsRequest, RequestFields DEF TypeOK
<1>4. /\ hears' = hears \ {c}
      /\ acked' = acked
         \/ (c \in hears /\ conn[c].status = 200 /\ r.kind = "event"
             /\ acked' = acked \cup {r.event})
      /\ gap' \subseteq gap
  BY DEF AnswerArrives
<1> HIDE DEF r
<1>5. Grows
  BY <1>1 DEF Grows, TypeOK
<1>6. acked' = acked \/ (acked' = acked \cup {r.event} /\ woken[r.event] > 0 /\ live)
  BY <1>2, <1>3, <1>4 DEF HandlersFit, SessionsFit
<1>7. TypeOK'
  <2>1. ASSUME NEW d \in Conn
        PROVE  /\ conn'[d].phase = "idle" <=> conn'[d].request = {}
               /\ conn'[d].phase = "answered" <=> conn'[d].status # 0
    <3>1. CASE d = c
      BY <1>2, <3>1 DEF Receiver!Idle
    <3>2. CASE d # c
      BY <1>2, <3>2 DEF TypeOK, Receiver!TypeOK
    <3> QED
      BY <3>1, <3>2
  <2>2. Receiver!TypeOK'
    BY <1>1, <1>2, <2>1 DEF TypeOK, Receiver!TypeOK
  <2>3. acked' \subseteq Event /\ gap' \subseteq Cursor /\ hears' \subseteq Conn
    BY <1>3, <1>4 DEF TypeOK
  <2> QED
    BY <1>1, <2>2, <2>3, ManagerRests DEF TypeOK, managerVars
<1>8. \A d \in Conn : conn'[d] = conn[d] \/ conn'[d] = Receiver!Idle
  BY <1>2
<1>9. HandlersFit'
  BY <1>1, <1>8 DEF HandlersFit, Receiver!Idle
<1>10. InStream'
  <2>1. \A d \in Conn : \A q \in conn'[d].request : q.kind = "event" => q.event <= emitted'
    BY <1>1, <1>8 DEF InStream, Receiver!Idle
  <2>2. acked' \subseteq 1..emitted'
    BY <1>1, <1>3, <1>6 DEF InStream, TypeOK, Event
  <2> QED
    BY <1>1, <1>4, <2>1, <2>2 DEF InStream
<1>11. PositionsAreSafe'
  <2>1. \A d \in Conn : \A q \in conn'[d].request : q \in conn[d].request
    BY <1>8 DEF Receiver!Idle
  <2> QED
    BY <1>1, <1>4, <1>5, <2>1, PositionsStaySafe
<1>12. ServerForgetsNothing'
  BY <1>1, <1>6 DEF ServerForgetsNothing
<1>13. ManagerFits'
  BY <1>1 DEF ManagerFits
<1>14. SessionsFit'
  BY <1>1, <1>4, <1>6, <1>8 DEF SessionsFit, GaveUp, Receiver!Idle
<1> QED
  BY <1>7, <1>9, <1>10, <1>11, <1>12, <1>13, <1>14

\* The server's own steps touch neither the manager nor the receiver.
LEMMA ServerAlone ==
    ASSUME TypeOK, HandlersFit, UNCHANGED <<managerVars, receiverVars>>
    PROVE  /\ UNCHANGED <<sub, secret, start, loop, stop, call>>
           /\ UNCHANGED <<seen, schedule, conn, woken, raised>>
           /\ ManagerTypeOK' /\ Receiver!TypeOK' /\ HandlersFit'
<1>1. /\ UNCHANGED <<sub, secret, start, loop, stop, call>>
      /\ UNCHANGED <<seen, schedule, conn, woken, raised>>
  BY DEF managerVars, receiverVars
<1>2. ManagerTypeOK' /\ Receiver!TypeOK'
  BY <1>1, ManagerRests DEF TypeOK, Receiver!TypeOK
<1>3. HandlersFit'
  BY <1>1 DEF HandlersFit
<1> QED
  BY <1>1, <1>2, <1>3

\* A step of the server that begins no session and moves no cursor.
LEMMA QuietServerKeepsIInv ==
    ASSUME IInv, UNCHANGED <<managerVars, receiverVars, reply>>,
           UNCHANGED <<emitted, skipped, key, subscribed, crashes>>,
           waived \subseteq waived', waived' \subseteq 1..emitted,
           ~subscribed => waived' = waived,
           hears' \subseteq hears,
           \/ UNCHANGED <<live, from, acked>>
           \/ live' = FALSE /\ from' = 0 /\ acked' = {} /\ gap' = {} /\ hears' = {},
           \/ gap' \subseteq gap
           \/ live' /\ gap' = {emitted} /\ emitted > 0 /\ Safe(emitted)'
    PROVE  IInv'
<1> USE DEF IInv
<1>1. /\ UNCHANGED <<sub, secret, start, loop, stop, call>>
      /\ UNCHANGED <<seen, schedule, conn, woken, raised>>
      /\ ManagerTypeOK' /\ Receiver!TypeOK' /\ HandlersFit'
  BY ServerAlone
<1>2. emitted \in 0..MaxEvents /\ MaxEvents \in Nat /\ emitted \in Cursor /\ 0 \in Cursor
  BY Bounds DEF TypeOK
<1>3. Grows
  BY <1>1, <1>2 DEF Grows
<1>4. TypeOK'
  <2>1. waived' \subseteq Event
    BY <1>2 DEF Event
  <2>2. gap' \subseteq Cursor /\ hears' \subseteq Conn
    BY <1>2 DEF TypeOK
  <2>3. CASE UNCHANGED <<live, from, acked>>
    BY <1>1, <2>1, <2>2, <2>3 DEF TypeOK
  <2>4. CASE live' = FALSE /\ from' = 0 /\ acked' = {}
    BY <1>1, <1>2, <2>1, <2>2, <2>4 DEF TypeOK
  <2> QED
    BY <2>3, <2>4
<1>5. InStream'
  BY <1>1 DEF InStream
<1>6. PositionsAreSafe'
  <2>1. Safe(0)'
    BY <1>2 DEF Safe
  <2>2. \A k \in reply' \cup gap' \cup {from'} :
            k \in reply \cup gap \cup {from} \/ Safe(k)'
    BY <2>1
  <2> QED
    BY <1>1, <1>3, <2>2, PositionsStaySafe
<1>7. ServerForgetsNothing'
  BY <1>1 DEF ServerForgetsNothing
<1>8. ManagerFits'
  BY <1>1 DEF ManagerFits
<1>9. SessionsFit'
  BY <1>1 DEF SessionsFit, GaveUp
<1> QED
  BY <1>1, <1>4, <1>5, <1>6, <1>7, <1>8, <1>9

\* Timeouts and waivers; a loss of the session forgets, and adds no position.
LEMMA ServerKeepsIInv ==
    ASSUME IInv,
           \/ \E c \in Conn : AttemptTimesOut(c)
           \/ \E e \in Event : Abandon(e)
           \/ GapHappens \/ SessionLost
    PROVE  IInv'
<1>1. /\ acked \cup waived \subseteq 1..emitted
      /\ Pending \subseteq 1..emitted
      /\ live => subscribed
      /\ emitted \in Nat
  BY Bounds DEF IInv, InStream, Pending, SessionsFit, TypeOK
<1>2. ASSUME NEW c \in Conn, AttemptTimesOut(c) PROVE IInv'
  BY <1>1, <1>2, QuietServerKeepsIInv
     DEF AttemptTimesOut, Fault, streamVars, sessionVars
<1>3. ASSUME NEW e \in Event, Abandon(e) PROVE IInv'
  BY <1>1, <1>3, QuietServerKeepsIInv DEF Abandon, Waiver, sessionVars
<1>4. CASE GapHappens
  <2>1. /\ live /\ Pending # {} /\ waived' = waived \cup Pending /\ gap' = {emitted}
        /\ UNCHANGED <<managerVars, receiverVars, emitted, skipped, hears, reply>>
        /\ UNCHANGED <<live, key, from, acked, subscribed, crashes>>
    BY <1>4 DEF GapHappens, Waiver
  <2>2. emitted > 0
    <3>1. PICK p \in Pending : p \in 1..emitted
      BY <1>1, <2>1
    <3> QED
      BY <1>1, <3>1
  <2>3. Safe(emitted)'
    <3>1. \A e \in 1..emitted : e \in Pending \/ Handled(e) \/ e \in skipped
      BY WatermarkIsSafe DEF IInv, PositionsAreSafe
    <3>2. UNCHANGED woken
      BY <2>1 DEF receiverVars
    <3> QED
      BY <1>1, <2>1, <3>1, <3>2 DEF Safe, Handled
  <2> QED
    BY <1>1, <2>1, <2>2, <2>3, QuietServerKeepsIInv
<1>5. CASE SessionLost
  BY <1>1, <1>5, QuietServerKeepsIInv DEF SessionLost, Fault, streamVars
<1> QED
  BY <1>2, <1>3, <1>4, <1>5

\* A session begins at the position it is given, which is safe, or skips what was
\* emitted before it and counts that as skipped.
LEMMA ServerSubscribesKeepsIInv ==
    ASSUME IInv, ServerSubscribes
    PROVE  IInv'
<1> USE DEF IInv
<1>1. PICK c \in call :
           /\ c.method = "events/subscribe"
           /\ from' = IF live THEN from
                      ELSE IF c.cursor = None THEN emitted ELSE c.cursor
           /\ reply' = {IF live THEN Watermark ELSE from'}
           /\ skipped' = IF live \/ c.cursor # None THEN skipped
                         ELSE skipped \cup {e \in 1..emitted : ~Handled(e)}
  BY DEF ServerSubscribes
<1>2. /\ reply = {} /\ live' = TRUE /\ subscribed' = TRUE
      /\ \A s \in secret : key' = s
      /\ UNCHANGED <<emitted, waived, acked, gap, hears, crashes>>
  BY DEF ServerSubscribes, boundVars
<1>3. /\ UNCHANGED <<sub, secret, start, loop, stop, call>>
      /\ UNCHANGED <<seen, schedule, conn, woken, raised>>
      /\ ManagerTypeOK' /\ Receiver!TypeOK' /\ HandlersFit'
  BY ServerAlone DEF ServerSubscribes
<1>4. emitted \in 0..MaxEvents /\ MaxEvents \in Nat /\ emitted \in Cursor
  BY Bounds DEF TypeOK
<1>5. skipped \subseteq skipped' /\ skipped' \subseteq Event
  <2>1. {e \in 1..emitted : ~Handled(e)} \subseteq Event
    BY <1>4 DEF Event
  <2> QED
    BY <1>1, <2>1 DEF TypeOK
<1>6. Grows
  BY <1>2, <1>3, <1>4, <1>5 DEF Grows
<1>7. /\ c.cursor # None => c.cursor \in Cursor /\ Safe(c.cursor)'
      /\ from \in Cursor /\ \A k \in {from} : Safe(k)'
      /\ Watermark \in Cursor /\ Safe(Watermark)
  BY <1>1, <1>6, HeldStaysSafe, WatermarkIsSafe DEF PositionsAreSafe
<1>8. from' \in Cursor /\ \A k \in {from'} : Safe(k)'
  <2>1. ~live /\ c.cursor = None => \A k \in {emitted} : Safe(k)'
    BY <1>1, <1>2, <1>3, <1>4 DEF Safe, Handled
  <2> QED
    BY <1>1, <1>4, <1>7, <2>1
<1>9. reply' \subseteq Cursor /\ \A k \in reply' : Safe(k)'
  <2>1. \A k \in Cursor : Safe(k) => Safe(k)'
    BY <1>6, SafeStays DEF TypeOK
  <2> QED
    BY <1>1, <1>7, <1>8, <2>1
<1>10. start = "subscribe" \/ (loop = "refresh" /\ start = "returned")
  BY <1>1 DEF ManagerFits
<1>11. TypeOK'
  <2>1. key' \in Secret
    BY <1>2, <1>10 DEF ManagerFits, TypeOK, ManagerTypeOK
  <2> QED
    BY <1>2, <1>3, <1>5, <1>8, <1>9, <2>1 DEF TypeOK
<1>12. InStream'
  BY <1>2, <1>3 DEF InStream
<1>13. PositionsAreSafe'
  BY <1>2, <1>3, <1>6, <1>8, <1>9, PositionsStaySafe
<1>14. ServerForgetsNothing'
  BY <1>2, <1>3 DEF ServerForgetsNothing
<1>15. ManagerFits'
  BY <1>1, <1>2, <1>3, <1>10 DEF ManagerFits
<1>16. SessionsFit'
  <2>1. ASSUME crashes = 0, ~GaveUp PROVE skipped' = {}
    <3>1. skipped = {}
      BY <2>1 DEF SessionsFit
    <3>2. ASSUME ~live, c.cursor = None PROVE \A e \in 1..emitted : Handled(e)
      <4>1. start = "subscribe"
        BY <1>1, <3>2 DEF ManagerFits
      <4>2. ~subscribed
        BY <1>2, <2>1, <4>1 DEF SessionsFit
      <4> QED
        BY <4>2 DEF SessionsFit, Handled
    <3> QED
      BY <1>1, <3>1, <3>2
  <2>2. reply' # {}
    BY <1>1
  <2>3. start = "returned" => \A s \in sub : s.cursor # None
    BY DEF SessionsFit
  <2> QED
    BY <1>2, <1>3, <1>10, <2>1, <2>2, <2>3 DEF SessionsFit, GaveUp
<1> QED
  BY <1>3, <1>11, <1>12, <1>13, <1>14, <1>15, <1>16
-----------------------------------------------------------------------------
(* The invariant in the manager's steps and in a crash *)

\* A step of the manager touches neither the stream nor the receiver, and what
\* it holds afterwards it held before.
LEMMA ManagerKeepsIInv ==
    ASSUME IInv, ManagerStep, ManagerFits', SessionsFit',
           UNCHANGED <<receiverVars, streamVars, sessionVars>>,
           hears' = hears, reply' \subseteq reply,
           \A s \in sub' : s.cursor # None => s \in sub \/ s.cursor \in reply,
           \A c \in call' : c.method = "events/subscribe" /\ c.cursor # None =>
               c \in call \/ \E s \in sub : c.cursor = s.cursor
    PROVE  IInv'
<1> USE DEF IInv
<1>1. /\ UNCHANGED <<seen, schedule, conn, woken, raised, emitted, waived, skipped>>
      /\ UNCHANGED <<live, key, from, acked, gap, subscribed>>
  BY DEF receiverVars, streamVars, sessionVars
<1>2. Grows
  BY <1>1 DEF Grows, TypeOK
<1>3. ManagerTypeOK'
  BY ManagerKeepsType DEF TypeOK
<1>4. TypeOK'
  <2>1. Receiver!TrackedType(sub')
    BY <1>3, SameOperators DEF ManagerTypeOK
  <2>2. Receiver!TypeOK'
    BY <1>1, <2>1 DEF TypeOK, Receiver!TypeOK
  <2> QED
    BY <1>1, <1>3, <2>2 DEF TypeOK
<1>5. HandlersFit'
  BY <1>1 DEF HandlersFit
<1>6. InStream'
  BY <1>1 DEF InStream
<1>7. PositionsAreSafe'
  <2>1. \A s \in sub' : s.cursor # None => s \in sub \/ Safe(s.cursor)'
    BY <1>2, HeldStaysSafe
  <2>2. \A c \in call' : c.method = "events/subscribe" /\ c.cursor # None =>
            c \in call \/ Safe(c.cursor)'
    BY <1>2, HeldStaysSafe
  <2> QED
    BY <1>1, <1>2, <2>1, <2>2, PositionsStaySafe
<1>8. ServerForgetsNothing'
  BY <1>1 DEF ServerForgetsNothing
<1> QED
  BY <1>4, <1>5, <1>6, <1>7, <1>8

\* Of these, a refresh takes the cursor into its call (subscription.py:290-297).
LEMMA ManagerAloneKeepsIInv ==
    ASSUME IInv, ManagerAlone
    PROVE  IInv'
<1> USE DEF IInv
<1>1. /\ UNCHANGED <<receiverVars, streamVars, sessionVars, hears, reply>>
      /\ UNCHANGED <<conn, emitted, waived, skipped, live, acked, gap, subscribed, crashes>>
  BY DEF ManagerAlone, receiverVars, streamVars, sessionVars, boundVars
<1>2. ManagerTypeOK /\ crashes \in Secret
  BY Bounds DEF TypeOK, ManagerFits
<1>3. CASE StartBegins \/ InitializeReturns
  <2>1. /\ start \in {"new", "initialize"} /\ start' \in {"initialize", "list"}
        /\ UNCHANGED <<sub, secret, loop, stop>>
        /\ \A c \in call' : c.method # "events/subscribe"
    BY <1>3 DEF StartBegins, InitializeReturns, Issue
  <2>2. ManagerFits' /\ SessionsFit'
    BY <1>1, <2>1 DEF ManagerFits, SessionsFit, GaveUp
  <2> QED
    BY <1>1, <1>3, <2>1, <2>2, ManagerKeepsIInv DEF ManagerStep
<1>4. CASE ListReturns(crashes)
  <2>1. /\ start = "list" /\ start' = "subscribe"
        /\ UNCHANGED <<loop, stop>>
        /\ secret' = {crashes}
        /\ sub' # {} /\ \A s \in sub' : s.cursor = None
        /\ call' = {[method |-> "events/subscribe", cursor |-> None]}
    BY <1>4 DEF ListReturns, Subscribe, SetPending
  <2>2. ManagerFits' /\ SessionsFit'
    BY <1>1, <2>1 DEF ManagerFits, SessionsFit, GaveUp
  <2>3. ManagerStep
    BY <1>2, <1>4 DEF ManagerStep
  <2> QED
    BY <1>1, <2>1, <2>2, <2>3, ManagerKeepsIInv
<1>5. CASE LoopSleeps
  <2>1. loop = "top" /\ loop' = "sleep" /\ UNCHANGED <<sub, secret, start, stop, call>>
    BY <1>5 DEF LoopSleeps
  <2>2. ManagerFits' /\ SessionsFit'
    BY <1>1, <2>1 DEF ManagerFits, SessionsFit, GaveUp
  <2> QED
    BY <1>1, <1>5, <2>1, <2>2, ManagerKeepsIInv DEF ManagerStep
<1>6. CASE RefreshBegins
  <2>1. /\ loop = "sleep" /\ loop' = "refresh" /\ UNCHANGED <<sub, secret, start, stop>>
        /\ call' = {[method |-> "events/subscribe",
                     cursor |-> IF Tracked(sub) THEN Current(sub).cursor ELSE None]}
    BY <1>6 DEF RefreshBegins, Subscribe
  <2>2. start = "returned"
    BY <2>1 DEF ManagerFits
  <2>3. sub # {} /\ Current(sub) \in sub /\ Current(sub).cursor # None
    BY <2>2 DEF ManagerFits, SessionsFit, Current
  <2>4. call' = {[method |-> "events/subscribe", cursor |-> Current(sub).cursor]}
    BY <2>1, <2>3 DEF Tracked
  <2>5. \A c \in call' : c.cursor # None /\ \E s \in sub : c.cursor = s.cursor
    BY <2>3, <2>4
  <2>6. ManagerFits'
    BY <1>1, <2>1, <2>2, <2>3, <2>5 DEF ManagerFits
  <2>7. SessionsFit'
    BY <1>1, <2>1, <2>2, <2>3 DEF SessionsFit, GaveUp
  <2> QED
    BY <1>1, <1>6, <2>1, <2>5, <2>6, <2>7, ManagerKeepsIInv DEF ManagerStep
<1> QED
  BY <1>3, <1>4, <1>5, <1>6 DEF ManagerAlone

\* The response of a subscribe, stale as it may be, overwrites the cursor
\* (subscription.py:177, :298).
LEMMA ReplyArrivesKeepsIInv ==
    ASSUME IInv, ReplyArrives
    PROVE  IInv'
<1> USE DEF IInv
<1>1. /\ UNCHANGED <<receiverVars, streamVars, sessionVars>> /\ reply' = {}
      /\ UNCHANGED <<conn, emitted, waived, skipped, live, acked, gap, subscribed>>
      /\ UNCHANGED <<hears, crashes>>
  BY DEF ReplyArrives, receiverVars, streamVars, sessionVars, boundVars
<1>2. PICK k \in reply, id \in SubId, g \in Grant :
           LET r == [id |-> id, refreshBefore |-> g, cursor |-> k]
           IN  StartSubscribed(r) \/ RefreshReturns(r)
  BY DEF ReplyArrives
<1> DEFINE r == [id |-> id, refreshBefore |-> g, cursor |-> k]
<1>3. r \in Result /\ r.cursor = k /\ k \in Cursor /\ k # None
  BY Bounds DEF Result, TypeOK
<1> HIDE DEF r
<1>4. StartSubscribed(r) \/ RefreshReturns(r)
  BY <1>2 DEF r
<1>5. Stores(r) /\ TrackedType(sub) /\ call' = {}
  BY <1>4 DEF StartSubscribed, RefreshReturns, Stores, TypeOK, ManagerTypeOK
<1>6. sub' # {} /\ \A s \in sub' : s.cursor = k
  <2>1. sub # {}
    BY <1>4 DEF StartSubscribed, RefreshReturns, ManagerFits
  <2> QED
    BY <1>3, <1>5, <2>1, StoresCursor
<1>7. /\ start' = "returned" /\ secret' = secret /\ secret # {}
      /\ loop' = "top" /\ start \in {"subscribe", "returned"}
  BY <1>4 DEF StartSubscribed, RefreshReturns, ManagerFits
<1>8. subscribed
  BY <1>2 DEF SessionsFit
<1>9. ManagerFits'
  BY <1>1, <1>5, <1>6, <1>7 DEF ManagerFits
<1>10. SessionsFit'
  <2>1. crashes' = 0 /\ ~GaveUp' => skipped' = {}
    BY <1>1, <1>7 DEF SessionsFit, GaveUp
  <2> QED
    BY <1>1, <1>3, <1>6, <1>7, <1>8, <2>1 DEF SessionsFit
<1>11. ManagerStep
  BY <1>3, <1>4 DEF ManagerStep
<1> QED
  BY <1>1, <1>3, <1>5, <1>6, <1>9, <1>10, <1>11, ManagerKeepsIInv

\* A failed call leaves the record as it was.
LEMMA CallFailsKeepsIInv ==
    ASSUME IInv, CallFails
    PROVE  IInv'
<1> USE DEF IInv
<1>1. /\ UNCHANGED <<receiverVars, streamVars, sessionVars>> /\ reply' = {}
      /\ UNCHANGED <<conn, emitted, waived, skipped, live, acked, gap, subscribed>>
      /\ UNCHANGED <<hears, crashes>>
  BY DEF CallFails, Fault, receiverVars, streamVars, sessionVars
<1>2. CASE StartFails
  <2>1. /\ start \in {"initialize", "list", "subscribe"} /\ start' = "failed" /\ call' = {}
        /\ UNCHANGED <<sub, secret, loop, stop>>
    BY <1>2 DEF StartFails, Starting, StartEnds
  <2>2. ManagerFits' /\ SessionsFit'
    BY <1>1, <2>1 DEF ManagerFits, SessionsFit, GaveUp
  <2> QED
    BY <1>1, <1>2, <2>1, <2>2, ManagerKeepsIInv DEF ManagerStep
<1>3. CASE RefreshFails
  <2>1. /\ loop = "refresh" /\ loop' = "top" /\ call' = {}
        /\ UNCHANGED <<sub, secret, start, stop>>
    BY <1>3 DEF RefreshFails, LoopEnds
  <2>2. ManagerFits' /\ SessionsFit'
    BY <1>1, <2>1 DEF ManagerFits, SessionsFit, GaveUp
  <2> QED
    BY <1>1, <1>3, <2>1, <2>2, ManagerKeepsIInv DEF ManagerStep
<1> QED
  BY <1>2, <1>3 DEF CallFails

\* A crash forgets every position but the server's.
LEMMA CrashKeepsIInv ==
    ASSUME IInv, Crash
    PROVE  IInv'
<1> USE DEF IInv
<1>1. /\ UNCHANGED <<schedule, woken, raised, emitted, waived, skipped>>
      /\ UNCHANGED <<live, key, from, acked, gap, subscribed>>
      /\ sub' = {} /\ secret' = {} /\ start' = "new" /\ loop' = "none" /\ stop' = "none"
      /\ call' = {} /\ seen' = <<>> /\ hears' = {} /\ reply' = {}
      /\ conn' = [c \in Conn |-> Receiver!Idle]
      /\ crashes < MaxCrashes /\ crashes' = crashes + 1
  BY DEF Crash, streamVars, sessionVars
<1>2. \A c \in Conn : conn'[c] = Receiver!Idle
  BY <1>1
<1>3. Grows
  BY <1>1 DEF Grows, TypeOK
<1>4. TypeOK'
  <2>1. ManagerTypeOK'
    BY <1>1 DEF ManagerTypeOK, TrackedType, StartPc, LoopPc, StopPc
  <2>2. conn' \in [Conn -> Receiver!ConnType]
    BY <1>1 DEF Receiver!Idle, Receiver!ConnType, Receiver!Phase, Receiver!Status
  <2>3. Receiver!TypeOK'
    BY <1>1, <1>2, <2>2, CapacityAssumption
       DEF TypeOK, Receiver!TypeOK, Receiver!Idle, Receiver!TrackedType
  <2> QED
    BY <1>1, <2>1, <2>3 DEF TypeOK
<1>5. HandlersFit'
  BY <1>1, <1>2 DEF HandlersFit, Receiver!Idle, IsSeen, Contains
<1>6. InStream'
  BY <1>1, <1>2 DEF InStream, Receiver!Idle
<1>7. PositionsAreSafe'
  <2>1. \A c \in Conn : conn'[c].request = {}
    BY <1>2 DEF Receiver!Idle
  <2> QED
    BY <1>1, <1>3, <2>1, PositionsStaySafe
<1>8. ServerForgetsNothing'
  BY <1>1 DEF ServerForgetsNothing
<1>9. ManagerFits'
  <2>1. crashes' \in 0..MaxCrashes
    BY <1>1, Bounds DEF ManagerFits
  <2> QED
    BY <1>1, <2>1 DEF ManagerFits
<1>10. SessionsFit'
  <2>1. crashes' # 0
    BY <1>1, Bounds DEF ManagerFits
  <2> QED
    BY <1>1, <1>2, <2>1 DEF SessionsFit, Receiver!Idle
<1> QED
  BY <1>4, <1>5, <1>6, <1>7, <1>8, <1>9, <1>10
-----------------------------------------------------------------------------
(* Every step *)

\* A step that changes nothing.
LEMMA StutterKeepsIInv ==
    ASSUME IInv, UNCHANGED vars
    PROVE  IInv'
<1> USE DEF IInv
<1>1. /\ UNCHANGED <<managerVars, receiverVars, reply>>
      /\ UNCHANGED <<emitted, skipped, waived, key, subscribed, crashes>>
      /\ UNCHANGED <<live, from, acked, gap, hears>>
  BY DEF vars, streamVars, sessionVars, boundVars
<1>2. waived \subseteq 1..emitted
  BY DEF InStream
<1> QED
  BY <1>1, <1>2, QuietServerKeepsIInv

\* One case per action.
LEMMA NextIInv ==
    ASSUME IInv, [Next]_vars
    PROVE  IInv'
<1>1. CASE Emit
  BY <1>1, EmitKeepsIInv
<1>2. ASSUME NEW e \in Event, Deliver(e) PROVE IInv'
  BY <1>2, DeliverKeepsIInv
<1>3. CASE DeliverGap
  BY <1>3, GapKeepsIInv
<1>4. ASSUME NEW c \in Conn, AnswerArrives(c) PROVE IInv'
  BY <1>4, AnswerArrivesKeepsIInv
<1>5. CASE \/ \E c \in Conn : AttemptTimesOut(c)
           \/ \E e \in Event : Abandon(e)
           \/ GapHappens \/ SessionLost
  BY <1>5, ServerKeepsIInv
<1>6. CASE ServerSubscribes
  BY <1>6, ServerSubscribesKeepsIInv
<1>7. ASSUME NEW c \in Conn, ReceiverStep(c) PROVE IInv'
  BY <1>7, ReceiverStepKeepsIInv
<1>8. CASE ManagerAlone
  BY <1>8, ManagerAloneKeepsIInv
<1>9. CASE ReplyArrives
  BY <1>9, ReplyArrivesKeepsIInv
<1>10. CASE CallFails
  BY <1>10, CallFailsKeepsIInv
<1>11. CASE Crash
  BY <1>11, CrashKeepsIInv
<1>12. CASE NothingLeft \/ UNCHANGED vars
  BY <1>12, StutterKeepsIInv DEF NothingLeft
<1> QED
  BY <1>1, <1>2, <1>3, <1>4, <1>5, <1>6, <1>7, <1>8, <1>9, <1>10, <1>11, <1>12 DEF Next

\* The inductive invariant holds.
LEMMA Invariance == Spec => []IInv
<1>1. Init => IInv
  BY InitIInv
<1>2. IInv /\ [Next]_vars => IInv'
  BY NextIInv
<1> QED
  BY <1>1, <1>2, PTL DEF Spec

\* Types, for any stream and any number of faults.
THEOREM TypeCorrect == Spec => []TypeOK
<1>1. IInv => TypeOK
  BY DEF IInv
<1> QED
  BY <1>1, Invariance, PTL

\* The position a lost subscription resumes from, and the one in a response under
\* way, never passes over an event nobody woke, waived or skipped: the receiver's
\* commits (receiver.py:193, :245) and the manager's overwrites
\* (subscription.py:298-302) may come in any order.
THEOREM CursorStaysSafe == Spec => []CursorIsSafe
<1>1. IInv => CursorIsSafe
  BY DEF IInv, PositionsAreSafe, Safe, CursorIsSafe
<1> QED
  BY <1>1, Invariance, PTL

\* The server never hears of a success before the event was woken
\* (receiver.py:223-247).
THEOREM AckedIsWoken == Spec => []ServerForgetsNothing
<1>1. IInv => ServerForgetsNothing
  BY DEF IInv
<1> QED
  BY <1>1, Invariance, PTL
-----------------------------------------------------------------------------
(* The agent and the server implement the inbox *)

Done == {e \in 1..emitted : Handled(e)}
Excused == crashes > 0 \/ GaveUp

\* While nothing excuses it, an event of the stream is done or on offer.
NothingLost == /\ Offered \subseteq 1..emitted
               /\ ~Excused => 1..emitted \subseteq Offered \cup Done

\* What is emitted and not done lies after the position of the session and is
\* pending, or after the safe position the next session resumes from.
LEMMA NothingIsLost == IInv => NothingLost
<1> SUFFICES ASSUME IInv PROVE NothingLost
  OBVIOUS
<1> USE DEF IInv
<1>1. Offered \subseteq 1..emitted
  BY DEF Offered, Pending
<1>2. ASSUME ~Excused PROVE 1..emitted \subseteq Offered \cup Done
  <2>1. skipped = {}
    BY <1>2, Bounds DEF Excused, SessionsFit, ManagerFits
  <2>2. CASE live
    <3>1. \A e \in 1..emitted : e \in Pending \/ Handled(e) \/ e \in skipped
      BY WatermarkIsSafe DEF PositionsAreSafe
    <3> QED
      BY <2>1, <2>2, <3>1 DEF Offered, Done
  <2>3. CASE ~live /\ subscribed
    <3>1. ResumesFrom # {}
      <4>1. start = "returned" \/ reply # {}
        BY <1>2, <2>3, Bounds DEF Excused, SessionsFit, ManagerFits
      <4>2. CASE reply # {}
        BY <4>2 DEF ResumesFrom
      <4>3. CASE start = "returned"
        <5>1. \E s \in sub : s.cursor # None
          BY <4>3 DEF ManagerFits, SessionsFit
        <5> QED
          BY <4>2, <5>1 DEF ResumesFrom
      <4> QED
        BY <4>1, <4>2, <4>3
    <3>2. PICK k \in ResumesFrom : k \in Cursor /\ Safe(k)
      <4>1. \A k \in reply : k \in Cursor /\ Safe(k)
        BY DEF PositionsAreSafe, TypeOK
      <4>2. \A s \in sub : s.cursor # None => s.cursor \in Cursor /\ Safe(s.cursor)
        BY DEF PositionsAreSafe, TypeOK, ManagerTypeOK, TrackedType, Subscription
      <4> QED
        BY <3>1, <4>1, <4>2 DEF ResumesFrom
    <3>3. k \in Nat /\ emitted \in Nat
      BY <3>2, Bounds DEF TypeOK
    <3>4. \A e \in 1..emitted : e > k \/ Handled(e)
      BY <2>1, <3>2, <3>3 DEF Safe
    <3> QED
      BY <2>3, <3>4 DEF Offered, Done
  <2>4. CASE ~subscribed
    BY <2>4 DEF SessionsFit, Done, Handled
  <2> QED
    BY <2>2, <2>3, <2>4
<1> QED
  BY <1>1, <1>2 DEF NothingLost

\* Initial states map to initial states.
LEMMA InboxInit == Init => Inbox!Init
<1> SUFFICES ASSUME Init PROVE Inbox!Init
  OBVIOUS
<1>1. emitted = 0 /\ 1..emitted = {}
  BY DEF Init
<1>2. Offered = {}
  BY <1>1 DEF Offered, Pending
<1>3. Excused = FALSE
  BY DEF Init, ManagerInit, Excused, GaveUp
<1> QED
  BY <1>1, <1>2, <1>3 DEF Inbox!Init, Excused

\* A step that does nothing about any event may change what is on offer.
LEMMA QuietStep ==
    ASSUME IInv, IInv', emitted' = emitted, Done' = Done, Excused => Excused'
    PROVE  Inbox!Next
<1>0. NothingLost /\ NothingLost'
  BY NothingIsLost, PTL
<1>1. Offered' \subseteq 1..emitted
  BY <1>0 DEF NothingLost
<1>2. CASE Excused
  BY <1>1, <1>2 DEF Inbox!Next, Inbox!Lose, Excused, Done
<1>3. CASE ~Excused /\ Excused'
  BY <1>1, <1>3 DEF Inbox!Next, Inbox!Excuse, Excused, Done
<1>4. CASE ~Excused /\ ~Excused'
  <2>1. 1..emitted \subseteq Offered' \cup Done /\ Offered \subseteq 1..emitted
    BY <1>0, <1>4 DEF NothingLost
  <2>2. Offered \ Offered' \subseteq Done
    BY <2>1
  <2> QED
    BY <1>1, <1>4, <2>2 DEF Inbox!Next, Inbox!Reoffer, Excused, Done
<1> QED
  BY <1>2, <1>3, <1>4

\* A step that does something about events takes only these off offer.
LEMMA WorkStep ==
    ASSUME emitted' = emitted, Done \subseteq Done', Offered' \subseteq Offered,
           Offered \ Offered' \subseteq Done', Excused' <=> Excused
    PROVE  Inbox!Next
<1>1. Done' \subseteq 1..emitted
  BY DEF Done
<1> QED
  BY <1>1 DEF Inbox!Next, Inbox!Waive, Excused, Done

\* An event is on offer from the moment it is emitted.
LEMMA EmitIsEmit ==
    ASSUME IInv, Emit
    PROVE  Inbox!Next
<1> USE DEF IInv
<1>1. /\ UNCHANGED <<sub, start, woken, live, from, acked, subscribed, reply, crashes>>
      /\ emitted < MaxEvents /\ emitted' = emitted + 1
      /\ waived' = IF subscribed THEN waived ELSE waived \cup {emitted + 1}
  BY DEF Emit, managerVars, receiverVars, sessionVars, boundVars
<1>2. /\ emitted \in Nat /\ emitted + 1 \in Event /\ 1..(emitted + 1) = 1..emitted \cup {emitted + 1}
      /\ emitted + 1 \notin 1..emitted
  BY <1>1, Bounds DEF TypeOK, Event
<1>3. /\ woken[emitted + 1] \in Nat /\ ~(woken[emitted + 1] > 0)
      /\ emitted + 1 \notin acked \cup waived
  BY <1>2 DEF InStream, TypeOK, Receiver!TypeOK
<1>4. \A e \in 1..emitted : Handled(e)' <=> Handled(e)
  BY <1>1, <1>2 DEF Handled
<1>5. PICK new \in Event : new = emitted + 1
  BY <1>2
<1>6. Done' = IF subscribed THEN Done ELSE Done \cup {emitted + 1}
  <2>1. Handled(new)' <=> ~subscribed
    BY <1>1, <1>3, <1>5 DEF Handled
  <2>2. Done' = {e \in 1..emitted : Handled(e)'} \cup {e \in {new} : Handled(e)'}
    BY <1>1, <1>2, <1>5 DEF Done
  <2>3. {e \in 1..emitted : Handled(e)'} = Done
    BY <1>4 DEF Done
  <2> QED
    BY <1>5, <2>1, <2>2, <2>3
<1>7. Excused' <=> Excused
  BY <1>1 DEF Excused, GaveUp
<1>8. ResumesFrom' = ResumesFrom
  BY <1>1 DEF ResumesFrom
<1>9. CASE live
  <2>1. Pending' = Pending \cup {emitted + 1}
    <3>1. emitted + 1 > from
      BY <1>2, Bounds DEF PositionsAreSafe, Safe, TypeOK
    <3>2. waived' = waived
      BY <1>1, <1>9 DEF SessionsFit
    <3> QED
      BY <1>1, <1>2, <1>3, <3>1, <3>2 DEF Pending
  <2>2. Offered' = Offered \cup {emitted + 1} /\ Done' = Done
    BY <1>1, <1>6, <1>9, <2>1 DEF Offered, SessionsFit
  <2> QED
    BY <1>1, <1>7, <2>2 DEF Inbox!Next, Inbox!Emit, Done, Excused
<1>10. CASE ~live /\ ResumesFrom # {}
  <2>1. subscribed
    BY <1>10 DEF ResumesFrom, SessionsFit
  <2>2. \A k \in ResumesFrom : emitted + 1 > k
    <3>1. \A k \in ResumesFrom : k \in Cursor /\ k <= emitted
      BY DEF ResumesFrom, PositionsAreSafe, Safe, TypeOK, ManagerTypeOK, TrackedType,
             Subscription
    <3> QED
      BY <1>2, <3>1, Bounds
  <2>3. Offered' = Offered \cup {emitted + 1} /\ Done' = Done
    BY <1>1, <1>2, <1>6, <1>8, <1>10, <2>1, <2>2 DEF Offered
  <2> QED
    BY <1>1, <1>7, <2>3 DEF Inbox!Next, Inbox!Emit, Done, Excused
<1>11. CASE ~live /\ ResumesFrom = {}
  <2>1. Offered' = {} /\ Offered = {}
    BY <1>1, <1>8, <1>11 DEF Offered
  <2>2. CASE ~subscribed
    BY <1>1, <1>6, <1>7, <2>1, <2>2 DEF Inbox!Next, Inbox!Emit, Done, Excused
  <2>3. CASE subscribed
    <3>1. Excused
      <4>1. reply = {} /\ \A s \in sub : s.cursor = None
        BY <1>11 DEF ResumesFrom
      <4>2. start # "returned"
        BY <4>1 DEF SessionsFit, ManagerFits
      <4> QED
        BY <2>3, <4>1, <4>2, Bounds DEF Excused, SessionsFit, ManagerFits
    <3> QED
      BY <1>1, <1>6, <1>7, <2>1, <2>3, <3>1 DEF Inbox!Next, Inbox!Emit, Done, Excused
  <2> QED
    BY <2>2, <2>3
<1> QED
  BY <1>9, <1>10, <1>11

\* Nothing is woken or waived.
LEMMA NothingDone ==
    ASSUME UNCHANGED <<emitted, waived, woken>>
    PROVE  Done' = Done
BY DEF Done, Handled

\* The server waives what is on offer.
LEMMA WaiverIsWork ==
    ASSUME IInv, GapHappens \/ \E e \in Event : Abandon(e)
    PROVE  Inbox!Next
<1>1. /\ live /\ UNCHANGED <<emitted, woken, live, from, acked, start, crashes>>
      /\ waived \subseteq waived' /\ waived' \ waived \subseteq Pending
  BY DEF GapHappens, Abandon, Waiver, managerVars, receiverVars, sessionVars
<1>2. Done \subseteq Done'
  BY <1>1 DEF Done, Handled
<1>3. Offered = Pending /\ Offered' = Pending'
  BY <1>1 DEF Offered
<1>4. Pending' \subseteq Pending /\ Pending \ Pending' \subseteq waived'
  BY <1>1 DEF Pending
<1>5. Pending \subseteq 1..emitted
  BY DEF Pending
<1>6. Offered \ Offered' \subseteq Done'
  BY <1>1, <1>3, <1>4, <1>5 DEF Done, Handled
<1>7. Excused' <=> Excused
  BY <1>1 DEF Excused, GaveUp
<1> QED
  BY <1>1, <1>2, <1>3, <1>4, <1>6, <1>7, WorkStep

\* The runtime takes what is on offer, or what is done already.
LEMMA ReceiverIsWork ==
    ASSUME IInv, IInv', NEW c \in Conn, ReceiverStep(c)
    PROVE  Inbox!Next
<1>1. /\ UNCHANGED <<start, emitted, waived, live, from, acked, reply, crashes>>
  BY DEF ReceiverStep, Fault, streamVars, sessionVars, boundVars
<1>2. HandlerMoves(c)
  BY HandlerSteps DEF ReceiverStep, IInv
<1>3. Excused' <=> Excused
  BY <1>1 DEF Excused, GaveUp
<1>4. CASE woken' = woken
  BY <1>1, <1>3, <1>4, NothingDone, QuietStep
<1>5. CASE sub' = sub
  <2>1. Offered' = Offered
    BY <1>1, <1>5 DEF Offered, Pending, ResumesFrom
  <2>2. \A e \in Event : woken[e] > 0 => woken'[e] > 0
    BY <1>2, HandlerWakes DEF IInv
  <2>3. 1..emitted \subseteq Event
    BY Bounds DEF IInv, TypeOK, Event
  <2>4. Done \subseteq Done'
    BY <1>1, <2>2, <2>3 DEF Done, Handled
  <2> QED
    BY <1>1, <1>3, <2>1, <2>4, WorkStep
<1> QED
  BY <1>2, <1>4, <1>5 DEF HandlerMoves

\* The rest: posts, answers, the session, the manager, a crash.
LEMMA OthersAreQuiet ==
    ASSUME IInv, IInv',
           \/ \E e \in Event : Deliver(e)
           \/ \E c \in Conn : AnswerArrives(c) \/ AttemptTimesOut(c)
           \/ DeliverGap \/ SessionLost \/ ServerSubscribes
           \/ ManagerAlone \/ ReplyArrives \/ CallFails \/ Crash \/ NothingLeft
    PROVE  Inbox!Next
<1>1. UNCHANGED <<emitted, waived, woken>>
  BY DEF Deliver, AnswerArrives, AttemptTimesOut, DeliverGap, SessionLost, ServerSubscribes,
         ManagerAlone, ReplyArrives, CallFails, Crash, NothingLeft, Receiver!Post,
         Receiver!Finish, Receiver!runtime, streamVars, receiverVars, vars
<1>2. Excused => Excused'
  <2>1. start = "failed" => start' = "failed" \/ crashes' > 0
    <3>1. start = "failed" => loop = "none"
      BY DEF IInv, ManagerFits
    <3>2. CASE ManagerAlone
      BY <3>1, <3>2 DEF ManagerAlone, StartBegins, InitializeReturns, ListReturns, LoopSleeps,
                        RefreshBegins
    <3>3. CASE ReplyArrives
      BY <3>1, <3>3 DEF ReplyArrives, StartSubscribed, RefreshReturns
    <3>4. CASE CallFails
      BY <3>1, <3>4 DEF CallFails, StartFails, Starting, RefreshFails, LoopEnds
    <3>5. CASE Crash
      BY <3>5, Bounds DEF Crash, IInv, ManagerFits
    <3> QED
      BY <3>2, <3>3, <3>4, <3>5
         DEF Deliver, AnswerArrives, AttemptTimesOut, DeliverGap, SessionLost,
             ServerSubscribes, NothingLeft, managerVars, vars
  <2>2. crashes > 0 => crashes' > 0
    BY Bounds
       DEF Deliver, AnswerArrives, AttemptTimesOut, DeliverGap, SessionLost, ServerSubscribes,
           ManagerAlone, ReplyArrives, CallFails, Crash, NothingLeft, Fault, boundVars, vars,
           IInv, ManagerFits
  <2> QED
    BY <2>1, <2>2 DEF Excused, GaveUp
<1> QED
  BY <1>1, <1>2, NothingDone, QuietStep

\* Every step maps to a step of the inbox or to a stutter.
LEMMA StepsRefine ==
    ASSUME IInv, IInv', [Next]_vars
    PROVE  [Inbox!Next]_Inbox!vars
<1>1. CASE Emit
  BY <1>1, EmitIsEmit
<1>2. CASE GapHappens \/ \E e \in Event : Abandon(e)
  BY <1>2, WaiverIsWork
<1>3. ASSUME NEW c \in Conn, ReceiverStep(c) PROVE Inbox!Next
  BY <1>3, ReceiverIsWork
<1>4. CASE \/ \E e \in Event : Deliver(e)
           \/ \E c \in Conn : AnswerArrives(c) \/ AttemptTimesOut(c)
           \/ DeliverGap \/ SessionLost \/ ServerSubscribes
           \/ ManagerAlone \/ ReplyArrives \/ CallFails \/ Crash \/ NothingLeft
  BY <1>4, OthersAreQuiet
<1>5. CASE UNCHANGED vars
  <2>1. UNCHANGED <<emitted, waived, woken, start, crashes>>
    BY <1>5 DEF vars, managerVars, receiverVars, streamVars, boundVars
  <2> QED
    BY <2>1, NothingDone, QuietStep DEF Excused, GaveUp
<1> QED
  BY <1>1, <1>2, <1>3, <1>4, <1>5 DEF Next

\* While its process lives and has not given up, whatever was emitted is handled
\* or will be delivered, now or from the position the next subscribe resumes at.
THEOREM NothingGoesMissing == Spec => []NothingLost
<1> QED
  BY Invariance, NothingIsLost, PTL

\* No subscription begins past an unhandled event (a cursorless subscribe,
\* subscription.py:169-176) as long as the process lives and has not given up.
THEOREM SkipsOnlyWhenExcused == Spec => [](~Excused => skipped = {})
<1>1. IInv => (~Excused => skipped = {})
  BY Bounds DEF IInv, Excused, SessionsFit, ManagerFits
<1> QED
  BY <1>1, Invariance, PTL

\* The agent and the server together are an at-least-once inbox: no event goes off
\* offer undone, whatever the order of deliveries, commits, refreshes and losses of
\* the subscription (receiver.py:193-247, subscription.py:239-302), unless the agent
\* was restarted or gave up.
THEOREM ImplementsInbox == Spec => IsInbox
<1>1. Init => Inbox!Init
  BY InboxInit
<1>2. IInv /\ IInv' /\ [Next]_vars => [Inbox!Next]_Inbox!vars
  BY StepsRefine
<1> QED
  BY <1>1, <1>2, Invariance, PTL DEF Spec, IsInbox, Inbox!Spec
=============================================================================
