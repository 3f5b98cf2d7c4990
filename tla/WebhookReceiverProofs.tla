----------------------- MODULE WebhookReceiverProofs ------------------------
(***************************************************************************)
(* For any number of connections, events, keys and cursors, any requests   *)
(* and any capacity: no event is acknowledged without a workflow, the      *)
(* persisted cursor was earned, an event is woken at most once for each    *)
(* handler that overlaps and each late failure, and once an event is       *)
(* settled nothing wakes it again.                                         *)
(***************************************************************************)
EXTENDS WebhookReceiver, DedupLruProofs

\* A handler past the dedup check holds an authentic event delivery, under the
\* secret that is tracked: nothing replaces that secret while it waits.
WaitingIsAuthentic ==
    \A c \in Conn :
        conn[c].phase \in {"scheduling", "accepted"} =>
            LET r == RequestOf(c)
            IN  /\ r.kind = "event" /\ r.fresh
                /\ Tracked(sub)
                /\ \A s \in sub : s.secret \in SignedBy(r)

\* A handler about to commit, and every recorded id, has its workflow.
CommitIsWoken ==
    /\ \A c \in Conn :
           conn[c].phase = "accepted" => woken[RequestOf(c).event] > 0
    /\ \A e \in Event : IsSeen(seen, e) => woken[e] > 0

\* The inductive invariant.  AckedEventIsWoken alone is not inductive: a
\* duplicate is acknowledged because its id is recorded, and a commit because
\* the runtime accepted, so CommitIsWoken has to come along; CursorIsEarned
\* needs WaitingIsAuthentic in the same way.
IInv == /\ TypeOK
        /\ WaitingIsAuthentic
        /\ CommitIsWoken
        /\ AckedEventIsWoken
        /\ CursorIsEarned

\* A connection that is not idle has one request.
LEMMA RequestOfIsRequest ==
    ASSUME TypeOK, NEW c \in Conn, conn[c].phase # "idle"
    PROVE  /\ RequestOf(c) \in Request
           /\ conn[c].request = {RequestOf(c)}
           /\ RequestOf(c).event \in Event
           /\ RequestOf(c).cursor \in Cursor \cup {None}
<1>1. conn[c] \in ConnType /\ conn[c].request # {}
  BY DEF TypeOK
<1>2. \E r \in Request : conn[c].request = {r}
  BY <1>1 DEF ConnType
<1>3. RequestOf(c) \in Request /\ conn[c].request = {RequestOf(c)}
  BY <1>2 DEF RequestOf
<1> QED
  BY <1>3, RequestAssumption DEF RequestType

\* The state operators stay in the type of the tracked subscription and keep
\* its secret.
LEMMA SetCursorType ==
    ASSUME TrackedType(sub), NEW k \in Cursor \cup {None}
    PROVE  /\ TrackedType(SetCursor(sub, k))
           /\ \A t \in SetCursor(sub, k) :
                  t.cursor = k /\ \E s \in sub : t.secret = s.secret
           /\ Tracked(sub) => Tracked(SetCursor(sub, k))
<1>1. CASE sub = {}
  BY <1>1 DEF TrackedType, SetCursor, Tracked
<1>2. CASE sub # {}
  <2>1. PICK s \in Subscription : sub = {s}
    BY <1>2 DEF TrackedType
  <2>2. SetCursor(sub, k) = {[s EXCEPT !.cursor = k]}
    BY <2>1 DEF SetCursor
  <2>3. /\ [s EXCEPT !.cursor = k] \in Subscription
        /\ [s EXCEPT !.cursor = k].cursor = k
        /\ [s EXCEPT !.cursor = k].secret = s.secret
    BY <2>1 DEF Subscription
  <2> QED
    BY <2>1, <2>2, <2>3 DEF TrackedType, Tracked
<1> QED
  BY <1>1, <1>2

\* set_active keeps the type of the record, and its secret.
LEMMA SetActiveType ==
    ASSUME TrackedType(sub), NEW i \in SubId, NEW g \in Grant \cup {None},
           NEW k \in Cursor \cup {None}
    PROVE  /\ TrackedType(SetActive(sub, i, g, k))
           /\ \A t \in SetActive(sub, i, g, k) :
                  t.cursor = k /\ \E s \in sub : t.secret = s.secret
           /\ Tracked(sub) => Tracked(SetActive(sub, i, g, k))
<1>1. CASE sub = {}
  BY <1>1 DEF TrackedType, SetActive, Tracked
<1>2. CASE sub # {}
  <2>1. PICK s \in Subscription : sub = {s}
    BY <1>2 DEF TrackedType
  <2> DEFINE t == [s EXCEPT !.id = i, !.refreshBefore = g, !.cursor = k]
  <2>2. SetActive(sub, i, g, k) = {t}
    BY <2>1 DEF SetActive
  <2>3. t \in Subscription /\ t.cursor = k /\ t.secret = s.secret
    BY <2>1 DEF Subscription
  <2> HIDE DEF t
  <2> QED
    BY <2>1, <2>2, <2>3 DEF TrackedType, Tracked
<1> QED
  BY <1>1, <1>2

\* set_pending begins a record without a cursor.
LEMMA SetPendingType ==
    ASSUME NEW x \in Secret
    PROVE  /\ TrackedType(SetPending(x))
           /\ \A t \in SetPending(x) : t.cursor = None
BY DEF TrackedType, SetPending, Subscription

\* No handler runs and nothing is tracked.
LEMMA InitIInv == Init => IInv
<1> SUFFICES ASSUME Init PROVE IInv
  OBVIOUS
<1>1. TypeOK
  <2>1. seen \in Seq(Event) /\ Len(seen) <= Capacity
    BY EmptySeq, CapacityAssumption DEF Init
  <2>2. conn \in [Conn -> ConnType]
    BY DEF Init, Idle, ConnType, Phase, Status
  <2> QED
    BY <2>1, <2>2 DEF Init, Idle, TypeOK, TrackedType
<1>2. WaitingIsAuthentic /\ AckedEventIsWoken
  BY DEF Init, Idle, WaitingIsAuthentic, AckedEventIsWoken
<1>3. CommitIsWoken
  BY EmptySeq DEF Init, Idle, CommitIsWoken, IsSeen, Contains
<1>4. CursorIsEarned
  BY DEF Init, CursorIsEarned
<1> QED
  BY <1>1, <1>2, <1>3, <1>4 DEF IInv

\* What the connections look like after a handler moves on.
ConnTypeOK ==
    /\ conn \in [Conn -> ConnType]
    /\ \A c \in Conn : /\ conn[c].phase = "idle" <=> conn[c].request = {}
                       /\ conn[c].phase = "answered" <=> conn[c].status # 0

\* A handler that answers.
LEMMA AnswerMovesOn ==
    ASSUME TypeOK, NEW c \in Conn, conn[c].phase \notin {"idle", "answered"},
           NEW status \in Status \ {0}, Answer(c, status)
    PROVE  /\ ConnTypeOK'
           /\ \A d \in Conn : RequestOf(d)' = RequestOf(d)
           /\ \A d \in Conn \ {c} : conn'[d] = conn[d]
           /\ conn'[c].phase = "answered" /\ conn'[c].status = status
<1>1. conn[c] \in ConnType /\ conn' \in [Conn -> ConnType]
  BY DEF TypeOK, ConnType, Answer, Phase
<1>2. /\ \A d \in Conn \ {c} : conn'[d] = conn[d]
      /\ conn'[c] = [conn[c] EXCEPT !.phase = "answered", !.status = status]
  BY DEF TypeOK, Answer
<1>3. /\ conn'[c].phase = "answered" /\ conn'[c].status = status
      /\ conn'[c].request = conn[c].request
  BY <1>1, <1>2 DEF ConnType
<1>4. \A d \in Conn : RequestOf(d)' = RequestOf(d)
  <2>1. \A d \in Conn : conn'[d].request = conn[d].request
    BY <1>2, <1>3
  <2> QED
    BY <2>1 DEF RequestOf
<1>5. ConnTypeOK'
  <2> SUFFICES ASSUME NEW d \in Conn
               PROVE  /\ conn'[d].phase = "idle" <=> conn'[d].request = {}
                      /\ conn'[d].phase = "answered" <=> conn'[d].status # 0
    BY <1>1 DEF ConnTypeOK
  <2>1. CASE d = c
    BY <1>3, <2>1 DEF TypeOK
  <2>2. CASE d # c
    BY <1>2, <2>2 DEF TypeOK
  <2> QED
    BY <2>1, <2>2
<1> QED
  BY <1>2, <1>3, <1>4, <1>5

\* A handler that enters the sink, or whose event the runtime takes.
LEMMA AwaitMovesOn ==
    ASSUME TypeOK, NEW c \in Conn, conn[c].phase \notin {"idle", "answered"},
           NEW phase \in {"scheduling", "accepted"}, Await(c, phase)
    PROVE  /\ ConnTypeOK'
           /\ \A d \in Conn : RequestOf(d)' = RequestOf(d)
           /\ \A d \in Conn \ {c} : conn'[d] = conn[d]
           /\ conn'[c].phase = phase
<1>1. conn[c] \in ConnType /\ conn' \in [Conn -> ConnType]
  BY DEF TypeOK, ConnType, Await, Phase
<1>2. /\ \A d \in Conn \ {c} : conn'[d] = conn[d]
      /\ conn'[c] = [conn[c] EXCEPT !.phase = phase]
  BY DEF TypeOK, Await
<1>3. /\ conn'[c].phase = phase /\ conn'[c].status = conn[c].status
      /\ conn'[c].request = conn[c].request
  BY <1>1, <1>2 DEF ConnType
<1>4. \A d \in Conn : RequestOf(d)' = RequestOf(d)
  <2>1. \A d \in Conn : conn'[d].request = conn[d].request
    BY <1>2, <1>3
  <2> QED
    BY <2>1 DEF RequestOf
<1>5. ConnTypeOK'
  <2> SUFFICES ASSUME NEW d \in Conn
               PROVE  /\ conn'[d].phase = "idle" <=> conn'[d].request = {}
                      /\ conn'[d].phase = "answered" <=> conn'[d].status # 0
    BY <1>1 DEF ConnTypeOK
  <2>1. CASE d = c
    BY <1>3, <2>1 DEF TypeOK
  <2>2. CASE d # c
    BY <1>2, <2>2 DEF TypeOK
  <2> QED
    BY <2>1, <2>2
<1> QED
  BY <1>2, <1>3, <1>4, <1>5

\* A handler that answers and touches nothing else keeps the invariant, if
\* what it acknowledges is no event or an event that was woken.
LEMMA PlainAnswerKeepsIInv ==
    ASSUME IInv, NEW c \in Conn, conn[c].phase \notin {"idle", "answered"},
           NEW status \in Status \ {0}, Answer(c, status),
           UNCHANGED <<sub, seen, schedule, woken>>,
           raised' \in [Event -> Nat],
           status = 200 /\ RequestOf(c).kind \in EventKind =>
               RequestOf(c).kind = "event" /\ woken[RequestOf(c).event] > 0
    PROVE  IInv'
<1>0. TypeOK
  BY DEF IInv
<1>1. /\ ConnTypeOK'
      /\ \A d \in Conn : RequestOf(d)' = RequestOf(d)
      /\ \A d \in Conn \ {c} : conn'[d] = conn[d]
      /\ conn'[c].phase = "answered" /\ conn'[c].status = status
  BY <1>0, AnswerMovesOn
<1>2. TypeOK'
  BY <1>0, <1>1 DEF TypeOK, ConnTypeOK
<1>3. WaitingIsAuthentic'
  BY <1>1 DEF IInv, WaitingIsAuthentic
<1>4. CommitIsWoken'
  BY <1>1 DEF IInv, CommitIsWoken
<1>5. AckedEventIsWoken'
  BY <1>1 DEF IInv, AckedEventIsWoken
<1>6. CursorIsEarned'
  BY DEF IInv, CursorIsEarned
<1> QED
  BY <1>2, <1>3, <1>4, <1>5, <1>6 DEF IInv

\* An authentic gap envelope earns its cursor.
LEMMA GapKeepsIInv ==
    ASSUME IInv, NEW c \in Conn, HandleGap(c)
    PROVE  IInv'
<1> DEFINE r == RequestOf(c)
<1>0. TypeOK /\ conn[c].phase = "received" /\ r.kind = "gap" /\ r.fresh
      /\ Tracked(sub) /\ \A s \in sub : s.secret \in SignedBy(r)
  BY DEF IInv, HandleGap, Dispatched, Received, Routable, VerifySignature, SecretFor
<1>1. /\ ConnTypeOK'
      /\ \A d \in Conn : RequestOf(d)' = RequestOf(d)
      /\ \A d \in Conn \ {c} : conn'[d] = conn[d]
      /\ conn'[c].phase = "answered" /\ conn'[c].status = 200
  BY <1>0, AnswerMovesOn DEF HandleGap, Status
<1>2. r \in Request /\ r.cursor \in Cursor \cup {None}
  BY <1>0, RequestOfIsRequest
<1> HIDE DEF r
<1>3. /\ TrackedType(sub')
      /\ \A t \in sub' : t.cursor = r.cursor /\ \E s \in sub : t.secret = s.secret
      /\ Tracked(sub')
  <2>1. sub' = SetCursor(sub, r.cursor) /\ TrackedType(sub)
    BY <1>0 DEF HandleGap, TypeOK, r
  <2> QED
    BY <1>0, <1>2, <2>1, SetCursorType
<1>4. UNCHANGED <<seen, schedule, woken, raised>>
  BY DEF HandleGap, runtime
<1>5. TypeOK'
  BY <1>0, <1>1, <1>3, <1>4 DEF TypeOK, ConnTypeOK
<1>6. WaitingIsAuthentic'
  BY <1>1, <1>3 DEF IInv, WaitingIsAuthentic
<1>7. CommitIsWoken'
  BY <1>1, <1>4 DEF IInv, CommitIsWoken
<1>8. AckedEventIsWoken'
  <2>1. RequestOf(c)'.kind \notin EventKind
    BY <1>0, <1>1 DEF EventKind, r
  <2> QED
    BY <1>1, <1>4, <2>1 DEF IInv, AckedEventIsWoken
<1>9. CursorIsEarned'
  BY <1>0, <1>2, <1>3, <1>4 DEF CursorIsEarned
<1> QED
  BY <1>5, <1>6, <1>7, <1>8, <1>9 DEF IInv

\* A recorded id was woken: it may be acknowledged.
LEMMA DuplicateKeepsIInv ==
    ASSUME IInv, NEW c \in Conn, AckDuplicate(c)
    PROVE  IInv'
<1> DEFINE e == RequestOf(c).event
<1>0. /\ TypeOK /\ conn[c].phase = "received" /\ IsSeen(seen, e)
      /\ e \in Event /\ UNCHANGED <<sub, schedule, woken, raised>>
      /\ RequestOf(c).kind = "event"
  BY RequestOfIsRequest DEF IInv, AckDuplicate, Dispatched, Received, runtime
<1>1. /\ ConnTypeOK'
      /\ \A d \in Conn : RequestOf(d)' = RequestOf(d)
      /\ \A d \in Conn \ {c} : conn'[d] = conn[d]
      /\ conn'[c].phase = "answered" /\ conn'[c].status = 200
  BY <1>0, AnswerMovesOn DEF AckDuplicate, Status
<1>2. woken[e] > 0
  BY <1>0 DEF IInv, CommitIsWoken
<1>3. seen' \in Seq(Event) /\ Len(seen') <= Capacity
      /\ \A x : IsSeen(seen', x) => IsSeen(seen, x)
  <2>1. seen' = SeenOrRecord(seen, e) /\ seen \in Seq(Event) /\ Len(seen) <= Capacity
    BY <1>0 DEF AckDuplicate, RefreshIfSeen, SeenOrRecord, TypeOK
  <2>2. seen' = MarkSeen(seen, e)
    BY <1>0, <2>1, MarkSeenIsSeenOrRecord
  <2> QED
    BY <1>0, <2>1, <2>2, MarkSeenContents
<1>4. TypeOK'
  BY <1>0, <1>1, <1>3 DEF TypeOK, ConnTypeOK
<1>5. WaitingIsAuthentic'
  BY <1>0, <1>1 DEF IInv, WaitingIsAuthentic
<1>6. CommitIsWoken'
  BY <1>0, <1>1, <1>3 DEF IInv, CommitIsWoken
<1>7. AckedEventIsWoken'
  BY <1>0, <1>1, <1>2 DEF IInv, AckedEventIsWoken
<1>8. CursorIsEarned'
  BY <1>0 DEF IInv, CursorIsEarned
<1> QED
  BY <1>4, <1>5, <1>6, <1>7, <1>8 DEF IInv

\* Past the checks the handler waits with an authentic event.
LEMMA AwaitKeepsIInv ==
    ASSUME IInv, NEW c \in Conn, AwaitSchedule(c)
    PROVE  IInv'
<1>0. /\ TypeOK /\ conn[c].phase = "received"
      /\ UNCHANGED <<sub, seen, schedule, woken, raised>>
  BY DEF IInv, AwaitSchedule, Fresh, Dispatched, Received, runtime, shared
<1>1. /\ ConnTypeOK'
      /\ \A d \in Conn : RequestOf(d)' = RequestOf(d)
      /\ \A d \in Conn \ {c} : conn'[d] = conn[d]
      /\ conn'[c].phase = "scheduling"
  BY <1>0, AwaitMovesOn DEF AwaitSchedule
<1>2. TypeOK'
  BY <1>0, <1>1 DEF TypeOK, ConnTypeOK
<1>3. WaitingIsAuthentic'
  <2>1. /\ RequestOf(c).kind = "event" /\ RequestOf(c).fresh /\ Tracked(sub)
        /\ \A s \in sub : s.secret \in SignedBy(RequestOf(c))
    BY DEF AwaitSchedule, Fresh, Dispatched, Routable, VerifySignature, SecretFor
  <2> QED
    BY <1>0, <1>1, <2>1 DEF IInv, WaitingIsAuthentic
<1>4. CommitIsWoken'
  BY <1>0, <1>1 DEF IInv, CommitIsWoken
<1>5. AckedEventIsWoken'
  BY <1>0, <1>1 DEF IInv, AckedEventIsWoken
<1>6. CursorIsEarned'
  BY <1>0 DEF IInv, CursorIsEarned
<1> QED
  BY <1>2, <1>3, <1>4, <1>5, <1>6 DEF IInv

\* The runtime takes the event: it is woken.
LEMMA RuntimeKeepsIInv ==
    ASSUME IInv, NEW c \in Conn, RuntimeAccepts(c)
    PROVE  IInv'
<1> DEFINE e == RequestOf(c).event
<1>0. /\ TypeOK /\ conn[c].phase = "scheduling" /\ e \in Event
      /\ UNCHANGED <<sub, seen, schedule, raised>>
  BY RequestOfIsRequest DEF IInv, RuntimeAccepts, shared
<1>1. /\ ConnTypeOK'
      /\ \A d \in Conn : RequestOf(d)' = RequestOf(d)
      /\ \A d \in Conn \ {c} : conn'[d] = conn[d]
      /\ conn'[c].phase = "accepted"
  BY <1>0, AwaitMovesOn DEF RuntimeAccepts
<1>2. /\ woken' \in [Event -> Nat] /\ woken'[e] > 0
      /\ \A x \in Event : woken[x] > 0 => woken'[x] > 0
  BY <1>0 DEF RuntimeAccepts, TypeOK
<1>3. TypeOK'
  BY <1>0, <1>1, <1>2 DEF TypeOK, ConnTypeOK
<1>4. WaitingIsAuthentic'
  BY <1>0, <1>1 DEF IInv, WaitingIsAuthentic
<1>5. \A d \in Conn : conn[d].phase # "idle" => RequestOf(d).event \in Event
  BY <1>0, RequestOfIsRequest
<1>6. CommitIsWoken'
  BY <1>0, <1>1, <1>2, <1>5 DEF IInv, CommitIsWoken
<1>7. AckedEventIsWoken'
  BY <1>0, <1>1, <1>2, <1>5 DEF IInv, AckedEventIsWoken
<1>8. CursorIsEarned'
  <2>1. \A r \in Request : r.event \in Event
    BY RequestAssumption DEF RequestType
  <2> QED
    BY <1>0, <1>2, <2>1 DEF IInv, CursorIsEarned
<1> QED
  BY <1>3, <1>4, <1>6, <1>7, <1>8 DEF IInv

\* The commit records an id that was woken, and a cursor it earned.
LEMMA ReturnKeepsIInv ==
    ASSUME IInv, NEW c \in Conn, ScheduleReturns(c)
    PROVE  IInv'
<1> DEFINE r == RequestOf(c)
<1>0. /\ TypeOK /\ conn[c].phase = "accepted"
      /\ UNCHANGED <<schedule, woken, raised>>
      /\ r \in Request /\ r.event \in Event /\ r.cursor \in Cursor \cup {None}
  BY RequestOfIsRequest DEF IInv, ScheduleReturns, runtime
<1>1. /\ ConnTypeOK'
      /\ \A d \in Conn : RequestOf(d)' = RequestOf(d)
      /\ \A d \in Conn \ {c} : conn'[d] = conn[d]
      /\ conn'[c].phase = "answered" /\ conn'[c].status = 200
  BY <1>0, AnswerMovesOn DEF ScheduleReturns, Status
<1>2. /\ r.kind = "event" /\ r.fresh /\ Tracked(sub)
      /\ \A s \in sub : s.secret \in SignedBy(r)
      /\ woken[r.event] > 0
  BY <1>0 DEF IInv, WaitingIsAuthentic, CommitIsWoken
<1>3. seen' = MarkSeen(seen, r.event) /\ sub' = SetCursor(sub, r.cursor)
  BY DEF ScheduleReturns
<1> HIDE DEF r
<1>4. /\ seen' \in Seq(Event) /\ Len(seen') <= Capacity
      /\ \A x : IsSeen(seen', x) => IsSeen(seen, x) \/ x = r.event
  BY <1>0, <1>3, MarkSeenContents DEF TypeOK
<1>5. /\ TrackedType(sub')
      /\ \A t \in sub' : t.cursor = r.cursor /\ \E s \in sub : t.secret = s.secret
      /\ Tracked(sub')
  BY <1>0, <1>2, <1>3, SetCursorType DEF TypeOK
<1>6. TypeOK'
  BY <1>0, <1>1, <1>4, <1>5 DEF TypeOK, ConnTypeOK
<1>7. WaitingIsAuthentic'
  BY <1>1, <1>5 DEF IInv, WaitingIsAuthentic
<1>8. CommitIsWoken'
  BY <1>0, <1>1, <1>2, <1>4 DEF IInv, CommitIsWoken
<1>9. AckedEventIsWoken'
  BY <1>0, <1>1, <1>2 DEF IInv, AckedEventIsWoken, r
<1>10. CursorIsEarned'
  BY <1>0, <1>2, <1>5 DEF CursorIsEarned
<1> QED
  BY <1>6, <1>7, <1>8, <1>9, <1>10 DEF IInv

\* Posts, answers that leave, and the manager.
LEMMA EnvironmentKeepsIInv ==
    ASSUME IInv,
           \/ \E c \in Conn : Finish(c) \/ \E r \in Request : Post(c, r)
           \/ \E secret \in Secret : ManagerPublishes(secret)
           \/ \E id \in SubId, g \in Grant \cup {None}, k \in ResponseCursor \cup {None} :
                  ManagerActivates(id, g, k)
           \/ WireSchedule
    PROVE  IInv'
<1>1. ASSUME NEW c \in Conn, NEW x \in ConnType, x.phase \in {"idle", "received"},
             x.phase = "idle" <=> x.request = {}, x.status = 0,
             conn' = [conn EXCEPT ![c] = x], UNCHANGED <<shared, runtime>>
      PROVE  IInv'
  <2>1. /\ conn' \in [Conn -> ConnType] /\ conn'[c] = x
        /\ \A d \in Conn \ {c} : conn'[d] = conn[d]
        /\ \A d \in Conn \ {c} : RequestOf(d)' = RequestOf(d)
    BY <1>1 DEF IInv, TypeOK, RequestOf
  <2>2. TypeOK'
    BY <1>1, <2>1 DEF IInv, TypeOK, shared, runtime
  <2>3. WaitingIsAuthentic'
    BY <1>1, <2>1 DEF IInv, WaitingIsAuthentic, shared, runtime
  <2>4. CommitIsWoken'
    BY <1>1, <2>1 DEF IInv, CommitIsWoken, shared, runtime
  <2>5. AckedEventIsWoken'
    BY <1>1, <2>1 DEF IInv, AckedEventIsWoken, shared, runtime
  <2>6. CursorIsEarned'
    BY <1>1, <2>1 DEF IInv, CursorIsEarned, shared, runtime
  <2> QED
    BY <2>2, <2>3, <2>4, <2>5, <2>6 DEF IInv
<1>2. ASSUME NEW c \in Conn, Finish(c) PROVE IInv'
  <2>1. Idle \in ConnType
    BY DEF Idle, ConnType, Phase, Status
  <2> QED
    BY <1>1, <1>2, <2>1 DEF Finish, Idle
<1>3. ASSUME NEW c \in Conn, NEW r \in Request, Post(c, r) PROVE IInv'
  <2> DEFINE x == [conn[c] EXCEPT !.phase = "received", !.request = {r}]
  <2>1. conn[c] \in ConnType /\ conn[c].phase = "idle" /\ conn[c].status = 0
    BY <1>3 DEF Post, IInv, TypeOK, ConnType, Status
  <2>2. x \in ConnType /\ x.phase = "received" /\ x.request # {} /\ x.status = 0
    BY <2>1 DEF ConnType, Phase
  <2>3. conn' = [conn EXCEPT ![c] = x]
    BY <1>3 DEF Post
  <2> HIDE DEF x
  <2> QED
    BY <1>1, <1>3, <2>2, <2>3 DEF Post
<1>4. ASSUME TrackedType(sub'), UNCHANGED <<seen, schedule, conn, runtime>>,
             \A t \in sub' : t.cursor = None \/ t.cursor \in ResponseCursor,
             Tracked(sub) => /\ Tracked(sub')
                             /\ \A t \in sub' : \E s \in sub : t.secret = s.secret
      PROVE  IInv'
  <2>1. \A d \in Conn : RequestOf(d)' = RequestOf(d)
    BY <1>4 DEF RequestOf
  <2>2. TypeOK'
    BY <1>4 DEF IInv, TypeOK, runtime
  <2>3. WaitingIsAuthentic'
    BY <1>4, <2>1 DEF IInv, WaitingIsAuthentic
  <2>4. CommitIsWoken' /\ AckedEventIsWoken'
    BY <1>4, <2>1 DEF IInv, CommitIsWoken, AckedEventIsWoken, runtime
  <2>5. CursorIsEarned'
    BY <1>4 DEF CursorIsEarned
  <2> QED
    BY <2>2, <2>3, <2>4, <2>5 DEF IInv
<1>5. ASSUME NEW secret \in Secret, ManagerPublishes(secret) PROVE IInv'
  BY <1>4, <1>5, SetPendingType DEF ManagerPublishes
<1>6. ASSUME NEW id \in SubId, NEW g \in Grant \cup {None},
             NEW k \in ResponseCursor \cup {None},
             ManagerActivates(id, g, k)
      PROVE  IInv'
  <2>1. k \in Cursor \cup {None} /\ TrackedType(sub)
    BY ResponseCursorAssumption DEF IInv, TypeOK
  <2>2. /\ TrackedType(sub')
        /\ \A t \in sub' : t.cursor = k /\ \E s \in sub : t.secret = s.secret
        /\ Tracked(sub')
    BY <1>6, <2>1, SetActiveType DEF ManagerActivates
  <2> QED
    BY <1>4, <1>6, <2>2 DEF ManagerActivates
<1>7. CASE WireSchedule
  <2>1. \A d \in Conn : RequestOf(d)' = RequestOf(d)
    BY <1>7 DEF WireSchedule, RequestOf
  <2> QED
    BY <1>7, <2>1 DEF WireSchedule, IInv, TypeOK, WaitingIsAuthentic, CommitIsWoken,
                      AckedEventIsWoken, CursorIsEarned, runtime
<1> QED
  BY <1>2, <1>3, <1>5, <1>6, <1>7

\* One case per action.
LEMMA NextIInv == IInv /\ [Next]_vars => IInv'
<1> SUFFICES ASSUME IInv, [Next]_vars PROVE IInv'
  OBVIOUS
<1>1. ASSUME NEW c \in Conn, Handler(c) PROVE IInv'
  <2>1. ASSUME NEW status \in Status \ {0}, Reply(c, status), Received(c),
               status = 200 => RequestOf(c).kind \notin EventKind
        PROVE  IInv'
    BY <2>1, PlainAnswerKeepsIInv DEF Reply, Received, shared, runtime, IInv, TypeOK
  <2>2. \A x \in {200, 400, 401, 404, 500, 503} : x \in Status \ {0}
    BY DEF Status
  <2>3. ASSUME RejectUnroutable(c) \/ RejectUnverified(c) \/ RejectMalformedBody(c)
        PROVE  IInv'
    <3>1. CASE RejectUnroutable(c)
      BY <2>1, <2>2, <3>1 DEF RejectUnroutable
    <3>2. CASE RejectUnverified(c)
      BY <2>1, <2>2, <3>2 DEF RejectUnverified
    <3>3. CASE RejectMalformedBody(c)
      <4>1. Reply(c, 400) /\ Received(c)
        BY <3>3 DEF RejectMalformedBody, Dispatched
      <4>2. 400 \in Status \ {0} /\ 400 # 200
        BY <2>2
      <4> QED
        BY <2>1, <4>1, <4>2
    <3> QED
      BY <2>3, <3>1, <3>2, <3>3
  <2>4. ASSUME HandleVerification(c) \/ HandleTerminated(c) \/ IgnoreUnknownControl(c)
        PROVE  IInv'
    <3>1. CASE HandleVerification(c)
      BY <2>1, <2>2, <3>1 DEF HandleVerification, Dispatched, EventKind
    <3>2. CASE HandleTerminated(c)
      BY <2>1, <2>2, <3>2 DEF HandleTerminated, Dispatched, EventKind
    <3>3. CASE IgnoreUnknownControl(c)
      BY <2>1, <2>2, <3>3 DEF IgnoreUnknownControl, Dispatched, EventKind
    <3> QED
      BY <2>4, <3>1, <3>2, <3>3
  <2>5. ASSUME RejectMalformedEvent(c) \/ RaiseOnOddEvent(c) \/ AskRetryUntilWired(c)
        PROVE  IInv'
    <3>1. CASE RejectMalformedEvent(c)
      <4>1. Reply(c, 400) /\ Received(c)
        BY <3>1 DEF RejectMalformedEvent, Dispatched
      <4>2. 400 \in Status \ {0} /\ 400 # 200
        BY <2>2
      <4> QED
        BY <2>1, <4>1, <4>2
    <3>2. CASE AskRetryUntilWired(c)
      BY <2>1, <2>2, <3>2 DEF AskRetryUntilWired, Dispatched
    <3>3. CASE RaiseOnOddEvent(c)
      <4>1. Reply(c, 500) /\ Received(c)
        BY <3>3 DEF RaiseOnOddEvent, Dispatched
      <4>2. 500 \in Status \ {0} /\ 500 # 200
        BY <2>2
      <4> QED
        BY <2>1, <4>1, <4>2
    <3> QED
      BY <2>5, <3>1, <3>2, <3>3
  <2>6. CASE HandleGap(c)
    BY <2>6, GapKeepsIInv
  <2>7. CASE AckDuplicate(c)
    BY <2>7, DuplicateKeepsIInv
  <2>8. CASE AwaitSchedule(c)
    BY <2>8, AwaitKeepsIInv
  <2>9. CASE ScheduleReturns(c)
    BY <2>9, ReturnKeepsIInv
  <2>10. CASE ScheduleFails(c)
    <3>1. /\ conn[c].phase \notin {"idle", "answered"} /\ Answer(c, 503)
          /\ UNCHANGED <<sub, seen, schedule, woken, raised>>
      BY <2>10 DEF ScheduleFails, Reply, shared, runtime
    <3>2. raised' \in [Event -> Nat]
      BY <3>1 DEF IInv, TypeOK
    <3> QED
      BY <2>2, <3>1, <3>2, PlainAnswerKeepsIInv
  <2>11. CASE ScheduleRaisesLate(c)
    <3>1. conn[c].phase = "accepted" /\ TypeOK
      BY <2>11 DEF ScheduleRaisesLate, IInv
    <3>2. RequestOf(c).event \in Event
      BY <3>1, RequestOfIsRequest
    <3>3. raised' \in [Event -> Nat]
      BY <2>11, <3>1, <3>2 DEF ScheduleRaisesLate, TypeOK
    <3> QED
      BY <2>2, <2>11, <3>1, <3>3, PlainAnswerKeepsIInv DEF ScheduleRaisesLate, shared
  <2> QED
    BY <1>1, <2>3, <2>4, <2>5, <2>6, <2>7, <2>8, <2>9, <2>10, <2>11 DEF Handler
<1>2. ASSUME NEW c \in Conn, RuntimeAccepts(c) PROVE IInv'
  BY <1>2, RuntimeKeepsIInv
<1>3. CASE UNCHANGED vars
  <2>1. \A d \in Conn : RequestOf(d)' = RequestOf(d)
    BY <1>3 DEF vars, RequestOf
  <2> QED
    BY <1>3, <2>1 DEF vars, IInv, TypeOK, WaitingIsAuthentic, CommitIsWoken,
                      AckedEventIsWoken, CursorIsEarned
<1> QED
  BY <1>1, <1>2, <1>3, EnvironmentKeepsIInv DEF Next

\* Type correctness: among others, a handler has an answer exactly when it has
\* ended, and the dedup dictionary never outgrows its capacity.
THEOREM ReceiverTypeOK == Spec => []TypeOK
<1>1. IInv => TypeOK
  BY DEF IInv
<1> QED
  BY InitIInv, NextIInv, <1>1, PTL DEF Spec

\* A 2xx is never given for an event the runtime does not have, whatever is
\* posted, in whatever interleaving, and whatever the dictionary forgot.
THEOREM NoEventIsDropped == Spec => []AckedEventIsWoken
<1>1. IInv => AckedEventIsWoken
  BY DEF IInv
<1> QED
  BY InitIInv, NextIInv, <1>1, PTL DEF Spec

\* The persisted cursor never comes from an event that was not woken, nor from
\* an envelope that is not authentic under the tracked secret.
THEOREM CursorOnlyEarned == Spec => []CursorIsEarned
<1>1. IInv => CursorIsEarned
  BY DEF IInv
<1> QED
  BY InitIInv, NextIInv, <1>1, PTL DEF Spec
-----------------------------------------------------------------------------
(***************************************************************************)
(* How often one event can be woken.  The argument counts handlers: while  *)
(* an id is not recorded, each workflow started for it belongs to a        *)
(* handler that has yet to record it, or was reported as a failure; once   *)
(* it is recorded nobody new passes the check, so only the handlers that   *)
(* are past it already can add to the count.                               *)
(***************************************************************************)

\* The handlers that hold event e in a phase of the await.
At(e, phase) == {c \in Conn : /\ conn[c].phase = phase
                              /\ \E r \in conn[c].request : r.event = e}

\* The dictionary has room for every id: nothing is evicted.
Roomy == Capacity >= Cardinality(Event)

\* An event that is not recorded: every start is accounted for by a handler
\* between the runtime and the record, or by a failure that was reported.
UnseenIsAccounted ==
    Roomy => \A e \in Event :
        ~IsSeen(seen, e) => woken[e] <= Cardinality(At(e, "accepted")) + raised[e]

\* Any event: the starts so far, and those the waiting handlers may still cause.
StartsAreBounded ==
    Roomy => \A e \in Event :
        woken[e] + Cardinality(At(e, "scheduling")) <= Cardinality(Conn) + raised[e]

\* The inductive invariant of the count.  DuplicatesAreBounded alone says
\* nothing of the handlers that are still waiting; StartsAreBounded counts them
\* in, and holds when one more starts to wait because the id is then unseen and
\* UnseenIsAccounted bounds the starts so far.  Distinct(seen) is what makes a
\* dictionary of Capacity entries big enough for all the ids.
CountInv == /\ TypeOK
            /\ Distinct(seen)
            /\ UnseenIsAccounted
            /\ StartsAreBounded

\* The handlers of an event can be counted.
LEMMA AtIsFinite ==
    ASSUME NEW e, NEW phase
    PROVE  /\ IsFiniteSet(At(e, phase))
           /\ Cardinality(At(e, phase)) \in Nat
           /\ Cardinality(At(e, phase)) <= Cardinality(Conn)
<1>1. At(e, phase) \in SUBSET Conn
  BY DEF At
<1> QED
  BY <1>1, FiniteAssumption, FS_Subset, FS_CardinalityType

\* A handler is in one phase at a time.
LEMMA PhasesAreDisjoint ==
    ASSUME NEW e
    PROVE  Cardinality(At(e, "scheduling")) + Cardinality(At(e, "accepted"))
               <= Cardinality(Conn)
<1> DEFINE A == At(e, "scheduling")
           B == At(e, "accepted")
<1>1. /\ IsFiniteSet(A) /\ Cardinality(A) \in Nat
      /\ IsFiniteSet(B) /\ Cardinality(B) \in Nat
  BY AtIsFinite
<1>2. A \cap B = {} /\ A \cup B \in SUBSET Conn
  BY DEF At
<1> HIDE DEF A, B
<1>3. Cardinality(A \cup B) = Cardinality(A) + Cardinality(B)
  <2>1. Cardinality(A \cup B)
            = Cardinality(A) + Cardinality(B) - Cardinality(A \cap B)
    BY <1>1, FS_Union
  <2>2. Cardinality(A \cap B) = 0
    BY <1>2, FS_EmptySet
  <2> QED
    BY <1>1, <2>1, <2>2
<1>4. Cardinality(A \cup B) <= Cardinality(Conn)
  BY <1>2, FiniteAssumption, FS_Subset
<1> QED
  BY <1>3, <1>4 DEF A, B

PhasesApart ==
    \A e \in Event : Cardinality(At(e, "scheduling")) + Cardinality(At(e, "accepted"))
                        <= Cardinality(Conn)

\* A handler is in one phase.
LEMMA AlwaysApart == TypeOK => PhasesApart
BY PhasesAreDisjoint DEF PhasesApart

\* When one handler moves from phase to phase, it alone changes the sets.
LEMMA AtAfterMove ==
    ASSUME TypeOK, NEW c \in Conn, conn[c].phase # "idle",
           \A d \in Conn \ {c} : conn'[d] = conn[d],
           conn'[c].request = conn[c].request,
           NEW e, NEW phase
    PROVE  At(e, phase)' = IF conn'[c].phase = phase /\ RequestOf(c).event = e
                           THEN At(e, phase) \cup {c}
                           ELSE At(e, phase) \ {c}
<1>1. conn[c].request = {RequestOf(c)}
  BY RequestOfIsRequest
<1>2. (\E r \in conn'[c].request : r.event = e) <=> RequestOf(c).event = e
  BY <1>1
<1>3. At(e, phase)' = {d \in Conn : /\ conn'[d].phase = phase
                                   /\ \E r \in conn'[d].request : r.event = e}
  BY DEF At
<1>4. \A d \in Conn \ {c} : d \in At(e, phase)' <=> d \in At(e, phase)
  BY <1>3 DEF At
<1>5. c \in At(e, phase)' <=> conn'[c].phase = phase /\ RequestOf(c).event = e
  BY <1>2, <1>3
<1>6. At(e, phase)' \subseteq Conn /\ At(e, phase) \subseteq Conn
  BY <1>3 DEF At
<1> QED
  BY <1>4, <1>5, <1>6

\* So the number goes up by one where it arrives and down by one where it leaves.
LEMMA CountAfterMove ==
    ASSUME TypeOK, NEW c \in Conn, conn[c].phase # "idle",
           \A d \in Conn \ {c} : conn'[d] = conn[d],
           conn'[c].request = conn[c].request,
           NEW e, NEW phase
    PROVE  Cardinality(At(e, phase))' =
               IF RequestOf(c).event # e \/ conn[c].phase = conn'[c].phase
                   THEN Cardinality(At(e, phase))
               ELSE IF conn'[c].phase = phase THEN Cardinality(At(e, phase)) + 1
               ELSE IF conn[c].phase = phase THEN Cardinality(At(e, phase)) - 1
               ELSE Cardinality(At(e, phase))
<1> DEFINE A == At(e, phase)
           B == At(e, phase)'
<1>1. B = IF conn'[c].phase = phase /\ RequestOf(c).event = e
          THEN A \cup {c} ELSE A \ {c}
  BY AtAfterMove
<1>2. c \in A <=> conn[c].phase = phase /\ RequestOf(c).event = e
  <2>1. conn[c].request = {RequestOf(c)}
    BY RequestOfIsRequest
  <2> QED
    BY <2>1 DEF At
<1>3. IsFiniteSet(A)
  BY AtIsFinite
<1>4. Cardinality(At(e, phase))' = Cardinality(B)
  BY DEF B
<1> HIDE DEF A, B
<1>5. /\ Cardinality(A \cup {c}) = IF c \in A THEN Cardinality(A)
                                              ELSE Cardinality(A) + 1
      /\ Cardinality(A \ {c}) = IF c \in A THEN Cardinality(A) - 1
                                           ELSE Cardinality(A)
  BY <1>3, FS_AddElement, FS_RemoveElement
<1>6. c \in A => A \cup {c} = A
  OBVIOUS
<1>7. c \notin A => A \ {c} = A
  OBVIOUS
<1>8. Cardinality(B) =
               IF RequestOf(c).event # e \/ conn[c].phase = conn'[c].phase
                   THEN Cardinality(A)
               ELSE IF conn'[c].phase = phase THEN Cardinality(A) + 1
               ELSE IF conn[c].phase = phase THEN Cardinality(A) - 1
               ELSE Cardinality(A)
  BY <1>1, <1>2, <1>5, <1>6, <1>7
<1> QED
  BY <1>4, <1>8 DEF A

\* Where no handler enters or leaves the await, nothing changes.
LEMMA AtUnmoved ==
    ASSUME NEW e, NEW phase,
           \A d \in Conn : \/ conn'[d] = conn[d]
                           \/ conn[d].phase # phase /\ conn'[d].phase # phase
    PROVE  At(e, phase)' = At(e, phase)
<1>1. At(e, phase)' = {d \in Conn : /\ conn'[d].phase = phase
                                   /\ \E r \in conn'[d].request : r.event = e}
  BY DEF At
<1>2. \A d \in Conn : d \in At(e, phase)' <=> d \in At(e, phase)
  BY <1>1 DEF At
<1> QED
  BY <1>1, <1>2 DEF At

\* One handler goes on to a phase, with the request it has.
Moves(c, phase) == /\ \A d \in Conn \ {c} : conn'[d] = conn[d]
                   /\ conn'[c].request = conn[c].request
                   /\ conn'[c].phase = phase

\* The three ways a handler moves.
LEMMA HandlerMoves ==
    ASSUME TypeOK, NEW c \in Conn
    PROVE  /\ \A status : Answer(c, status) => Moves(c, "answered")
           /\ \A phase : Await(c, phase) => Moves(c, phase)
<1>1. conn[c] \in ConnType
  BY DEF TypeOK
<1>2. ASSUME NEW status, Answer(c, status) PROVE Moves(c, "answered")
  <2>1. conn'[c] = [conn[c] EXCEPT !.phase = "answered", !.status = status]
    BY <1>2 DEF Answer, TypeOK
  <2>2. \A d \in Conn \ {c} : conn'[d] = conn[d]
    BY <1>2 DEF Answer, TypeOK
  <2> QED
    BY <1>1, <2>1, <2>2 DEF ConnType, Moves
<1>3. ASSUME NEW phase, Await(c, phase) PROVE Moves(c, phase)
  <2>1. conn'[c] = [conn[c] EXCEPT !.phase = phase]
    BY <1>3 DEF Await, TypeOK
  <2>2. \A d \in Conn \ {c} : conn'[d] = conn[d]
    BY <1>3 DEF Await, TypeOK
  <2> QED
    BY <1>1, <2>1, <2>2 DEF ConnType, Moves
<1> QED
  BY <1>2, <1>3

\* A step that concerns no handler in the await, starts no workflow and records
\* nothing that is not recorded.
Quiet == /\ \A d \in Conn : \/ conn'[d] = conn[d]
                            \/ /\ conn[d].phase \notin {"scheduling", "accepted"}
                               /\ conn'[d].phase \notin {"scheduling", "accepted"}
         /\ UNCHANGED runtime
         /\ \/ seen' = seen
            \/ \E e \in Event : IsSeen(seen, e) /\ seen' = MarkSeen(seen, e)

\* Every other step is one of the await.
AwaitStep(c) == \/ AwaitSchedule(c)
                \/ RuntimeAccepts(c)
                \/ ScheduleReturns(c)
                \/ ScheduleFails(c)
                \/ ScheduleRaisesLate(c)

\* A step is one of a handler in the sink, or it moves none there.
LEMMA StepKinds ==
    ASSUME TypeOK, [Next]_vars
    PROVE  Quiet \/ \E c \in Conn : AwaitStep(c)
<1>1. ASSUME NEW c \in Conn, NEW phase \in {"idle", "received", "answered"},
             conn[c].phase \in {"idle", "received", "answered"},
             \A d \in Conn \ {c} : conn'[d] = conn[d], conn'[c].phase = phase,
             UNCHANGED runtime,
             \/ seen' = seen
             \/ \E e \in Event : IsSeen(seen, e) /\ seen' = MarkSeen(seen, e)
      PROVE  Quiet
  BY <1>1 DEF Quiet
<1>2. ASSUME NEW c \in Conn, NEW status, Received(c), Reply(c, status)
      PROVE  Quiet
  <2>1. Moves(c, "answered") /\ conn[c].phase = "received"
    BY <1>2, HandlerMoves DEF Reply, Received
  <2> QED
    BY <1>1, <1>2, <2>1 DEF Moves, Reply, shared
<1>3. ASSUME NEW c \in Conn, Handler(c)
      PROVE  Quiet \/ AwaitStep(c)
  <2>1. CASE RejectUnroutable(c) \/ RejectUnverified(c)
    BY <1>2, <2>1 DEF RejectUnroutable, RejectUnverified
  <2>2. CASE \/ RejectMalformedBody(c) \/ HandleVerification(c) \/ HandleTerminated(c)
             \/ IgnoreUnknownControl(c) \/ RejectMalformedEvent(c)
             \/ RaiseOnOddEvent(c) \/ AskRetryUntilWired(c)
    <3>1. \E status : Received(c) /\ Reply(c, status)
      BY <2>2 DEF RejectMalformedBody, HandleVerification, HandleTerminated,
                  IgnoreUnknownControl, RejectMalformedEvent, RaiseOnOddEvent,
                  AskRetryUntilWired, Dispatched
    <3> QED
      BY <1>2, <3>1
  <2>3. CASE HandleGap(c)
    <3>1. Moves(c, "answered") /\ conn[c].phase = "received"
      BY <2>3, HandlerMoves DEF HandleGap, Dispatched, Received
    <3> QED
      BY <1>1, <2>3, <3>1 DEF Moves, HandleGap
  <2>4. CASE AckDuplicate(c)
    <3>1. Moves(c, "answered") /\ conn[c].phase = "received"
      BY <2>4, HandlerMoves DEF AckDuplicate, Dispatched, Received
    <3>2. PICK e \in Event : IsSeen(seen, e) /\ seen' = RefreshIfSeen(seen, e)
      BY <2>4, <3>1, RequestOfIsRequest DEF AckDuplicate
    <3>3. seen' = MarkSeen(seen, e)
      <4>1. RefreshIfSeen(seen, e) = SeenOrRecord(seen, e)
        BY <3>2 DEF RefreshIfSeen, SeenOrRecord
      <4> QED
        BY <3>2, <4>1, MarkSeenIsSeenOrRecord DEF TypeOK
    <3> QED
      BY <1>1, <2>4, <3>1, <3>2, <3>3 DEF Moves, AckDuplicate
  <2> QED
    BY <1>3, <2>1, <2>2, <2>3, <2>4 DEF Handler, AwaitStep
<1>4. ASSUME NEW c \in Conn, Finish(c)
      PROVE  Quiet
  <2>1. conn'[c] = Idle /\ \A d \in Conn \ {c} : conn'[d] = conn[d]
    BY <1>4 DEF Finish, TypeOK
  <2> QED
    BY <1>1, <1>4, <2>1 DEF Finish, Idle, shared
<1>5. ASSUME NEW c \in Conn, NEW r \in Request, Post(c, r)
      PROVE  Quiet
  <2>1. conn[c] \in ConnType
    BY DEF TypeOK
  <2>2. conn'[c] = [conn[c] EXCEPT !.phase = "received", !.request = {r}]
    BY <1>5 DEF Post, TypeOK
  <2>3. conn'[c].phase = "received"
    BY <2>1, <2>2 DEF ConnType
  <2>4. \A d \in Conn \ {c} : conn'[d] = conn[d]
    BY <1>5 DEF Post, TypeOK
  <2> QED
    BY <1>1, <1>5, <2>3, <2>4 DEF Post, shared
<1>6. ASSUME \/ \E secret \in Secret : ManagerPublishes(secret)
             \/ \E id \in SubId, g \in Grant \cup {None}, k \in ResponseCursor \cup {None} :
                    ManagerActivates(id, g, k)
             \/ WireSchedule
      PROVE  Quiet
  <2>1. conn' = conn /\ seen' = seen /\ UNCHANGED runtime
    BY <1>6 DEF ManagerPublishes, ManagerActivates, WireSchedule
  <2> QED
    BY <2>1 DEF Quiet
<1>7. CASE UNCHANGED vars
  BY <1>7 DEF vars, Quiet, runtime
<1>8. ASSUME NEW c \in Conn, RuntimeAccepts(c) PROVE AwaitStep(c)
  BY <1>8 DEF AwaitStep
<1> QED
  BY <1>3, <1>4, <1>5, <1>6, <1>7, <1>8 DEF Next

\* Whatever a step does to the dictionary keeps its keys apart, and forgets none
\* of them if there is room.
LEMMA SeenGrows ==
    ASSUME TypeOK, Distinct(seen),
           seen' = seen \/ \E e \in Event : seen' = MarkSeen(seen, e)
    PROVE  /\ Distinct(seen')
           /\ Roomy => \A x : IsSeen(seen, x) => IsSeen(seen', x)
<1>1. seen \in Seq(Event) /\ Len(seen) <= Capacity
  BY DEF TypeOK
<1>2. CASE seen' = seen
  BY <1>2
<1>3. ASSUME NEW e \in Event, seen' = MarkSeen(seen, e)
      PROVE  /\ Distinct(seen')
             /\ Roomy => \A x : IsSeen(seen, x) => IsSeen(seen', x)
  <2>1. Distinct(seen')
    BY <1>1, <1>3, MarkSeenKeepsDistinct
  <2>2. ASSUME Roomy
        PROVE  \A x : IsSeen(seen, x) => IsSeen(seen', x)
    <3>1. IsFiniteSet(Event) /\ Cardinality(Event) \in Nat /\ Capacity \in Nat
      BY FiniteAssumption, FS_CardinalityType, CapacityAssumption
    <3>2. Cardinality(Event) <= Capacity
      BY <2>2, <3>1 DEF Roomy
    <3> QED
      BY <1>1, <1>3, <3>1, <3>2, MarkSeenForgetsNothing
  <2> QED
    BY <2>1, <2>2
<1> QED
  BY <1>2, <1>3

\* What the five steps of the await do, in terms of the counts.
LEMMA AwaitStepEffects ==
    ASSUME TypeOK, NEW c \in Conn, AwaitStep(c)
    PROVE  /\ conn[c].phase # "idle"
           /\ RequestOf(c).event \in Event
           /\ \/ /\ conn[c].phase = "received" /\ Moves(c, "scheduling")
                 /\ ~IsSeen(seen, RequestOf(c).event)
                 /\ UNCHANGED <<seen, woken, raised>>
              \/ /\ conn[c].phase = "scheduling" /\ Moves(c, "accepted")
                 /\ woken' = [woken EXCEPT ![RequestOf(c).event] = @ + 1]
                 /\ UNCHANGED <<seen, raised>>
              \/ /\ conn[c].phase = "accepted" /\ Moves(c, "answered")
                 /\ seen' = MarkSeen(seen, RequestOf(c).event)
                 /\ UNCHANGED <<woken, raised>>
              \/ /\ conn[c].phase = "scheduling" /\ Moves(c, "answered")
                 /\ UNCHANGED <<seen, woken, raised>>
              \/ /\ conn[c].phase = "accepted" /\ Moves(c, "answered")
                 /\ raised' = [raised EXCEPT ![RequestOf(c).event] = @ + 1]
                 /\ UNCHANGED <<seen, woken>>
<1>1. conn[c].phase \in {"received", "scheduling", "accepted"}
  BY DEF AwaitStep, AwaitSchedule, Fresh, Dispatched, Received, RuntimeAccepts,
         ScheduleReturns, ScheduleFails, ScheduleRaisesLate
<1>2. conn[c].phase # "idle" /\ RequestOf(c).event \in Event
  BY <1>1, RequestOfIsRequest
<1>3. CASE AwaitSchedule(c)
  BY <1>2, <1>3, HandlerMoves DEF AwaitSchedule, Fresh, Dispatched, Received, shared, runtime
<1>4. CASE RuntimeAccepts(c)
  BY <1>2, <1>4, HandlerMoves DEF RuntimeAccepts, shared
<1>5. CASE ScheduleReturns(c)
  BY <1>2, <1>5, HandlerMoves DEF ScheduleReturns, runtime
<1>6. CASE ScheduleFails(c)
  BY <1>2, <1>6, HandlerMoves DEF ScheduleFails, Reply, shared, runtime
<1>7. CASE ScheduleRaisesLate(c)
  BY <1>2, <1>7, HandlerMoves DEF ScheduleRaisesLate, shared
<1> QED
  BY <1>3, <1>4, <1>5, <1>6, <1>7 DEF AwaitStep

\* The two counts of one event, as one handler goes through the await.
LEMMA AwaitStepKeepsCount ==
    ASSUME CountInv, TypeOK', Roomy, NEW c \in Conn, AwaitStep(c), NEW e \in Event
    PROVE  /\ ~IsSeen(seen', e) =>
                  woken'[e] <= Cardinality(At(e, "accepted"))' + raised'[e]
           /\ woken'[e] + Cardinality(At(e, "scheduling"))'
                  <= Cardinality(Conn) + raised'[e]
<1> DEFINE d == RequestOf(c).event
           S == Cardinality(At(e, "scheduling"))
           A == Cardinality(At(e, "accepted"))
           N == Cardinality(Conn)
           from == conn[c].phase
           to == conn'[c].phase
           T == Cardinality(At(e, "scheduling"))'
           B == Cardinality(At(e, "accepted"))'
<1>1. /\ S \in Nat /\ A \in Nat /\ N \in Nat /\ S + A <= N
      /\ woken[e] \in Nat /\ raised[e] \in Nat
  BY AtIsFinite, PhasesAreDisjoint, FiniteAssumption, FS_CardinalityType
     DEF CountInv, TypeOK
<1>2. /\ ~IsSeen(seen, e) => woken[e] <= A + raised[e]
      /\ woken[e] + S <= N + raised[e]
  BY DEF CountInv, UnseenIsAccounted, StartsAreBounded
<1>3. /\ T = IF d # e \/ from = to THEN S
             ELSE IF to = "scheduling" THEN S + 1
             ELSE IF from = "scheduling" THEN S - 1 ELSE S
      /\ B = IF d # e \/ from = to THEN A
             ELSE IF to = "accepted" THEN A + 1
             ELSE IF from = "accepted" THEN A - 1 ELSE A
  <2>1. TypeOK /\ from # "idle"
    BY AwaitStepEffects DEF CountInv
  <2>2. /\ \A x \in Conn \ {c} : conn'[x] = conn[x]
        /\ conn'[c].request = conn[c].request
    BY <2>1, AwaitStepEffects DEF Moves
  <2> QED
    BY <2>1, <2>2, CountAfterMove
<1>4. /\ seen' = seen \/ \E x \in Event : seen' = MarkSeen(seen, x)
      /\ TypeOK /\ Distinct(seen)
  BY AwaitStepEffects DEF CountInv
<1>5. IsSeen(seen, e) => IsSeen(seen', e)
  BY <1>4, SeenGrows
<1>11. T + B <= N
  <2>1. PhasesApart'
    BY AlwaysApart, PTL
  <2> QED
    BY <2>1 DEF PhasesApart
<1>6. CASE /\ from = "received" /\ Moves(c, "scheduling") /\ ~IsSeen(seen, d)
           /\ UNCHANGED <<seen, woken, raised>>
  <2>1. to = "scheduling"
    BY <1>6 DEF Moves
  <2> HIDE DEF from, to, S, A, N, T, B, d
  <2>2. CASE d = e
    BY <1>1, <1>2, <1>3, <1>6, <1>11, <2>1, <2>2 DEF S, A, N, T, B
  <2>3. CASE d # e
    BY <1>1, <1>2, <1>3, <1>6, <2>3 DEF S, A, N, T, B
  <2> QED
    BY <2>2, <2>3
<1>7. CASE /\ from = "scheduling" /\ Moves(c, "accepted")
           /\ woken' = [woken EXCEPT ![d] = @ + 1]
           /\ UNCHANGED <<seen, raised>>
  <2>1. to = "accepted"
    BY <1>7 DEF Moves
  <2>2. woken'[e] = IF d = e THEN woken[e] + 1 ELSE woken[e]
    BY <1>4, <1>7 DEF TypeOK
  <2> HIDE DEF from, to, S, A, N, T, B, d
  <2> QED
    BY <1>1, <1>2, <1>3, <1>7, <2>1, <2>2 DEF S, A, N, T, B
<1>8. CASE /\ from = "accepted" /\ Moves(c, "answered")
           /\ seen' = MarkSeen(seen, d)
           /\ UNCHANGED <<woken, raised>>
  <2>1. to = "answered"
    BY <1>8 DEF Moves
  <2>2. IsSeen(seen', d)
    <3>1. d \in Event
      BY <1>4, AwaitStepEffects
    <3> QED
      BY <1>4, <1>8, <3>1, MarkSeenContents DEF TypeOK
  <2> HIDE DEF from, to, S, A, N, T, B, d
  <2> QED
    BY <1>1, <1>2, <1>3, <1>5, <1>8, <2>1, <2>2 DEF S, A, N, T, B
<1>9. CASE /\ from = "scheduling" /\ Moves(c, "answered")
           /\ UNCHANGED <<seen, woken, raised>>
  <2>1. to = "answered"
    BY <1>9 DEF Moves
  <2> HIDE DEF from, to, S, A, N, T, B, d
  <2> QED
    BY <1>1, <1>2, <1>3, <1>9, <2>1 DEF S, A, N, T, B
<1>10. CASE /\ from = "accepted" /\ Moves(c, "answered")
            /\ raised' = [raised EXCEPT ![d] = @ + 1]
            /\ UNCHANGED <<seen, woken>>
  <2>1. to = "answered"
    BY <1>10 DEF Moves
  <2>2. raised'[e] = IF d = e THEN raised[e] + 1 ELSE raised[e]
    BY <1>4, <1>10 DEF TypeOK
  <2> HIDE DEF from, to, S, A, N, T, B, d
  <2> QED
    BY <1>1, <1>2, <1>3, <1>10, <2>1, <2>2 DEF S, A, N, T, B
<1> QED
  BY <1>4, <1>6, <1>7, <1>8, <1>9, <1>10, AwaitStepEffects

\* The count survives every step.
LEMMA NextCount ==
    ASSUME IInv, CountInv, [Next]_vars
    PROVE  CountInv'
<1>1. TypeOK'
  BY NextIInv DEF IInv
<1>2. CASE Quiet
  <2>1. /\ Distinct(seen')
        /\ Roomy => \A x : IsSeen(seen, x) => IsSeen(seen', x)
    BY <1>2, SeenGrows DEF Quiet, CountInv
  <2>2. UNCHANGED <<woken, raised>>
    BY <1>2 DEF Quiet, runtime
  <2>3. \A e \in Event : /\ At(e, "scheduling")' = At(e, "scheduling")
                         /\ At(e, "accepted")' = At(e, "accepted")
    <3>1. \A c \in Conn : \/ conn'[c] = conn[c]
                          \/ conn[c].phase # "scheduling" /\ conn'[c].phase # "scheduling"
      BY <1>2 DEF Quiet
    <3>2. \A c \in Conn : \/ conn'[c] = conn[c]
                          \/ conn[c].phase # "accepted" /\ conn'[c].phase # "accepted"
      BY <1>2 DEF Quiet
    <3> QED
      BY <3>1, <3>2, AtUnmoved
  <2>4. UnseenIsAccounted'
    BY <2>1, <2>2, <2>3 DEF CountInv, UnseenIsAccounted, Roomy
  <2>5. StartsAreBounded'
    BY <2>2, <2>3 DEF CountInv, StartsAreBounded, Roomy
  <2> QED
    BY <1>1, <2>1, <2>4, <2>5 DEF CountInv
<1>3. ASSUME NEW c \in Conn, AwaitStep(c)
      PROVE  CountInv'
  <2>1. Distinct(seen')
    <3>1. seen' = seen \/ \E e \in Event : seen' = MarkSeen(seen, e)
      BY <1>3, AwaitStepEffects DEF CountInv
    <3> QED
      BY <3>1, SeenGrows DEF CountInv
  <2>2. UnseenIsAccounted'
    BY <1>1, <1>3, AwaitStepKeepsCount DEF UnseenIsAccounted, Roomy
  <2>3. StartsAreBounded'
    BY <1>1, <1>3, AwaitStepKeepsCount DEF StartsAreBounded, Roomy
  <2> QED
    BY <1>1, <2>1, <2>2, <2>3 DEF CountInv
<1> QED
  BY <1>2, <1>3, StepKinds DEF CountInv

\* At the beginning there is nothing to count.
LEMMA InitCount == Init => CountInv
<1> SUFFICES ASSUME Init PROVE CountInv
  OBVIOUS
<1>1. TypeOK
  BY InitIInv DEF IInv
<1>2. Distinct(seen)
  BY DEF Init, Distinct
<1>3. \A e \in Event : woken[e] = 0 /\ raised[e] = 0
  BY DEF Init
<1>4. \A e \in Event :
          /\ Cardinality(At(e, "accepted")) \in Nat
          /\ Cardinality(At(e, "scheduling")) \in Nat
          /\ Cardinality(At(e, "scheduling")) <= Cardinality(Conn)
  BY AtIsFinite
<1>5. Cardinality(Conn) \in Nat
  BY FiniteAssumption, FS_CardinalityType
<1> QED
  BY <1>1, <1>2, <1>3, <1>4, <1>5 DEF CountInv, UnseenIsAccounted, StartsAreBounded

\* The two invariants together are inductive.
LEMMA AlwaysCounted == Spec => [](IInv /\ CountInv)
<1>1. Init => IInv /\ CountInv
  BY InitIInv, InitCount
<1>2. IInv /\ CountInv /\ [Next]_vars => (IInv /\ CountInv)'
  BY NextIInv, NextCount
<1> QED
  BY <1>1, <1>2, PTL DEF Spec

\* As long as the dictionary holds every id, an event is woken at most once per
\* connection, and once more for each start that was reported as a failure: the
\* price of checking the record before the await and writing it after.
THEOREM DuplicatesStayBounded == Spec => []DuplicatesAreBounded
<1>1. IInv /\ CountInv => DuplicatesAreBounded
  <2> SUFFICES ASSUME CountInv, Roomy, NEW e \in Event
               PROVE  woken[e] <= Cardinality(Conn) + raised[e]
    BY DEF DuplicatesAreBounded, Roomy
  <2>1. /\ woken[e] \in Nat /\ raised[e] \in Nat
        /\ Cardinality(At(e, "scheduling")) \in Nat
        /\ Cardinality(Conn) \in Nat
    BY AtIsFinite, FiniteAssumption, FS_CardinalityType DEF CountInv, TypeOK
  <2>2. woken[e] + Cardinality(At(e, "scheduling")) <= Cardinality(Conn) + raised[e]
    BY DEF CountInv, StartsAreBounded
  <2> QED
    BY <2>1, <2>2
<1> QED
  BY AlwaysCounted, <1>1, PTL

\* Settled in terms of the sets: recorded, and nobody waits with it.
SettledIsUnheld ==
    \A e \in Event : Settled(e) <=> IsSeen(seen, e) /\ At(e, "scheduling") = {}

\* Settled is: recorded, and no handler holds it.
LEMMA SettledMeans == TypeOK => SettledIsUnheld
<1> SUFFICES ASSUME TypeOK, NEW e \in Event
             PROVE  Settled(e) <=> IsSeen(seen, e) /\ At(e, "scheduling") = {}
  BY DEF SettledIsUnheld
<1>1. \A c \in Conn : conn[c].phase = "scheduling" => conn[c].request = {RequestOf(c)}
  BY RequestOfIsRequest
<1> QED
  BY <1>1 DEF Settled, At

\* With room for every id, a settled event is woken no more: not by this step,
\* and as it stays settled not by any later one.
THEOREM SettledIsFinal == Spec => SettledStaysSettled
<1>1. ASSUME IInv, CountInv, [Next]_vars, IInv', Roomy, NEW e \in Event, Settled(e)
      PROVE  Settled(e)' /\ woken'[e] = woken[e]
  <2>1. IsSeen(seen, e) /\ At(e, "scheduling") = {}
    BY <1>1, SettledMeans DEF IInv, SettledIsUnheld
  <2>2. ASSUME IsSeen(seen', e), At(e, "scheduling")' = {}
        PROVE  Settled(e)'
    <3>1. TypeOK'
      BY <1>1 DEF IInv
    <3>2. SettledIsUnheld'
      BY <3>1, SettledMeans, PTL
    <3> QED
      BY <2>2, <3>2 DEF SettledIsUnheld
  <2>3. CASE Quiet
    <3>1. IsSeen(seen', e)
      BY <1>1, <2>1, <2>3, SeenGrows DEF Quiet, CountInv
    <3>2. At(e, "scheduling")' = At(e, "scheduling")
      <4>1. \A c \in Conn : \/ conn'[c] = conn[c]
                            \/ conn[c].phase # "scheduling" /\ conn'[c].phase # "scheduling"
        BY <2>3 DEF Quiet
      <4> QED
        BY <4>1, AtUnmoved
    <3>3. woken' = woken
      BY <2>3 DEF Quiet, runtime
    <3> QED
      BY <2>1, <2>2, <3>1, <3>2, <3>3
  <2>4. ASSUME NEW c \in Conn, AwaitStep(c)
        PROVE  Settled(e)' /\ woken'[e] = woken[e]
    <3>1. TypeOK /\ conn[c].phase # "idle" /\ RequestOf(c).event \in Event
      BY <1>1, <2>4, AwaitStepEffects DEF CountInv
    <3>2. conn[c].phase = "scheduling" => RequestOf(c).event # e
      <4>1. conn[c].request = {RequestOf(c)}
        BY <3>1, RequestOfIsRequest
      <4> QED
        BY <2>1, <4>1 DEF At
    <3>3. /\ seen' = seen \/ \E x \in Event : seen' = MarkSeen(seen, x)
          /\ woken'[e] = woken[e]
          /\ conn'[c].phase = "scheduling" => RequestOf(c).event # e
      BY <2>1, <2>4, <3>1, <3>2, AwaitStepEffects DEF Moves, TypeOK
    <3>4. IsSeen(seen', e)
      BY <1>1, <2>1, <3>3, SeenGrows DEF CountInv
    <3>5. At(e, "scheduling")' = {}
      <4>1. /\ \A d \in Conn \ {c} : conn'[d] = conn[d]
            /\ conn'[c].request = conn[c].request
        BY <2>4, <3>1, AwaitStepEffects DEF Moves
      <4>2. At(e, "scheduling")' =
                IF conn'[c].phase = "scheduling" /\ RequestOf(c).event = e
                THEN At(e, "scheduling") \cup {c} ELSE At(e, "scheduling") \ {c}
        BY <3>1, <4>1, AtAfterMove
      <4> QED
        BY <2>1, <3>3, <4>2
    <3> QED
      BY <2>2, <3>3, <3>4, <3>5
  <2> QED
    BY <1>1, <2>3, <2>4, StepKinds DEF CountInv
<1>2. IInv /\ CountInv /\ (IInv /\ CountInv)' /\ [Next]_vars =>
          [Capacity >= Cardinality(Event) =>
              \A e \in Event : Settled(e) => Settled(e)' /\ woken'[e] = woken[e]]_vars
  BY <1>1 DEF Roomy
<1> QED
  BY AlwaysCounted, <1>2, PTL DEF Spec, SettledStaysSettled
=============================================================================
