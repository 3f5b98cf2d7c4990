----------------------------- MODULE McpSession -----------------------------
(***************************************************************************)
(* The subscription manager over the real client (client.py): how its      *)
(* calls become HTTP requests, in which session, and how the responses,    *)
(* read by RpcFraming, end them.                                           *)
(*                                                                         *)
(* The server is one that enforces what the comments of the client say a   *)
(* stricter server may (client.py:72-74): it refuses a request outside a   *)
(* session it opened, and a call before `notifications/initialized`.  It   *)
(* answers every request with one message, which carries the request's id  *)
(* or, an error, none; framed as it likes, with other traffic around it.   *)
(***************************************************************************)
EXTENDS SubscriptionManager, RpcFraming

CONSTANTS Name,        \* event types
          Configured,  \* settings.event_name
          Offers,      \* what the server may list: sequences of definitions
          Session,     \* the session the server opens
          MaxFaults,   \* bound: calls that fail, restarts of the server
          MaxRequests  \* bound: requests sent when the loop last begins one

ASSUME NameAssumption == Configured \in Name /\ None \notin Name
ASSUME OfferAssumption == Offers \subseteq Seq([name: Name \cup {None}, webhook: BOOLEAN])
ASSUME SessionAssumption == Session # {}   \* a strict server opens one
ASSUME BoundAssumption == MaxFaults \in Nat /\ MaxRequests \in Nat

VARIABLES id,        \* self._id of the client: the last request id used
          session,   \* self._session_id: {} for None
          wire,      \* the HTTP request under way: {} for none
          name,      \* self._name of the manager: {} for None
          offered,   \* what the server lists
          opened,    \* sessions the server knows
          ready,     \* of these, the ones it was told are initialized
          restarted, \* whether it forgot them since
          heard,     \* the last answer: what it said and how the call ended
          faults

clientVars == <<id, session, wire, name>>
serverVars == <<offered, opened, ready, restarted>>
vars == <<managerVars, clientVars, serverVars, heard, faults>>

Init == /\ ManagerInit
        /\ id = 0 /\ session = {} /\ wire = {} /\ name = {}
        /\ offered \in Offers
        /\ opened = {} /\ ready = {} /\ restarted = FALSE
        /\ heard = {} /\ faults = 0
-----------------------------------------------------------------------------
(* What is answered *)

\* Every way to answer a request: what the server means, and what it sends.  A
\* server that could not read the request answers with an error without an id;
\* an error with an odd code is garbled.
Answers(n) ==
    LET M(result, error) == [object |-> TRUE, id |-> n, result |-> result, error |-> error]
        Nameless == [M("absent", "error") EXCEPT !.id = None]
    IN  {[meant |-> "returns", message |-> M("object", e)] : e \in {"absent", "null"}}
        \cup {[meant |-> "fails", message |-> M(r, "error")] : r \in {"absent", "other"}}
        \cup {[meant |-> "fails", message |-> M("other", "absent")],
              [meant |-> "fails", message |-> M("absent", "other")],
              [meant |-> "fails", message |-> Nameless],
              [meant |-> "garbled", message |-> M("absent", "error with odd code")]}

\* What else may be in the stream of request n that is answered by m: a comment;
\* a notification; a request of the server, whose ids are its own and may be the
\* same; the half of a message; and, if the answer is told by its id, the answer
\* to an earlier request, sent again.
OtherTraffic(n, m) ==
    LET Block(x) == <<Line(x, 1, 1)>>
        M(k, result) == [object |-> TRUE, id |-> k, result |-> result, error |-> "absent"]
    IN  {<<[data |-> FALSE]>>, Block(M(None, "absent")), Block(M(n, "absent")),
         <<Line(M(n, "object"), 2, 2)>>}
        \cup (IF m.id = n THEN {Block(M(n - 1, "object"))} ELSE {})

\* A block that holds message m, in one data line or in two.
AnswerBlocks(m) == {<<Line(m, 1, 1)>>,
                    <<[data |-> FALSE], Line(m, 1, 2), Line(m, 2, 2)>>}

Beside(n, m) == {<<>>} \cup {<<b>> : b \in OtherTraffic(n, m)}

Stream(block, beside) ==
    [json |-> {}, blocks |-> beside[1] \o <<block>> \o beside[2]]

\* The framings of message m: as JSON, or as a block with other traffic before
\* and after it; labelled, or not.
Framings(n, m) ==
    [type: {"json", "other"}, text: {[json |-> {m}, blocks |-> <<>>]}]
    \cup [type: {"sse", "other"},
          text: {Stream(b, beside) : b \in AnswerBlocks(m),
                                     beside \in Beside(n, m) \X Beside(n, m)}]

\* The body of a refusal that is no JSON-RPC at all.
ErrorPage == [type |-> "other", text |-> [json |-> {}, blocks |-> <<>>]]
-----------------------------------------------------------------------------
(* The client *)

Request(method, inSession) ==
    /\ id' = id + 1
    /\ wire' = {[method |-> method, id |-> id + 1, session |-> inSession]}

\* _send adopts a session id wherever a response carries one.
Adopt(header) == session' = IF header = {} THEN session ELSE header

\* decide(): the configured event if it is listed, else the first that can be
\* delivered by webhook; definitions without a name are passed over.
Decide_AnyDelivery(events) ==   \* mutant: the first event, whatever its delivery
    LET Suitable == {i \in DOMAIN events : events[i].name # None}
    IN  IF \E i \in DOMAIN events : events[i].name = Configured THEN {Configured}
        ELSE {events[First(Suitable)].name : i \in Suitable}
Decide(events) ==
    LET Suitable == {i \in DOMAIN events : events[i].name # None /\ events[i].webhook}
    IN  IF \E i \in DOMAIN events : events[i].name = Configured THEN {Configured}
        ELSE {events[First(Suitable)].name : i \in Suitable}
-----------------------------------------------------------------------------
(* The manager begins a call *)

Around == UNCHANGED <<session, name, serverVars, heard, faults>>

StartRuns == StartBegins /\ Request("initialize", session) /\ Around

LoopRunsOn == LoopSleeps /\ UNCHANGED <<clientVars, serverVars, heard, faults>>

TimerFires == /\ id < MaxRequests
              /\ RefreshBegins /\ Request("events/subscribe", session) /\ Around

\* on_shutdown: what start() or the loop waits for is abandoned.
StopBegins ==
    /\ ~Starting /\ start # "new"
    /\ StopWithoutLoop \/ StopCancelsLoop \/ StopMeetsDeadLoop
    /\ IF stop' = "unsubscribe" THEN Request("events/unsubscribe", session)
                                ELSE wire' = {} /\ UNCHANGED id
    /\ Around

ShutdownCancelsStart_Keeps ==   \* mutant: the call is not cancelled with its task
    StartCancelled /\ UNCHANGED <<id, wire>> /\ Around
ShutdownCancelsStart == StartCancelled /\ wire' = {} /\ UNCHANGED id /\ Around
-----------------------------------------------------------------------------
(* The server answers *)

\* A strict server takes `initialize`, whatever session it comes in; anything
\* else in a session it opened; and events/* once that is initialized.
Welcome(q) ==
    \/ q.method = "initialize"
    \/ q.method = "notifications/initialized" /\ q.session # {} /\ q.session \subseteq opened
    \/ q.session # {} /\ q.session \subseteq ready

Carries(q) ==
    /\ opened' = opened \cup IF q.method = "initialize" THEN Session ELSE {}
    /\ ready' = ready \cup IF q.method = "notifications/initialized" THEN q.session ELSE {}
    /\ UNCHANGED <<offered, restarted>>

Fails == StartFails \/ RefreshFails \/ UnsubscribeEnds
Breaks == StartBreaks \/ RefreshBreaks \/ UnsubscribeBreaks

\* No request follows.
Silent == wire' = {} /\ UNCHANGED <<id, name>>

Ends(outcome) == /\ (outcome = "fails" /\ Fails) \/ (outcome = "breaks" /\ Breaks)
                 /\ Silent

\* What the manager does with a result, by the method it answers.
InitializeAnswered ==
    /\ wire' = {[method |-> "notifications/initialized", id |-> 0, session |-> session']}
    /\ UNCHANGED <<managerVars, id, name>>

ListAnswered ==
    \/ \E s \in Secret, e \in Decide(offered) :
           /\ ListReturns(s)
           /\ name' = {e}
           /\ Request("events/subscribe", session')
    \/ Decide(offered) = {} /\ ListOffersNothing /\ Silent

\* A result without "id" raises KeyError.
SubscribeAnswered == /\ \/ \E r \in Result : StartSubscribed(r) \/ RefreshReturns(r)
                        \/ StartBreaks \/ RefreshBreaks
                     /\ Silent

UnsubscribeAnswered == UnsubscribeEnds /\ Silent

Returns(method) ==
    CASE method = "initialize"         -> InitializeAnswered
      [] method = "events/list"        -> ListAnswered
      [] method = "events/subscribe"   -> SubscribeAnswered
      [] method = "events/unsubscribe" -> UnsubscribeAnswered

\* A request that is carried out is answered by one of Answers; one that is not
\* welcome by an error page.
ServerAnswers(q) ==
    /\ q.method # "notifications/initialized"
    /\ Welcome(q)
    /\ \E a \in Answers(q.id) : \E response \in Framings(q.id, a.message) :
           LET outcome == Outcome(response, q.id)
           IN  /\ heard' = {[meant |-> a.meant, got |-> outcome]}
               /\ IF a.meant = "returns" THEN Carries(q) ELSE UNCHANGED serverVars
               /\ Adopt(IF q.method = "initialize" THEN Session ELSE {})
               /\ IF outcome = "returns" THEN Returns(q.method) ELSE Ends(outcome)
    /\ UNCHANGED faults

ServerRefuses(q) ==
    /\ q.method # "notifications/initialized"
    /\ ~Welcome(q)
    /\ heard' = {[meant |-> "fails", got |-> Outcome(ErrorPage, q.id)]}
    /\ Ends(Outcome(ErrorPage, q.id))
    /\ UNCHANGED <<session, serverVars, faults>>

\* mutant: whatever answers the notification will do
NotificationAnswered_Any(accepted) ==
    InitializeReturns /\ Request("events/list", session')
NotificationAnswered(accepted) ==
    IF accepted THEN InitializeReturns /\ Request("events/list", session')
    ELSE StartFails /\ wire' = {} /\ UNCHANGED id

\* _notify: 202 or it is an error; a server may have reasons of its own.
ServerTakesNotification(q) ==
    /\ q.method = "notifications/initialized"
    /\ \E accepted \in {Welcome(q), FALSE} :
           /\ IF accepted THEN Carries(q) ELSE UNCHANGED serverVars
           /\ Adopt({}) /\ NotificationAnswered(accepted)
    /\ UNCHANGED <<name, heard, faults>>
-----------------------------------------------------------------------------
(* Faults *)

FaultHappens == faults < MaxFaults /\ faults' = faults + 1

\* A timeout or a lost connection, before or after the server acted.
CallIsLost ==
    /\ FaultHappens
    /\ \E q \in wire : (Welcome(q) /\ Carries(q)) \/ UNCHANGED serverVars
    /\ Ends("fails")
    /\ UNCHANGED <<session, heard>>

ServerRestarts ==
    /\ FaultHappens
    /\ opened # {}
    /\ opened' = {} /\ ready' = {} /\ restarted' = TRUE
    /\ UNCHANGED <<managerVars, clientVars, offered, heard>>

Finished == stop \in {"returned", "raised"} /\ UNCHANGED vars

Next ==
    \/ StartRuns \/ LoopRunsOn \/ TimerFires \/ StopBegins \/ ShutdownCancelsStart
    \/ \E q \in wire : ServerAnswers(q) \/ ServerRefuses(q) \/ ServerTakesNotification(q)
    \/ CallIsLost \/ ServerRestarts
    \/ Finished

Spec == Init /\ [][Next]_vars
-----------------------------------------------------------------------------
TypeOK ==
    /\ ManagerTypeOK
    /\ id \in Nat
    /\ session \subseteq Session /\ opened \subseteq Session /\ ready \subseteq opened
    /\ offered \in Offers /\ restarted \in BOOLEAN /\ faults \in 0..MaxFaults
    \* the manager waits for a call exactly while a request is under way
    /\ wire = {} <=> call = {}

\* However an answer is framed, and whatever else is in its stream, the call ends
\* the way the server meant, and a garbled answer is not taken for a result
\* (client.py:225-275).
Understood(meant, got) == got = meant \/ (meant = "garbled" /\ got # "returns")
AnswersAreUnderstood == \A h \in heard : Understood(h.meant, h.got)

\* A strict server welcomes every request: it has the session, and the handshake
\* was completed before the first events/* call; unless the server restarted,
\* after which the client, that never initializes again, stays refused
\* (client.py:72-74, 97-109, 184-193).
RequestsAreWelcome == \A q \in wire : Welcome(q) \/ restarted

\* No event type is subscribed to, or refreshed, that the server cannot deliver,
\* but the one the operator asked for (subscription.py:212-255).
AsksForWhatIsOffered ==
    \A n \in name : \E i \in DOMAIN offered :
        offered[i].name = n /\ (offered[i].webhook \/ n = Configured)
=============================================================================
