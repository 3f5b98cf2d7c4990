----------------------------- MODULE Activation -----------------------------
(***************************************************************************)
(* The subscription's life inside its host: the activation hook and the    *)
(* startup and shutdown handlers (activation.py), the manager they drive,  *)
(* and what is around them: uvicorn, which opens and closes the listening  *)
(* socket, and the MCP server, which answers calls and, inside an          *)
(* events/subscribe, challenges the agent's own endpoint.                  *)
(*                                                                         *)
(* A request the client gave up on (a timeout, a cancelled task) may still *)
(* be on its way or in work at the server: it stays in `requests`, and the *)
(* server acts on it as on any other.                                      *)
(***************************************************************************)
EXTENDS SubscriptionManager

CONSTANT MaxFaults   \* bound: failed calls, lapsed grants, server restarts

ASSUME FaultsAssumption == MaxFaults \in Nat

VARIABLES host,       \* how far the host is: hook, startup, serving, shutdown
          listening,  \* whether the socket of the webhook endpoint is open
          client,     \* the HTTP client of the calls
          requests,   \* subscribe and unsubscribe requests at the server
          granted,    \* whether the server has the subscription
          verified,   \* whether the server has verified the endpoint
          faults,     \* faults so far
          broken,     \* whether an answer of an unexpected shape came
          owed        \* whether a subscribe went out and no unsubscribe after it

serverVars == <<requests, granted, verified>>
hostVars == <<host, listening, client>>
vars == <<managerVars, hostVars, serverVars, faults, broken, owed>>

HostPc == {"boot", "hooked", "headless", "up", "joining start", "stopping", "down"}

RequestType == [method: {"events/subscribe", "events/unsubscribe"},
                stage: {"sent", "verified", "refused"},
                awaited: BOOLEAN]

Init == /\ ManagerInit
        /\ host = "boot" /\ listening = FALSE /\ client = "none"
        /\ requests = {} /\ granted = FALSE /\ verified = FALSE
        /\ faults = 0 /\ broken = FALSE /\ owed = FALSE
-----------------------------------------------------------------------------
(* The network between the client and the server *)

Orphaned == {[q EXCEPT !.awaited = FALSE] : q \in requests}

\* The manager's step issues this request.
Send(method) ==
    /\ requests' = Orphaned \cup {[method |-> method, stage |-> "sent", awaited |-> TRUE]}
    /\ owed' = (method = "events/subscribe")

SendsNothing == UNCHANGED <<requests, owed>>

\* What became of a subscribe or unsubscribe nobody waits for is for the
\* network and the server to decide.
GivesUp == requests' = Orphaned /\ UNCHANGED owed

Quiet == UNCHANGED <<hostVars, granted, verified, faults, broken>>

FaultHappens == faults < MaxFaults /\ faults' = faults + 1
-----------------------------------------------------------------------------
(* Activation: the hook, on_startup, on_shutdown *)

Goes(from, to) == host = from /\ host' = to

\* A step of the host in which neither the manager nor the server takes part.
HostAlone == UNCHANGED <<managerVars, serverVars, faults, broken, owed>>

\* The hook with an HTTP host: wires the sink, mounts the route, registers
\* the two handlers.
Hook == Goes("boot", "hooked") /\ HostAlone /\ UNCHANGED <<listening, client>>

\* The hook without one: nothing is wired, for good.
HookWithoutApp == Goes("boot", "headless") /\ HostAlone /\ UNCHANGED <<listening, client>>

\* on_startup creates client and manager and leaves start() to a task.
OnStartup == /\ Goes("hooked", "up")
             /\ client' = "open"
             /\ HostAlone /\ UNCHANGED listening

\* External: uvicorn opens the socket after the startup handlers returned.
SocketOpens == /\ host = "up" /\ ~listening
               /\ listening' = TRUE
               /\ HostAlone /\ UNCHANGED <<host, client>>

\* stop() up to its await: an unsubscribe if self._name is set.
ManagerStops ==
    /\ StopWithoutLoop \/ StopCancelsLoop \/ StopMeetsDeadLoop
    /\ IF stop' = "unsubscribe" THEN Send("events/unsubscribe") ELSE GivesUp

\* A step of on_shutdown, which uvicorn calls with the socket closed.
ShutdownSteps == /\ listening' = FALSE
                 /\ UNCHANGED <<client, granted, verified, faults, broken>>

\* on_shutdown: a start task that is not done is cancelled and joined before
\* the manager is stopped ...
ShutdownCancelsStart_Not ==   \* mutant: stop() without a look at the start task
    Goes("up", "stopping") /\ (start = "new" \/ Starting) /\ ManagerStops /\ ShutdownSteps
ShutdownCancelsStart ==
    Goes("up", "joining start") /\ StartCancelled /\ GivesUp /\ ShutdownSteps

\* mutant: the manager is stopped only if it got through start()
ShutdownJoinedStart_IfReturned ==
    Goes("joining start", "stopping") /\ start = "returned" /\ ManagerStops /\ ShutdownSteps
ShutdownJoinedStart == Goes("joining start", "stopping") /\ ManagerStops /\ ShutdownSteps

\* ... and one that is done leaves only the manager to stop.
ShutdownStopsManager ==
    Goes("up", "stopping") /\ ~(start = "new" \/ Starting) /\ ManagerStops /\ ShutdownSteps

ShutdownClosesClient == /\ Goes("stopping", "down") /\ stop = "returned"
                        /\ client' = "closed"
                        /\ HostAlone /\ UNCHANGED listening

\* stop() raised: so does on_shutdown, which does not reach client.aclose().
ShutdownAborts == /\ Goes("stopping", "down") /\ stop = "raised"
                  /\ HostAlone /\ UNCHANGED <<listening, client>>
-----------------------------------------------------------------------------
(* The manager's own steps: nobody answers, the event loop runs the task *)

StartRuns == host = "up" /\ StartBegins /\ SendsNothing /\ Quiet

LoopRunsOn == (LoopSleeps \/ (LoopCannotParse /\ broken)) /\ SendsNothing /\ Quiet

TimerFires == RefreshBegins /\ Send("events/subscribe") /\ Quiet
-----------------------------------------------------------------------------
(* The server's answers, and what the manager does with them *)

AnswersInitialize == InitializeReturns /\ SendsNothing /\ Quiet

AnswersList == \E s \in Secret : ListReturns(s) /\ Send("events/subscribe") /\ Quiet

ListsNothing == ListOffersNothing /\ SendsNothing /\ Quiet

\* Inside a subscribe, the server posts a challenge to the endpoint: it is
\* echoed if the socket is open and the receiver finds the request's secret.
Challenge(q) ==
    /\ q.method = "events/subscribe" /\ q.stage = "sent"
    /\ LET echoed == listening /\ Tracked(sub) /\ SecretFor(sub) = secret
           after == IF verified \/ echoed THEN "verified" ELSE "refused"
       IN  /\ requests' = (requests \ {q}) \cup {[q EXCEPT !.stage = after]}
           /\ verified' = (after = "verified")
    /\ UNCHANGED <<managerVars, hostVars, granted, faults, broken, owed>>

\* The answer to q leaves the server and reaches whoever awaits it, with this
\* outcome; nobody else minds.
Answered(q, Outcome) == /\ requests' = requests \ {q}
                        /\ IF q.awaited THEN Outcome ELSE UNCHANGED managerVars
                        /\ UNCHANGED <<hostVars, verified, faults, owed>>

Delivers(r) == StartSubscribed(r) \/ RefreshReturns(r)

\* The upsert: the subscription exists from now on.  An answer without an
\* "id", or with a refreshBefore that is no timestamp, is a broken one.
GrantsAsExpected(q) ==
    /\ q.stage = "verified"
    /\ granted' = TRUE
    /\ Answered(q, \E r \in Result : r.refreshBefore \notin Unparsable /\ Delivers(r))
    /\ UNCHANGED broken

GrantsBrokenly(q) ==
    /\ q.stage = "verified" /\ q.awaited
    /\ granted' = TRUE
    /\ broken' = TRUE
    /\ Answered(q, \/ StartBreaks \/ RefreshBreaks
                   \/ \E r \in Result : r.refreshBefore \in Unparsable /\ Delivers(r))

\* -32015: the endpoint did not echo the challenge.
Refuses(q) ==
    /\ q.stage = "refused"
    /\ Answered(q, StartFails \/ RefreshFails)
    /\ UNCHANGED <<granted, broken>>

Unsubscribes(q) ==
    /\ q.method = "events/unsubscribe"
    /\ granted' = FALSE
    /\ Answered(q, UnsubscribeEnds)
    /\ UNCHANGED broken

ServerActs(q) == Challenge(q) \/ GrantsAsExpected(q) \/ Refuses(q) \/ Unsubscribes(q)
-----------------------------------------------------------------------------
(* Faults *)

\* A call times out, its connection fails, or the server answers with an error.
CallFails ==
    /\ FaultHappens
    /\ StartFails \/ RefreshFails \/ UnsubscribeEnds
    /\ GivesUp
    /\ UNCHANGED <<hostVars, granted, verified, broken>>

\* Any call may be answered by what the client cannot digest.
CallBreaks ==
    /\ FaultHappens
    /\ StartBreaks \/ RefreshBreaks \/ UnsubscribeBreaks
    /\ broken' = TRUE
    /\ GivesUp
    /\ UNCHANGED <<hostVars, granted, verified>>

RequestIsLost(q) ==
    /\ ~q.awaited
    /\ requests' = requests \ {q}
    /\ UNCHANGED <<managerVars, hostVars, granted, verified, faults, broken, owed>>

GrantLapses ==
    /\ FaultHappens
    /\ granted
    /\ granted' = FALSE
    /\ UNCHANGED <<managerVars, hostVars, requests, verified, broken, owed>>

ServerRestarts ==
    /\ FaultHappens
    /\ granted' = FALSE
    /\ verified' = FALSE
    /\ requests' = {[q EXCEPT !.stage = "sent"] : q \in requests}
    /\ UNCHANGED <<managerVars, hostVars, broken, owed>>
-----------------------------------------------------------------------------
\* The host has stopped, or never had an HTTP endpoint, and nothing is left.
Finished == /\ host \in {"down", "headless"}
            /\ UNCHANGED vars

Shutdown == \/ ShutdownJoinedStart \/ ShutdownClosesClient \/ ShutdownAborts

Next ==
    \/ Hook \/ HookWithoutApp \/ OnStartup \/ SocketOpens
    \/ ShutdownCancelsStart \/ ShutdownStopsManager \/ Shutdown
    \/ StartRuns \/ LoopRunsOn \/ TimerFires
    \/ AnswersInitialize \/ AnswersList \/ ListsNothing
    \/ \E q \in requests : ServerActs(q) \/ GrantsBrokenly(q) \/ RequestIsLost(q)
    \/ CallFails \/ CallBreaks \/ GrantLapses \/ ServerRestarts
    \/ Finished

\* The event loop runs what is ready and timers fire (StartRuns, LoopRunsOn,
\* TimerFires, Shutdown); uvicorn opens the socket; the server gets to every
\* request that somebody awaits.  Nothing is assumed about faults, nor that a
\* shutdown ever begins.
Fairness ==
    /\ WF_vars(SocketOpens)
    /\ WF_vars(StartRuns) /\ WF_vars(LoopRunsOn) /\ WF_vars(TimerFires)
    /\ WF_vars(Shutdown)
    /\ WF_vars(AnswersInitialize \/ AnswersList \/ ListsNothing)
    /\ WF_vars(\E q \in requests : q.awaited /\ ServerActs(q))

Spec == Init /\ [][Next]_vars /\ Fairness
-----------------------------------------------------------------------------
TypeOK ==
    /\ ManagerTypeOK
    /\ host \in HostPc
    /\ listening \in BOOLEAN
    /\ client \in {"none", "open", "closed"}
    /\ requests \subseteq RequestType
    /\ granted \in BOOLEAN /\ verified \in BOOLEAN
    /\ faults \in 0..MaxFaults
    /\ broken \in BOOLEAN /\ owed \in BOOLEAN

\* Whenever a subscribe request is at the server, the receiver already holds
\* the secret that signs its challenge: the "load-bearing ordering" of
\* subscription.py:164-167, over refreshes, retries and orphaned requests.
SecretBeforeChallenge ==
    \A q \in requests :
        q.method = "events/subscribe" => secret # {} /\ SecretFor(sub) = secret

\* start(), the loop and stop() never have calls under way together, so no
\* refresh overtakes the unsubscribe of stop() (subscription.py:191-199), and
\* the one request awaited at the server is the one the manager awaits.
OneCallAtATime ==
    /\ Starting => loop = "none" /\ stop = "none"
    /\ loop = "refresh" => stop = "none"
    /\ \A q, p \in requests : q.awaited /\ p.awaited => q = p
    /\ \A q \in requests : q.awaited =>
           \E c \in call : c.method = q.method

\* Once the client is closed nothing is left that could use it: a call on a
\* closed client raises an error nobody catches (activation.py:134-146).
ClosedMeansQuiet ==
    client = "closed" => ~Starting /\ ~LoopRuns /\ stop # "unsubscribe" /\ call = {}

\* A shutdown that gets to close the client has sent an unsubscribe after every
\* subscribe it ever sent, also when start() was cancelled before it learnt
\* whether it was granted (subscription.py:201, activation.py:135-143).
ClosedOwesNothing == client = "closed" => ~owed

\* While the loop runs, a subscription that was lost (a lapse, a restart of the
\* server, a refused challenge) comes back, after any finite number of failures
\* (subscription.py:271-274); unless the host shuts down or an answer was broken.
LostGrantComesBack ==
    [](LoopRuns /\ ~broken => <>(granted \/ host # "up" \/ broken))

\* on_shutdown comes to its end, whatever it interrupts (activation.py:132-146).
ShutdownEnds == host \in {"joining start", "stopping"} ~> host = "down"

\* "A failed refresh is logged and retried on the next iteration rather than
\* tearing the loop down" (subscription.py:262-263).
LoopIsNotTornDown == loop # "dead"

\* The start task is one "that runs once the event loop is serving and the
\* socket is up" (activation.py:25-26): no subscribe before the socket is open.
SubscribesOnceListening ==
    \A q \in requests :
        q.method = "events/subscribe" /\ host = "up" => listening
=============================================================================
