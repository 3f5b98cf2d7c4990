-------------------------- MODULE ActivationProofs --------------------------
(***************************************************************************)
(* For any secrets, grants, cursors and any number of faults: the secret   *)
(* precedes every challenge, the coroutines of the manager take turns, and *)
(* a shutdown that gets to its end leaves nothing behind.                  *)
(***************************************************************************)
EXTENDS Activation, SubscriptionManagerProofs

\* How far the host is tells which of the manager's coroutines may exist, and
\* a coroutine that exists tells where the others are.
Phases ==
    /\ host \in {"boot", "hooked", "headless"} => start = "new"
    /\ host = "joining start" => start = "cancelled"
    /\ host \in {"stopping", "down"} <=> stop # "none"
    /\ start = "new" \/ Starting => loop = "none" /\ stop = "none"
    /\ loop # "none" => start = "returned"
    /\ stop # "none" => ~LoopRuns
    /\ client = "closed" => host = "down" /\ stop = "returned"

\* The manager awaits the call that belongs to where it is.
Waiting ==
    /\ start = "initialize" => call = {[method |-> "initialize"]}
    /\ start = "list" => call = {[method |-> "events/list"]}
    /\ start = "subscribe" \/ loop = "refresh" =>
           call # {} /\ \A c \in call : c.method = "events/subscribe"
    /\ stop = "unsubscribe" => call = {[method |-> "events/unsubscribe"]}
    /\ ~Starting /\ loop # "refresh" /\ stop # "unsubscribe" => call = {}

\* Of the requests at the server at most one is awaited, and it is that call.
AwaitedIsCall ==
    /\ \A q, p \in requests : q.awaited /\ p.awaited => q = p
    /\ \A q \in requests : q.awaited => \E c \in call : c.method = q.method

\* Nothing of a subscription exists before its secret, and the receiver has the
\* manager's secret as soon as there is one.
SecretFirst ==
    /\ start \in {"subscribe", "returned"} \/ owed => secret # {}
    /\ \A q \in requests : q.method = "events/subscribe" => secret # {}
    /\ secret # {} => SecretFor(sub) = secret

\* A stop() that has not raised has sent its unsubscribe, if there was anything
\* to undo.
StopOwesNothing == stop \in {"unsubscribe", "returned"} => ~owed

\* The inductive invariant.
IInv == /\ TypeOK
        /\ Phases
        /\ Waiting
        /\ AwaitedIsCall
        /\ SecretFirst
        /\ StopOwesNothing
-----------------------------------------------------------------------------
(* The network: what a step of the manager does to the requests *)

\* Requests whose caller is gone stay, awaited by nobody.
LEMMA OrphanedRequests ==
    ASSUME requests \subseteq RequestType
    PROVE  \A q \in Orphaned : /\ q \in RequestType /\ ~q.awaited
                               /\ \E p \in requests : q.method = p.method
BY DEF Orphaned, RequestType

\* A request that is given up stays where it is, and nobody awaits it.
LEMMA GivingUp ==
    ASSUME requests \subseteq RequestType, GivesUp
    PROVE  /\ requests' \subseteq RequestType
           /\ AwaitedIsCall'
           /\ \A q \in requests' : \E p \in requests : q.method = p.method
           /\ owed' = owed
BY OrphanedRequests DEF GivesUp, AwaitedIsCall

\* A request that is sent is the only one awaited.
LEMMA Sending ==
    ASSUME requests \subseteq RequestType,
           NEW method \in {"events/subscribe", "events/unsubscribe"}, Send(method),
           \E c \in call' : c.method = method
    PROVE  /\ requests' \subseteq RequestType
           /\ AwaitedIsCall'
           /\ owed' = (method = "events/subscribe")
<1> DEFINE new == [method |-> method, stage |-> "sent", awaited |-> TRUE]
<1>1. /\ new \in RequestType /\ new.method = method
      /\ requests' = Orphaned \cup {new}
      /\ owed' = (method = "events/subscribe")
  BY DEF Send, RequestType
<1> HIDE DEF new
<1> QED
  BY <1>1, OrphanedRequests DEF AwaitedIsCall

\* While the manager awaits neither subscribe nor unsubscribe, nobody does.
LEMMA Unawaited ==
    ASSUME AwaitedIsCall, requests \subseteq RequestType,
           \A c \in call : c.method \notin {"events/subscribe", "events/unsubscribe"}
    PROVE  \A q \in requests : ~q.awaited
BY DEF AwaitedIsCall, RequestType
-----------------------------------------------------------------------------
(* Each action keeps the inductive invariant *)

\* Before the hook nothing exists.
LEMMA InitIInv == Init => IInv
<1> SUFFICES ASSUME Init PROVE IInv
  OBVIOUS
<1> USE DEF Init, ManagerInit
<1>1. TypeOK
  <2>1. ManagerTypeOK
    BY DEF ManagerTypeOK, TrackedType, StartPc, LoopPc, StopPc
  <2>2. faults \in 0..MaxFaults /\ host \in HostPc
    BY FaultsAssumption DEF HostPc
  <2> QED
    BY <2>1, <2>2 DEF TypeOK
<1>2. Phases /\ Waiting /\ AwaitedIsCall /\ SecretFirst /\ StopOwesNothing
  BY DEF Phases, Waiting, AwaitedIsCall, SecretFirst, StopOwesNothing, Starting, LoopRuns
<1> QED
  BY <1>1, <1>2 DEF IInv

\* What the manager holds and the requests stay as they are.
LEMMA HostAloneKeeps ==
    ASSUME IInv,
           Hook \/ HookWithoutApp \/ OnStartup \/ SocketOpens
                \/ ShutdownClosesClient \/ ShutdownAborts
    PROVE  IInv'
<1> USE DEF IInv
<1>1. HostAlone
  BY DEF Hook, HookWithoutApp, OnStartup, SocketOpens, ShutdownClosesClient, ShutdownAborts
<1>2. TypeOK'
  <2>1. host' \in HostPc /\ listening' \in BOOLEAN /\ client' \in {"none", "open", "closed"}
    BY DEF TypeOK, Hook, HookWithoutApp, OnStartup, SocketOpens, ShutdownClosesClient,
           ShutdownAborts, Goes, HostPc
  <2>2. ManagerTypeOK'
    BY <1>1 DEF TypeOK, ManagerTypeOK, TrackedType, HostAlone, managerVars
  <2> QED
    BY <1>1, <2>1, <2>2 DEF TypeOK, HostAlone, serverVars
<1>3. Phases'
  BY <1>1 DEF Phases, Starting, LoopRuns, TypeOK, HostAlone, managerVars, Goes, Hook,
              HookWithoutApp, OnStartup, SocketOpens, ShutdownClosesClient, ShutdownAborts
<1>4. Waiting' /\ AwaitedIsCall' /\ SecretFirst' /\ StopOwesNothing'
  BY <1>1 DEF Waiting, AwaitedIsCall, SecretFirst, StopOwesNothing, Starting, SecretFor,
              HostAlone, managerVars, serverVars
<1> QED
  BY <1>2, <1>3, <1>4

\* What the host and the manager hold stays as it is, and every request at the
\* server is one of those before, at another stage at most.
LEMMA ServerAloneKeeps ==
    ASSUME IInv,
           \/ \E q \in requests : \/ Challenge(q) \/ RequestIsLost(q)
                                  \/ ~q.awaited /\ (ServerActs(q) \/ GrantsBrokenly(q))
           \/ GrantLapses \/ ServerRestarts
    PROVE  IInv'
<1> USE DEF IInv
<1> USE DEF TypeOK
<1> DEFINE Stages == {"sent", "verified", "refused"}
           Moved(q, stage) == [q EXCEPT !.stage = stage]
           Rest == /\ UNCHANGED <<managerVars, hostVars, owed>>
                   /\ granted' \in BOOLEAN /\ verified' \in BOOLEAN /\ broken' \in BOOLEAN
                   /\ faults' \in 0..MaxFaults
           Kept == /\ requests' \subseteq RequestType
                   /\ AwaitedIsCall'
                   /\ \A q \in requests' : \E p \in requests : q.method = p.method
<1>1. \A q \in requests, stage \in Stages :
          /\ Moved(q, stage) \in RequestType
          /\ Moved(q, stage).method = q.method /\ Moved(q, stage).awaited = q.awaited
  BY DEF RequestType
<1>2. ASSUME NEW q \in requests, Challenge(q) PROVE Rest /\ Kept
  <2>1. PICK stage \in Stages : requests' = (requests \ {q}) \cup {Moved(q, stage)}
    BY <1>2 DEF Challenge
  <2>2. Rest
    BY <1>2 DEF Challenge
  <2> DEFINE moved == Moved(q, stage)
  <2>3. /\ requests' = (requests \ {q}) \cup {moved}
        /\ moved \in RequestType /\ moved.method = q.method /\ moved.awaited = q.awaited
    BY <1>1, <2>1
  <2> HIDE DEF moved
  <2>4. Kept
    BY <2>2, <2>3 DEF AwaitedIsCall, managerVars
  <2> QED
    BY <2>2, <2>4
<1>3. ASSUME NEW q \in requests, requests' = requests \ {q}, UNCHANGED managerVars
      PROVE  Kept
  BY <1>3 DEF AwaitedIsCall, managerVars
<1>4. ASSUME NEW q \in requests, RequestIsLost(q) PROVE Rest /\ Kept
  BY <1>3, <1>4 DEF RequestIsLost
<1>5. ASSUME NEW q \in requests, ~q.awaited,
             GrantsAsExpected(q) \/ GrantsBrokenly(q) \/ Refuses(q) \/ Unsubscribes(q)
      PROVE  Rest /\ Kept
  <2>1. /\ UNCHANGED <<managerVars, hostVars, verified, faults, owed>>
        /\ requests' = requests \ {q}
    BY <1>5 DEF GrantsAsExpected, GrantsBrokenly, Refuses, Unsubscribes, Answered
  <2>2. granted' \in BOOLEAN /\ broken' \in BOOLEAN
    BY <1>5 DEF GrantsAsExpected, GrantsBrokenly, Refuses, Unsubscribes
  <2> QED
    BY <1>3, <2>1, <2>2
<1>6. ASSUME GrantLapses PROVE Rest /\ Kept
  <2>1. faults' \in 0..MaxFaults
    BY <1>6, FaultsAssumption DEF GrantLapses, FaultHappens
  <2>2. /\ granted' = FALSE
        /\ UNCHANGED <<managerVars, hostVars, requests, verified, broken, owed>>
    BY <1>6 DEF GrantLapses
  <2>3. Kept
    BY <2>2 DEF AwaitedIsCall, managerVars
  <2>4. Rest
    BY <2>1, <2>2
  <2> QED
    BY <2>3, <2>4
<1>7. ASSUME ServerRestarts PROVE Rest /\ Kept
  <2>1. faults' \in 0..MaxFaults
    BY <1>7, FaultsAssumption DEF ServerRestarts, FaultHappens
  <2>2. /\ granted' = FALSE /\ verified' = FALSE
        /\ requests' = {Moved(q, "sent") : q \in requests}
        /\ UNCHANGED <<managerVars, hostVars, broken, owed>>
    BY <1>7, Zenon DEF ServerRestarts
  <2> HIDE DEF Moved
  <2>3. Kept
    BY <1>1, <2>2 DEF AwaitedIsCall, managerVars
  <2>4. Rest
    BY <2>1, <2>2
  <2> QED
    BY <2>3, <2>4
<1> HIDE DEF Rest, Kept, TypeOK
<1>8. Rest /\ Kept
  BY <1>2, <1>4, <1>5, <1>6, <1>7 DEF ServerActs
<1> USE DEF Rest, Kept, TypeOK
<1>9. TypeOK'
  BY <1>8 DEF managerVars, hostVars, ManagerTypeOK, TrackedType
<1>10. Phases' /\ Waiting' /\ StopOwesNothing'
  BY <1>8 DEF managerVars, hostVars, Phases, Waiting, StopOwesNothing, Starting, LoopRuns
<1>11. SecretFirst'
  BY <1>8 DEF managerVars, SecretFirst, SecretFor
<1> QED
  BY <1>8, <1>9, <1>10, <1>11

\* The manager goes on without a word to the server.
LEMMA SilentStepsKeep ==
    ASSUME IInv, StartRuns \/ LoopRunsOn \/ AnswersInitialize \/ ListsNothing
    PROVE  IInv'
<1> USE DEF IInv
<1>1. /\ \/ host = "up" /\ StartBegins
         \/ LoopSleeps \/ LoopCannotParse \/ InitializeReturns \/ ListOffersNothing
      /\ SendsNothing /\ Quiet
  BY DEF StartRuns, LoopRunsOn, AnswersInitialize, ListsNothing
<1>2. TypeOK'
  <2>1. ManagerTypeOK'
    BY <1>1, ManagerKeepsType DEF TypeOK, ManagerStep
  <2> QED
    BY <1>1, <2>1 DEF TypeOK, SendsNothing, Quiet, hostVars
<1>3. Phases'
  BY <1>1 DEF Phases, Starting, LoopRuns, Quiet, hostVars, StartBegins, LoopSleeps,
              LoopCannotParse, LoopEnds, InitializeReturns, ListOffersNothing, StartEnds
<1>4. Waiting'
  BY <1>1 DEF Phases, Waiting, Starting, LoopRuns, StartBegins, LoopSleeps, LoopCannotParse,
              LoopEnds, InitializeReturns, ListOffersNothing, StartEnds, Issue
<1>5. AwaitedIsCall'
  <2>1. \A c \in call : c.method \notin {"events/subscribe", "events/unsubscribe"}
    <3>1. CASE start = "initialize" \/ start = "list"
      BY <3>1 DEF Waiting
    <3>2. CASE start = "new" \/ loop = "top"
      BY <3>2 DEF Phases, Waiting, Starting, LoopRuns
    <3> QED
      BY <1>1, <3>1, <3>2 DEF StartBegins, LoopSleeps, LoopCannotParse, InitializeReturns,
                              ListOffersNothing
  <2>2. \A q \in requests : ~q.awaited
    BY <2>1, Unawaited DEF TypeOK
  <2> QED
    BY <1>1, <2>2 DEF AwaitedIsCall, SendsNothing
<1>6. SecretFirst'
  BY <1>1 DEF SecretFirst, SecretFor, SendsNothing, StartBegins, LoopSleeps, LoopCannotParse,
              LoopEnds, InitializeReturns, ListOffersNothing, StartEnds
<1>7. StopOwesNothing'
  BY <1>1 DEF StopOwesNothing, SendsNothing, StartBegins, LoopSleeps, LoopCannotParse,
              LoopEnds, InitializeReturns, ListOffersNothing, StartEnds
<1> QED
  BY <1>2, <1>3, <1>4, <1>5, <1>6, <1>7

\* The manager sends a subscribe.
LEMMA SubscribingKeeps ==
    ASSUME IInv, AnswersList \/ TimerFires
    PROVE  IInv'
<1> USE DEF IInv
<1>1. /\ RefreshBegins \/ \E s \in Secret : ListReturns(s)
      /\ Send("events/subscribe") /\ Quiet
  BY DEF AnswersList, TimerFires
<1>2. call' # {} /\ \A c \in call' : c.method = "events/subscribe"
  <2>1. \E cursor : Subscribe(cursor)
    BY <1>1 DEF RefreshBegins, ListReturns
  <2> QED
    BY <2>1 DEF Subscribe
<1>3. /\ requests' \subseteq RequestType
      /\ AwaitedIsCall'
      /\ owed' = TRUE
  BY <1>1, <1>2, Sending DEF TypeOK
<1>4. TypeOK'
  <2>1. ManagerTypeOK'
    BY <1>1, ManagerKeepsType DEF TypeOK, ManagerStep
  <2> QED
    BY <1>1, <1>3, <2>1 DEF TypeOK, Quiet, hostVars
<1>5. Phases' /\ Waiting'
  BY <1>1, <1>2 DEF Phases, Waiting, Starting, LoopRuns, Quiet, hostVars, RefreshBegins,
                    ListReturns
<1>6. SecretFirst'
  <2>1. CASE RefreshBegins
    BY <1>1, <2>1 DEF SecretFirst, SecretFor, RefreshBegins, Phases
  <2>2. ASSUME NEW s \in Secret, ListReturns(s) PROVE SecretFirst'
    BY <2>2, SetPendingSecret DEF SecretFirst, SecretFor, ListReturns
  <2> QED
    BY <1>1, <2>1, <2>2
<1>7. StopOwesNothing'
  BY <1>1 DEF StopOwesNothing, Phases, Starting, RefreshBegins, ListReturns, LoopRuns
<1> QED
  BY <1>3, <1>4, <1>5, <1>6, <1>7

\* The manager gives up what it waits for.
LEMMA GivingUpKeeps ==
    ASSUME IInv, ShutdownCancelsStart \/ CallFails \/ CallBreaks
    PROVE  IInv'
<1> USE DEF IInv
<1>1. /\ \/ StartCancelled /\ Goes("up", "joining start")
         \/ /\ StartFails \/ RefreshFails \/ UnsubscribeEnds
               \/ StartBreaks \/ RefreshBreaks \/ UnsubscribeBreaks
            /\ UNCHANGED host
      /\ GivesUp
      /\ UNCHANGED client
  BY DEF ShutdownCancelsStart, CallFails, CallBreaks, ShutdownSteps, hostVars
<1>2. /\ requests' \subseteq RequestType
      /\ AwaitedIsCall'
      /\ \A q \in requests' : \E p \in requests : q.method = p.method
      /\ owed' = owed
  BY <1>1, GivingUp DEF TypeOK
<1>3. TypeOK'
  <2>1. ManagerTypeOK'
    BY <1>1, ManagerKeepsType DEF TypeOK, ManagerStep
  <2>2. host' \in HostPc /\ client' \in {"none", "open", "closed"}
    BY <1>1 DEF TypeOK, Goes, HostPc
  <2>3. /\ listening' \in BOOLEAN
        /\ granted' \in BOOLEAN /\ verified' \in BOOLEAN /\ broken' \in BOOLEAN
    BY DEF TypeOK, ShutdownCancelsStart, CallFails, CallBreaks, ShutdownSteps, hostVars
  <2>4. faults' \in 0..MaxFaults
    <3>1. FaultHappens \/ UNCHANGED faults
      BY DEF ShutdownCancelsStart, CallFails, CallBreaks, ShutdownSteps
    <3> QED
      BY <3>1, FaultsAssumption DEF TypeOK, FaultHappens
  <2> QED
    BY <1>2, <2>1, <2>2, <2>3, <2>4 DEF TypeOK
<1> USE DEF StartCancelled, StartFails, StartBreaks, RefreshFails, RefreshBreaks,
            UnsubscribeEnds, UnsubscribeBreaks, StartEnds, LoopEnds, StopEnds
<1>4. Phases'
  BY <1>1 DEF Phases, Starting, LoopRuns, Goes
<1>5. Waiting'
  BY <1>1 DEF Phases, Waiting, Starting, LoopRuns
<1>6. SecretFirst'
  BY <1>1, <1>2 DEF SecretFirst, SecretFor
<1>7. StopOwesNothing'
  BY <1>1, <1>2 DEF StopOwesNothing
<1> QED
  BY <1>2, <1>3, <1>4, <1>5, <1>6, <1>7

\* on_shutdown reaches stop().
LEMMA StoppingKeeps ==
    ASSUME IInv, ShutdownJoinedStart \/ ShutdownStopsManager
    PROVE  IInv'
<1> USE DEF IInv
<1>1. /\ ManagerStops
      /\ start # "new" /\ ~Starting /\ client # "closed"
      /\ host' = "stopping"
      /\ listening' = FALSE
      /\ UNCHANGED <<client, granted, verified, faults, broken>>
  BY DEF ShutdownJoinedStart, ShutdownStopsManager, Goes, ShutdownSteps, Phases, Starting
<1>2. /\ StopWithoutLoop \/ StopCancelsLoop \/ StopMeetsDeadLoop
      /\ IF stop' = "unsubscribe" THEN Send("events/unsubscribe") ELSE GivesUp
  BY <1>1 DEF ManagerStops
<1>3. /\ UNCHANGED <<sub, secret, start>>
      /\ stop' = "unsubscribe" => call' = {[method |-> "events/unsubscribe"]} /\ secret # {}
      /\ stop' # "unsubscribe" => call' = {}
      /\ stop' = "returned" => secret = {}
      /\ stop' \in {"unsubscribe", "returned", "raised"}
      /\ loop' # "none" => loop # "none"
      /\ loop' \notin {"top", "sleep", "refresh"}
  BY <1>2 DEF StopWithoutLoop, StopCancelsLoop, StopMeetsDeadLoop, StopEnds, Unsubscribe, Issue,
              LoopRuns
<1>4. /\ requests' \subseteq RequestType
      /\ AwaitedIsCall'
      /\ owed' \in BOOLEAN
      /\ stop' # "raised" => ~owed'
      /\ owed' => secret # {}
      /\ \A q \in requests' : q.method = "events/subscribe" => secret # {}
  <2>1. CASE stop' = "unsubscribe"
    <3>1. Send("events/unsubscribe")
      BY <1>2, <2>1
    <3>2. \E c \in call' : c.method = "events/unsubscribe"
      <4>1. [method |-> "events/unsubscribe"] \in call'
        BY <1>3, <2>1
      <4> QED
        BY <4>1
    <3> QED
      BY <1>3, <2>1, <3>1, <3>2, Sending DEF TypeOK
  <2>2. CASE stop' # "unsubscribe"
    BY <1>2, <1>3, <2>2, GivingUp DEF TypeOK, SecretFirst
  <2> QED
    BY <2>1, <2>2
<1>5. TypeOK'
  <2>1. ManagerTypeOK'
    BY <1>2, ManagerKeepsType DEF TypeOK, ManagerStep
  <2> QED
    BY <1>1, <1>4, <2>1 DEF TypeOK, HostPc
<1>6. Phases'
  BY <1>1, <1>3 DEF Phases, Starting, LoopRuns, TypeOK
<1>7. Waiting'
  BY <1>1, <1>3 DEF Waiting, Starting
<1>8. SecretFirst' /\ StopOwesNothing'
  BY <1>3, <1>4 DEF SecretFirst, SecretFor, StopOwesNothing
<1> QED
  BY <1>4, <1>5, <1>6, <1>7, <1>8

\* The answer the manager waits for reaches it.
LEMMA AnswersKeep ==
    ASSUME IInv, NEW q \in requests, q.awaited,
           GrantsAsExpected(q) \/ GrantsBrokenly(q) \/ Refuses(q) \/ Unsubscribes(q)
    PROVE  IInv'
<1> USE DEF IInv
<1>1. /\ requests' = requests \ {q}
      /\ UNCHANGED <<hostVars, verified, faults, owed>>
      /\ \/ \E r \in Result : StartSubscribed(r) \/ RefreshReturns(r)
         \/ StartFails \/ RefreshFails \/ UnsubscribeEnds \/ StartBreaks \/ RefreshBreaks
  BY DEF Delivers, GrantsAsExpected, GrantsBrokenly, Refuses, Unsubscribes, Answered
<1>2. granted' \in BOOLEAN /\ broken' \in BOOLEAN
  BY DEF TypeOK, GrantsAsExpected, GrantsBrokenly, Refuses, Unsubscribes
<1>3. AwaitedIsCall'
  BY <1>1 DEF AwaitedIsCall
<1>4. TypeOK'
  <2>1. ManagerTypeOK'
    BY <1>1, ManagerKeepsType DEF TypeOK, ManagerStep
  <2> QED
    BY <1>1, <1>2, <2>1 DEF TypeOK, hostVars
<1>5. CASE \E r \in Result : StartSubscribed(r) \/ RefreshReturns(r)
  <2>1. PICK r \in Result : StartSubscribed(r) \/ RefreshReturns(r)
    BY <1>5
  <2>2. Stores(r) /\ UNCHANGED <<secret, stop>>
    BY <2>1 DEF StartSubscribed, RefreshReturns
  <2>3. SecretFor(sub)' = SecretFor(sub) /\ call' = {}
    BY <2>2, StoresKeepsSecret DEF TypeOK, ManagerTypeOK, SecretFor
  <2>4. \/ start = "subscribe" /\ start' = "returned" /\ loop' = "top"
        \/ loop = "refresh" /\ loop' = "top" /\ UNCHANGED start
    BY <2>1 DEF StartSubscribed, RefreshReturns
  <2>5. Phases' /\ Waiting'
    BY <1>1, <2>2, <2>3, <2>4 DEF Phases, Waiting, Starting, LoopRuns, hostVars
  <2>6. SecretFirst' /\ StopOwesNothing'
    BY <1>1, <2>2, <2>3, <2>4 DEF SecretFirst, StopOwesNothing, Phases
  <2> QED
    BY <1>3, <1>4, <2>5, <2>6
<1>6. CASE StartFails \/ RefreshFails \/ UnsubscribeEnds \/ StartBreaks \/ RefreshBreaks
  <2> USE DEF StartFails, StartBreaks, RefreshFails, RefreshBreaks, UnsubscribeEnds,
              StartEnds, LoopEnds, StopEnds
  <2>1. Phases'
    BY <1>1, <1>6 DEF Phases, Starting, LoopRuns, hostVars
  <2>2. Waiting'
    BY <1>6 DEF Phases, Waiting, Starting, LoopRuns
  <2>3. SecretFirst' /\ StopOwesNothing'
    BY <1>1, <1>6 DEF SecretFirst, SecretFor, StopOwesNothing
  <2> QED
    BY <1>3, <1>4, <2>1, <2>2, <2>3
<1> QED
  BY <1>1, <1>5, <1>6
-----------------------------------------------------------------------------
(* The invariant, and what follows from it *)

\* One case per group of actions.
LEMMA NextIInv == IInv /\ [Next]_vars => IInv'
<1> SUFFICES ASSUME IInv, [Next]_vars PROVE IInv'
  OBVIOUS
<1>1. CASE UNCHANGED vars
  <2> USE DEF IInv, vars, managerVars, hostVars, serverVars
  <2>1. TypeOK'
    BY <1>1 DEF TypeOK, ManagerTypeOK, TrackedType
  <2>2. Phases' /\ Waiting' /\ StopOwesNothing'
    BY <1>1 DEF Phases, Waiting, StopOwesNothing, Starting, LoopRuns
  <2>3. AwaitedIsCall' /\ SecretFirst'
    BY <1>1 DEF AwaitedIsCall, SecretFirst, SecretFor
  <2> QED
    BY <2>1, <2>2, <2>3
<1>2. ASSUME NEW q \in requests, ServerActs(q) \/ GrantsBrokenly(q) \/ RequestIsLost(q)
      PROVE  IInv'
  <2>1. CASE ~q.awaited \/ Challenge(q) \/ RequestIsLost(q)
    BY <1>2, <2>1, ServerAloneKeeps
  <2>2. CASE q.awaited /\ ~Challenge(q) /\ ~RequestIsLost(q)
    BY <1>2, <2>2, AnswersKeep DEF ServerActs
  <2> QED
    BY <2>1, <2>2
<1> QED
  BY <1>1, <1>2, HostAloneKeeps, ServerAloneKeeps, SilentStepsKeep, SubscribingKeeps,
     GivingUpKeeps, StoppingKeeps
  DEF Next, Shutdown, Finished

\* The inductive invariant holds.
LEMMA InductiveInvariant == Spec => []IInv
BY InitIInv, NextIInv, PTL DEF Spec

\* Every variable has its type, for any number of faults.
THEOREM TypeCorrect == Spec => []TypeOK
BY InductiveInvariant, PTL DEF IInv

\* The receiver has the secret before any subscribe request is at the server,
\* over refreshes, retries and orphaned requests (subscription.py:164-167).
THEOREM SecretComesFirst == Spec => []SecretBeforeChallenge
<1>1. IInv => SecretBeforeChallenge
  BY DEF IInv, SecretFirst, SecretBeforeChallenge
<1> QED
  BY <1>1, InductiveInvariant, PTL

\* start(), the loop and stop() take turns with their calls, so no refresh
\* overtakes the unsubscribe of stop() (subscription.py:191-199).
THEOREM CallsTakeTurns == Spec => []OneCallAtATime
<1>1. IInv => OneCallAtATime
  BY DEF IInv, Phases, AwaitedIsCall, OneCallAtATime, LoopRuns
<1> QED
  BY <1>1, InductiveInvariant, PTL

\* Nothing can use a client that on_shutdown has closed (activation.py:134-146).
THEOREM NothingUsesTheClosedClient == Spec => []ClosedMeansQuiet
<1>1. IInv => ClosedMeansQuiet
  BY DEF IInv, Phases, Waiting, ClosedMeansQuiet, LoopRuns, Starting
<1> QED
  BY <1>1, InductiveInvariant, PTL

\* Every subscribe is followed by an unsubscribe when the client is closed,
\* whenever start() was cancelled (subscription.py:201, activation.py:135-143).
THEOREM ShutdownUndoesEverySubscribe == Spec => []ClosedOwesNothing
<1>1. IInv => ClosedOwesNothing
  BY DEF IInv, Phases, StopOwesNothing, ClosedOwesNothing
<1> QED
  BY <1>1, InductiveInvariant, PTL
=============================================================================
