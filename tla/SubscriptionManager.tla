------------------------ MODULE SubscriptionManager -------------------------
(***************************************************************************)
(* The subscription manager (subscription.py): start(), the refresh loop   *)
(* it spawns, and stop().  Each is a coroutine on the agent's event loop   *)
(* and waits at most for one call of the MCP client, so its control state  *)
(* is what it waits for.  The steps between two awaits are one action.     *)
(*                                                                         *)
(* The module is open: how a call ends is its environment's choice.  A     *)
(* call returns; or it fails with one of _REFRESH_ERRORS (a JSON-RPC       *)
(* error, a framing fault, a transport fault or a timeout), which the      *)
(* manager expects; or it breaks, with an exception the manager does not   *)
(* list: KeyError for a result without "id", ValueError for an error code  *)
(* that is no number.                                                      *)
(*                                                                         *)
(* The loop stops at "top" between two iterations, so that its three ways  *)
(* to get there need not repeat how it computes its delay.  The code does  *)
(* not await there; the model allows other steps in between, and so more   *)
(* behaviours than the code.                                               *)
(***************************************************************************)
EXTENDS AgentEventState

CONSTANT Unparsable   \* values of refreshBefore that _parse_iso8601 rejects

ASSUME UnparsableAssumption == Unparsable \subseteq Grant

VARIABLES sub,      \* AgentEventState._sub
          secret,   \* self._secret: {} before start() sets it and self._name
          start,    \* where start() is
          loop,     \* where self._task is
          stop,     \* where stop() is
          call      \* the request awaited: {} for none

managerVars == <<sub, secret, start, loop, stop, call>>

StartPc == {"new", "initialize", "list", "subscribe", "returned", "failed",
            "crashed", "cancelled"}
LoopPc == {"none", "top", "sleep", "refresh", "dead", "cancelled"}
StopPc == {"none", "unsubscribe", "returned", "raised"}

Call == [method: {"initialize", "events/list", "events/unsubscribe"}]
        \cup [method: {"events/subscribe"}, cursor: Cursor \cup {None}]

Result == [id: SubId, refreshBefore: Grant \cup {None}, cursor: Cursor \cup {None}]

Starting == start \in {"initialize", "list", "subscribe"}
LoopRuns == loop \in {"top", "sleep", "refresh"}

Issue(method) == call' = {[method |-> method]}
Subscribe(cursor) == call' = {[method |-> "events/subscribe", cursor |-> cursor]}

\* One coroutine goes on to a place where it awaits no call, and the others,
\* and what the manager holds, stay as they are.
StartEnds(pc) == start' = pc /\ call' = {} /\ UNCHANGED <<sub, secret, loop, stop>>
LoopEnds(pc) == loop' = pc /\ call' = {} /\ UNCHANGED <<sub, secret, start, stop>>
StopEnds(pc) == stop' = pc /\ call' = {} /\ UNCHANGED <<sub, secret, start, loop>>

\* The response of events/subscribe is stored.
Stores(r) == sub' = SetActive(sub, r.id, r.refreshBefore, r.cursor) /\ call' = {}

ManagerInit == /\ sub = {} /\ secret = {} /\ call = {}
               /\ start = "new" /\ loop = "none" /\ stop = "none"

ManagerTypeOK ==
    /\ TrackedType(sub)
    /\ secret = {} \/ \E s \in Secret : secret = {s}
    /\ start \in StartPc /\ loop \in LoopPc /\ stop \in StopPc
    /\ call = {} \/ \E c \in Call : call = {c}
-----------------------------------------------------------------------------
(* start() *)

StartBegins == /\ start = "new" /\ start' = "initialize"
               /\ Issue("initialize")
               /\ UNCHANGED <<sub, secret, loop, stop>>

InitializeReturns == /\ start = "initialize" /\ start' = "list"
                     /\ Issue("events/list")
                     /\ UNCHANGED <<sub, secret, loop, stop>>

\* mutant: the secret is published only with the response
ListReturns_PublishesLate(s) ==
    /\ start = "list" /\ start' = "subscribe"
    /\ secret' = {s} /\ Subscribe(None) /\ UNCHANGED <<sub, loop, stop>>

\* decide() finds an event; the secret is published before events/subscribe
\* goes out, which asks to start from now.
ListReturns(s) ==
    /\ start = "list" /\ start' = "subscribe"
    /\ secret' = {s}
    /\ sub' = SetPending(s)
    /\ Subscribe(None)
    /\ UNCHANGED <<loop, stop>>

\* decide() raises NoWebhookEventError, which _start logs.
ListOffersNothing == start = "list" /\ StartEnds("failed")

StartSubscribed(r) ==
    /\ start = "subscribe" /\ start' = "returned"
    /\ Stores(r)
    /\ loop' = "top"
    /\ UNCHANGED <<secret, stop>>

\* A call of start() fails with an expected error: logged, and given up.
StartFails == Starting /\ StartEnds("failed")

StartBreaks == Starting /\ StartEnds("crashed")

\* on_shutdown cancels the start task.
StartCancelled == (start = "new" \/ Starting) /\ StartEnds("cancelled")
-----------------------------------------------------------------------------
(* _refresh_loop and _refresh_once *)

CannotParse == \E s \in sub : s.refreshBefore \in Unparsable

LoopSleeps ==
    loop = "top" /\ ~CannotParse /\ loop' = "sleep"
    /\ UNCHANGED <<sub, secret, start, stop, call>>

\* The delay is computed outside the try: an unparsable grant ends the task.
LoopCannotParse == loop = "top" /\ CannotParse /\ LoopEnds("dead")

\* mutant: every subscribe asks to start from now
RefreshBegins_NullCursor ==
    /\ loop = "sleep" /\ loop' = "refresh"
    /\ Subscribe(None) /\ UNCHANGED <<sub, secret, start, stop>>

\* The sleep is over: re-subscribe with the cursor held now.
RefreshBegins ==
    /\ loop = "sleep" /\ loop' = "refresh"
    /\ Subscribe(IF Tracked(sub) THEN Current(sub).cursor ELSE None)
    /\ UNCHANGED <<sub, secret, start, stop>>

RefreshReturns(r) ==
    /\ loop = "refresh" /\ loop' = "top"
    /\ Stores(r)
    /\ UNCHANGED <<secret, start, stop>>

\* An expected error: logged, and retried after the next sleep.
RefreshFails_EndsLoop == loop = "refresh" /\ LoopEnds("dead")   \* mutant
RefreshFails == loop = "refresh" /\ LoopEnds("top")

RefreshBreaks == loop = "refresh" /\ LoopEnds("dead")
-----------------------------------------------------------------------------
(* stop() *)

\* self._name is set: unsubscribe; otherwise there is nothing to undo.
Unsubscribe_IfActive ==   \* mutant: only what is known to be granted is undone
    IF \E s \in sub : s.id # None
    THEN stop' = "unsubscribe" /\ Issue("events/unsubscribe")
    ELSE stop' = "returned" /\ call' = {}
Unsubscribe ==
    IF secret # {}
    THEN stop' = "unsubscribe" /\ Issue("events/unsubscribe")
    ELSE stop' = "returned" /\ call' = {}

\* No refresh task was ever spawned.
StopWithoutLoop ==
    stop = "none" /\ loop = "none" /\ Unsubscribe /\ UNCHANGED <<sub, secret, start, loop>>

StopCancelsLoop_Not ==   \* mutant: the task is forgotten instead of cancelled
    stop = "none" /\ LoopRuns /\ Unsubscribe /\ UNCHANGED <<sub, secret, start, loop>>

\* The task is cancelled, wherever it waits, and joined.  A cancelled task
\* resumes no more: an answer that is already there is not looked at.
StopCancelsLoop ==
    /\ stop = "none"
    /\ LoopRuns /\ loop' = "cancelled"
    /\ Unsubscribe
    /\ UNCHANGED <<sub, secret, start>>

\* Joining a task that ended by an exception raises the exception again.
StopMeetsDeadLoop == stop = "none" /\ loop = "dead" /\ StopEnds("raised")

\* The server answered, or an expected error was logged.
UnsubscribeEnds == stop = "unsubscribe" /\ StopEnds("returned")

UnsubscribeBreaks == stop = "unsubscribe" /\ StopEnds("raised")
=============================================================================
