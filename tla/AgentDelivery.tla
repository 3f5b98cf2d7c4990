--------------------------- MODULE AgentDelivery ----------------------------
(***************************************************************************)
(* The agent against an event stream: the webhook receiver and the         *)
(* subscription manager over their shared state, composed with the MCP     *)
(* server that keeps the subscription.  This is where the receiver's       *)
(* commits of the cursor, the manager's overwrites of it, duplicates,      *)
(* crashes and lost subscriptions meet.                                    *)
(*                                                                         *)
(* The server is external, modelled from how the code uses it and from the *)
(* contract of docs/design-sketch-proposal.md: it retries each event until *)
(* a 2xx, hands out the watermark (a position at or before which all is    *)
(* acknowledged or abandoned) in deliveries and in subscribe responses,    *)
(* keeps all of this in memory, and starts a lost subscription again from  *)
(* the cursor it is given.  Cursors are positions, here as there.          *)
(* Its answers are well formed: a subscription id, a grant that is a       *)
(* timestamp, a watermark that is not null.  What an answer that is not    *)
(* does to the manager (it breaks: KeyError at subscription.py:178 and     *)
(* :299, ValueError at :268) is in Activation, null cursors of deliveries  *)
(* and responses are in WebhookReceiver; neither is repeated here.         *)
(*                                                                         *)
(* The challenge, orphaned calls and the host's life are in Activation;    *)
(* here a call that fails at the client was not carried out, or was        *)
(* carried out before it failed.  The runtime's workflows survive a crash. *)
(***************************************************************************)
EXTENDS SubscriptionManager

CONSTANTS Conn, MaxWakes, MaxRaises,   \* as in WebhookReceiver
          MaxEvents,    \* bound: length of the stream
          MaxFaults,    \* bound: failed calls, timeouts, lost subscriptions
          MaxWaivers,   \* bound: events abandoned, gaps
          MaxCrashes    \* bound: restarts of the agent's process

ASSUME DeliveryAssumption ==
    /\ {MaxEvents, MaxFaults, MaxWaivers, MaxCrashes} \subseteq Nat
    /\ Cursor = 0..MaxEvents
    /\ Secret = 0..MaxCrashes   \* every process draws a secret of its own

VARIABLES seen, schedule, conn, woken, raised,   \* as in WebhookReceiver
          emitted,    \* events the upstream has emitted
          live,       \* whether the server has the subscription
          key,        \* the secret it signs with
          from,       \* the position its delivery began at
          acked,      \* events since then answered by a 2xx
          waived,     \* events given up, not replayable, or before any subscription
          gap,        \* the cursor of a gap envelope not yet acknowledged: {} for none
          hears,      \* connections on which the server still waits for the answer
          reply,      \* the cursor of a subscribe response under way: {} for none
          subscribed, \* whether there ever was a subscription
          skipped,    \* events a later subscription passed over by beginning now
          faults, waivers, crashes

Event == 1..MaxEvents
ResponseCursor == Cursor
Post(kind, e, k, s) == [kind |-> kind, fresh |-> TRUE, event |-> e, cursor |-> k,
                        signatures |-> {[scheme |-> "v1", key |-> s, intact |-> TRUE]}]
Request == {Post(kind, e, k, s) : kind \in {"event", "gap"}, e \in Event,
                                  k \in Cursor, s \in Secret}

Receiver == INSTANCE WebhookReceiver

receiverVars == <<seen, schedule, conn, woken, raised>>
streamVars == <<emitted, waived, skipped>>
sessionVars == <<live, key, from, acked, gap, subscribed>>
boundVars == <<faults, waivers, crashes>>
vars == <<managerVars, receiverVars, streamVars, sessionVars, hears, reply, boundVars>>

Init == /\ ManagerInit
        /\ seen = <<>> /\ schedule = TRUE
        /\ conn = [c \in Conn |-> Receiver!Idle]
        /\ woken = [e \in Event |-> 0] /\ raised = [e \in Event |-> 0]
        /\ emitted = 0 /\ waived = {} /\ skipped = {}
        /\ live = FALSE /\ key = 0 /\ from = 0 /\ acked = {} /\ gap = {}
        /\ hears = {}
        /\ reply = {}
        /\ subscribed = FALSE
        /\ faults = 0 /\ waivers = 0 /\ crashes = 0
-----------------------------------------------------------------------------
(* The server *)

Handled(e) == woken[e] > 0 \/ e \in waived

\* Events the subscription still has to deliver.
Pending == {e \in 1..emitted : e > from /\ e \notin acked \cup waived}

\* The safe-to-persist position: everything up to it is acknowledged or given up.
Watermark == CHOOSE w \in from..emitted : /\ (from + 1)..w \cap Pending = {}
                                          /\ w = emitted \/ w + 1 \in Pending

\* Nobody has ever subscribed: a later subscribe will start from now.
Emit == /\ emitted < MaxEvents
        /\ emitted' = emitted + 1
        /\ waived' = IF subscribed THEN waived ELSE waived \cup {emitted + 1}
        /\ UNCHANGED <<skipped, managerVars, receiverVars, sessionVars, hears, reply>>
        /\ UNCHANGED boundVars

Fault == faults < MaxFaults /\ faults' = faults + 1 /\ UNCHANGED <<waivers, crashes>>
Waiver == waivers < MaxWaivers /\ waivers' = waivers + 1 /\ UNCHANGED <<faults, crashes>>

\* One attempt at a time for an event, each with the watermark of its moment.
Deliver(e) ==
    /\ live /\ e \in Pending
    /\ \A c \in hears : Receiver!RequestOf(c).kind = "event" => Receiver!RequestOf(c).event # e
    /\ \E c \in Conn : /\ Receiver!Post(c, Post("event", e, Watermark, key))
                       /\ hears' = hears \cup {c}
    /\ UNCHANGED <<sub, secret, start, loop, stop, call>>
    /\ UNCHANGED <<streamVars, sessionVars, reply, boundVars>>

DeliverGap ==
    /\ live
    /\ \A c \in hears : Receiver!RequestOf(c).kind # "gap"
    /\ \E k \in gap, c \in Conn :
           /\ Receiver!Post(c, Post("gap", 1, k, key))
           /\ hears' = hears \cup {c}
    /\ UNCHANGED <<secret, start, loop, stop, call>>
    /\ UNCHANGED <<streamVars, sessionVars, reply, boundVars>>

\* The answer of a delivery reaches the server, if it still waits for it.
AnswerArrives(c) ==
    LET r == Receiver!RequestOf(c)
        ok == c \in hears /\ conn[c].status = 200
    IN  /\ Receiver!Finish(c)
        /\ hears' = hears \ {c}
        /\ acked' = IF ok /\ r.kind = "event" THEN acked \cup {r.event} ELSE acked
        /\ gap' = IF ok /\ r.kind = "gap" THEN {} ELSE gap
        /\ UNCHANGED <<secret, start, loop, stop, call, streamVars>>
        /\ UNCHANGED <<live, key, from, subscribed, reply, boundVars>>

\* The server stops waiting and will retry while the handler still runs.
AttemptTimesOut(c) ==
    /\ Fault
    /\ c \in hears
    /\ hears' = hears \ {c}
    /\ UNCHANGED <<managerVars, receiverVars, streamVars, sessionVars, reply>>

Abandon(e) ==
    /\ Waiver
    /\ live /\ e \in Pending
    /\ waived' = waived \cup {e}
    /\ UNCHANGED <<managerVars, receiverVars, emitted, skipped, sessionVars>>
    /\ UNCHANGED <<hears, reply>>

\* The upstream can no longer replay what was emitted: the subscription jumps
\* to now and says so in a gap envelope.
GapHappens ==
    /\ Waiver
    /\ live /\ Pending # {}
    /\ waived' = waived \cup Pending
    /\ gap' = {emitted}
    /\ UNCHANGED <<managerVars, receiverVars, emitted, skipped, hears, reply>>
    /\ UNCHANGED <<live, key, from, acked, subscribed>>

\* A lapse at TTL or a restart of the server: its memory of the subscription is
\* gone, and it hears no more answers.
SessionLost ==
    /\ Fault
    /\ live
    /\ live' = FALSE
    /\ from' = 0 /\ acked' = {} /\ gap' = {}
    /\ hears' = {}
    /\ UNCHANGED <<managerVars, receiverVars, streamVars, key, subscribed, reply>>

\* events/subscribe: an upsert.  A live subscription goes on where it is; a new
\* one begins at the given cursor, or now if there is none, and its watermark
\* is where it begins.
ServerSubscribes ==
    /\ reply = {}
    /\ \E c \in call :
           /\ c.method = "events/subscribe"
           /\ from' = IF live THEN from
                      ELSE IF c.cursor = None THEN emitted ELSE c.cursor
           /\ reply' = {IF live THEN Watermark ELSE from'}
           /\ skipped' = IF live \/ c.cursor # None THEN skipped
                         ELSE skipped \cup {e \in 1..emitted : ~Handled(e)}
    /\ live' = TRUE
    /\ subscribed' = TRUE
    /\ \A s \in secret : key' = s
    /\ UNCHANGED <<managerVars, receiverVars, emitted, waived, acked, gap, hears>>
    /\ UNCHANGED boundVars
-----------------------------------------------------------------------------
(* The manager, its calls and the receiver *)

ManagerAlone ==
    /\ StartBegins \/ InitializeReturns \/ ListReturns(crashes) \/ LoopSleeps \/ RefreshBegins
    /\ UNCHANGED <<receiverVars, streamVars, sessionVars, hears, reply, boundVars>>

ReplyArrives ==
    /\ \E k \in reply, id \in SubId, g \in Grant :
           LET r == [id |-> id, refreshBefore |-> g, cursor |-> k]
           IN  StartSubscribed(r) \/ RefreshReturns(r)
    /\ reply' = {}
    /\ UNCHANGED <<receiverVars, streamVars, sessionVars, hears, boundVars>>

CallFails ==
    /\ Fault
    /\ StartFails \/ RefreshFails
    /\ reply' = {}
    /\ UNCHANGED <<receiverVars, streamVars, sessionVars, hears>>

\* A sink that fails counts as a fault.
ReceiverStep(c) ==
    /\ Receiver!Handler(c) \/ Receiver!RuntimeAccepts(c)
    /\ IF conn'[c].status = 503 THEN Fault ELSE UNCHANGED boundVars
    /\ UNCHANGED <<secret, start, loop, stop, call>>
    /\ UNCHANGED <<streamVars, sessionVars, hears, reply>>

\* The process dies and is started again: only the runtime remembers.
Crash ==
    /\ crashes < MaxCrashes
    /\ crashes' = crashes + 1
    /\ sub' = {} /\ secret' = {} /\ start' = "new" /\ loop' = "none" /\ stop' = "none"
    /\ call' = {}
    /\ seen' = <<>>
    /\ conn' = [c \in Conn |-> Receiver!Idle]
    /\ hears' = {}
    /\ reply' = {}
    /\ UNCHANGED <<schedule, woken, raised, streamVars, sessionVars, faults, waivers>>

\* start() failed: this process does not try again (activation.py:161-168).
GaveUp == start = "failed"

NothingLeft == GaveUp /\ UNCHANGED vars

Next ==
    \/ Emit \/ DeliverGap \/ GapHappens \/ SessionLost \/ ServerSubscribes
    \/ \E e \in Event : Deliver(e) \/ Abandon(e)
    \/ \E c \in Conn : ReceiverStep(c) \/ AnswerArrives(c) \/ AttemptTimesOut(c)
    \/ ManagerAlone \/ ReplyArrives \/ CallFails \/ Crash \/ NothingLeft

\* The event loop runs every handler, the loop and start(); the runtime and the
\* server answer; the server retries an event it cannot get rid of, although
\* connections are now and then all taken.
Fairness ==
    /\ \A c \in Conn : WF_vars(ReceiverStep(c)) /\ WF_vars(AnswerArrives(c))
    /\ WF_vars(ManagerAlone) /\ WF_vars(ReplyArrives) /\ WF_vars(ServerSubscribes)
    /\ \A e \in Event : SF_vars(Deliver(e))

Spec == Init /\ [][Next]_vars
FairSpec == Spec /\ Fairness
-----------------------------------------------------------------------------
TypeOK ==
    /\ ManagerTypeOK
    /\ Receiver!TypeOK
    /\ emitted \in 0..MaxEvents
    /\ waived \subseteq Event /\ skipped \subseteq Event
    /\ live \in BOOLEAN /\ subscribed \in BOOLEAN
    /\ key \in Secret
    /\ from \in Cursor
    /\ acked \subseteq Event
    /\ gap \subseteq Cursor
    /\ hears \subseteq Conn
    /\ reply \subseteq Cursor

\* The position a lost subscription would be resumed from is safe: everything up
\* to it was woken, waived or already skipped, whichever of the receiver (receiver.py:193, :245)
\* and the manager (subscription.py:298-302) wrote it, in whatever order; and so
\* is the position in a response that is under way.
CursorIsSafe ==
    /\ \A s \in sub : s.cursor # None =>
           \A e \in 1..s.cursor : Handled(e) \/ e \in skipped
    /\ \A k \in reply : \A e \in 1..k : Handled(e) \/ e \in skipped

\* The server takes an event for delivered only if it was woken: an answer that
\* says so is never given too early (receiver.py:223-247).
ServerForgetsNothing == \A e \in acked : woken[e] > 0

\* Where the next subscribe will resume from: a response under way comes first.
ResumesFrom == IF reply # {} THEN reply ELSE {s.cursor : s \in sub} \ {None}

\* What will be delivered (again): by the subscription, or by the one that the
\* next refresh will open.
Offered == IF live THEN Pending
           ELSE {e \in 1..emitted : \E k \in ResumesFrom : e > k}

\* The agent and the server together are an at-least-once inbox.
Inbox == INSTANCE EventInbox
            WITH Events <- MaxEvents,
                 done <- {e \in 1..emitted : Handled(e)},
                 offered <- Offered,
                 excused <- crashes > 0 \/ GaveUp
IsInbox == Inbox!Spec

\* As long as the agent's process lives and has not given up, every event is
\* handled in the end.
EveryEventHandled ==
    \A e \in Event : e <= emitted ~> Handled(e) \/ crashes > 0 \/ GaveUp

\* State in memory is "lost on a cold restart, recovered on the next refresh"
\* (README.md:102-103): no subscription begins past an event that was emitted
\* during an earlier one and is not handled.
NothingSkipped == skipped = {}
=============================================================================
