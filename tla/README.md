# Verification of drasi-mcp-agent

TLA+ models of the agent that subscribes to MCP Events and wakes a durable
workflow for each event, their TLC runs, and TLAPS proofs. Paths are relative to
the package `src/src/drasi_mcp_agent/` unless they begin with `docs/`, `tests/` or `README`.

## 1. The system

One process, one asyncio event loop, no persistence of its own. The agent asks an
MCP server for events (`events/subscribe`), receives them as signed webhooks,
hands each to a workflow runtime (Dapr), and re-subscribes before its grant ends.

| component | state | operations | talks to |
|---|---|---|---|
| dedup dictionary (`state.py`, `_seen`) | event ids by recency, at most `dedup_capacity` | `is_seen`, `mark_seen`, `seen` | called by the receiver |
| subscription record (`state.py`, `_sub`) | secret, id, grant, cursor; or nothing | `set_pending`, `set_active`, `set_cursor`, `current`, `secret_for` | written by the manager and the receiver |
| webhook receiver (`receiver.py`) | one handler per delivery | `handle_webhook` and the handlers it dispatches to | state, sink, server |
| subscription manager (`subscription.py`) | `_name`, `_secret`, `_task`; where its coroutines wait | `start`, `_refresh_loop`, `_refresh_once`, `stop`, `decide` | client, state |
| activation (`activation.py`) | client, manager, start task; the sink | `hook`, `on_startup`, `on_shutdown`, `_start` | host, manager |
| client (`mcp_events/client.py`) | request ids, session id | `initialize`, `list_events`, `subscribe`, `unsubscribe`, `aclose` | server |
| wire (`mcp_events/wire.py`) | none | sign, verify, freshness, parse | receiver, manager |
| agent, config, entry point | none | construction, text | host |
| server, runtime, uvicorn | external | | |

Two parties write the shared record without knowing of each other: the receiver
commits the cursor of each delivery (`receiver.py:193`, `:245`), the manager
overwrites it with the response of each subscribe (`subscription.py:177`, `:298`).
Every method of the state holds the lock and awaits nothing, so the atomic steps
of the program are the stretches between two awaits: in the receiver the body of
the request and the sink, in the manager the calls of the client, the sleep and
the join of the refresh task.

### What is hard here

* The dedup check and its update are on two sides of the await of the sink.
* The sink may fail before or after the runtime took the event.
* Deliveries finish in any order; a refresh overwrites the cursor with a response
  that was computed before later deliveries.
* The server challenges the agent's endpoint *inside* the subscribe call: the
  secret has to be published, and the socket open, before it gets there.
* Calls time out at the client and are carried out at the server all the same.
* Shutdown may find `start()` or a refresh anywhere.
* Exceptions that are not in `_REFRESH_ERRORS` end the refresh task.
* Grants lapse, the server forgets, the agent forgets.
* When to refresh is computed from two clocks that need not agree.
* The answer to a call may come framed in other traffic; the session it belongs to
  may be gone.

`PROJECT.json` lists these as hazards, each at its line, with the properties that
look at it.

### What makes each component correct

* dedup: forgets an id only after `Capacity` other ids were used later.
* receiver: no 2xx before a workflow was started; no cursor before the event it
  came with was woken; duplicates bounded, and none once an event is settled.
* manager and activation: the secret precedes every challenge; one call at a
  time; a lost grant comes back; shutdown ends, leaves no task behind and
  unsubscribes whatever it may have subscribed.
* refresh timing: the grant does not lapse while the loop runs, the loop does not
  spin, an outage is bounded.
* client: an answer ends its call the way the server meant; no request before its
  handshake.
* together: an at-least-once inbox.

## 2. The modules

```
DedupLru            operators on the dictionary
  DedupWindow       any sequence of calls             <- DedupWindowProofs
  AgentEventState   operators on the record
    WebhookReceiver handlers, sink, any server        <- WebhookReceiverProofs
    SubscriptionManager   start / loop / stop, open   <- SubscriptionManagerProofs
      Activation    host, network and server     <- ActivationProofs
      AgentDelivery manager + INSTANCE WebhookReceiver
                    + a server that retries      <- AgentDeliveryProofs
        EventInbox  what AgentDelivery implements
      McpSession    manager + client + a server
                    that enforces sessions       <- McpSessionProofs
DedupLruProofs      lemmas on the operators, used by the proofs about the
                    dictionary, the receiver and the delivery
SubscriptionManagerProofs   lemmas on the manager, used by the proofs about the
                    three modules that compose it
RpcFraming          operators: from a response to the end of a call; in McpSession
Lease               the refresh loop against two clocks <- LeaseProofs
```

**DedupLru** is the `OrderedDict` as the sequence of its keys. One operator per
method, built from dict insertion, `move_to_end` and the eviction of
`popitem(last=False)`.

**DedupWindow** calls the three methods in any order and remembers beside the
dictionary when each id was last touched.

**AgentEventState** has the record as a set of at most one element (`{}` is
`_sub is None`) and one operator per method.

**WebhookReceiver** has one action per branch of the handler. `conn[c]` is the
handler of connection `c`: `idle`, `received` (the body is there),
`scheduling` (awaiting the sink), `accepted` (the runtime has the event, the
handler does not know yet), `answered`. A request is what the handler can tell
of it: the class of its body, the tokens of its signature header, whether it is
fresh, its event id and cursor; `SignedBy` looks for the token of the tracked
secret as `verify` does. The server may post any request on any connection at any
time, and the manager's calls on the shared state happen at any time too, with
any grant and cursor a response may hold, null ones among them, so whatever is
shown here holds for every server and every manager.

| action | code |
|---|---|
| `RejectUnroutable`, `RejectUnverified`, `RejectMalformedBody` | `receiver.py:101-125` |
| `HandleVerification`, `HandleGap`, `HandleTerminated`, `IgnoreUnknownControl` | `receiver.py:127-138`, `:170-212` |
| `RejectMalformedEvent`, `RaiseOnOddEvent`, `AckDuplicate`, `AskRetryUntilWired`, `AwaitSchedule` | `receiver.py:215-239` |
| `ScheduleReturns`, `ScheduleFails`, `ScheduleRaisesLate` | `receiver.py:238-247` |
| `RuntimeAccepts`, `Post`, `Finish` | external |
| `ManagerPublishes`, `ManagerActivates`, `WireSchedule` | `subscription.py:167`, `:298`; `activation.py:106` |

**SubscriptionManager** has the control state of the three coroutines as
variables `start`, `loop`, `stop` (what each waits for) and the one call they
wait for. It is open: that a call returns, fails or breaks is the choice of the
module that composes it. *Fails* is an exception of `_REFRESH_ERRORS`; *breaks*
is any other (`KeyError` for a missing `id`, `ValueError` for an error code that
is no number or a grant that is no timestamp). `initialize` stands for the
request and the notification that follows it; `McpSession` tells them apart.

**Activation** puts around it the hook, `on_startup` and `on_shutdown`, uvicorn's
socket, the requests on their way (also those nobody waits for any more) and a
server that challenges, grants, refuses, forgets and restarts. `owed` says
whether a subscribe was sent with no unsubscribe sent after it.

**AgentDelivery** composes manager and receiver over the same variables `sub` and
`seen`, with a stream of events `1..emitted` and a server after
`docs/design-sketch-proposal.md`: it retries every event until a 2xx, computes the
watermark at which everything is acknowledged or abandoned, puts it in deliveries
and responses, keeps all of it in memory, and starts a lost subscription from the
cursor it is given. Cursors are positions in the stream. A crash forgets
everything the process holds. This server is a conforming one: its answers have an
id, a grant that is a timestamp and a watermark that is not null. What other
answers do to the manager is in `Activation` (the `Breaks` steps), null cursors are
in `WebhookReceiver`.

**EventInbox** is the promise: an event stays on offer until work was started for
it or the sender gave it up; unless the agent was restarted or gave up.
`AgentDelivery` implements it under the mapping `done` = woken or waived,
`offered` = what the live subscription has pending or, if there is none, what
lies after the position the next subscribe resumes from.

**Lease** has only the refresh loop, and time. `now` is the server's clock, the
agent's is off by `skew`. `TwiceDelay` is `refresh_delay_seconds`, doubled to stay
with integers. How slow calls and how late timers get is `slowest` and `latest`,
chosen at the start of a behaviour like the skew: the code bounds neither
(`httpx.Timeout`, `client.py:36`, is a bound of each read, not of the call), so
nothing is assumed of them. `Tick` may not pass the moment a timer fires plus
`latest`, nor the end of a call, `slowest` after it began. A behaviour begins when
the first subscribe has returned, a round trip after it was sent, with a grant given
some time in it. The server stamps its challenge with its own clock, and the
subscribe is granted only if the agent finds the stamp fresh (`timestamp_fresh`).
The server may drop the subscription at any moment, with or without a terminated
envelope: the receiver acknowledges one and wakes nobody. `Needed` says how much of
a grant has to be left when a sleep begins, for the last of `n` calls in a row to
come in time; `GrantIsKept` promises the grant while the lifetime covers the calls
that failed in a row and one more.

**RpcFraming** reads a response as `client.py:195-275` does: by content type, as one
JSON text or as the blocks of a stream. A message is what the client can tell of
it: an object or not, its id, the shape of its `result` and `error`. `Outcome` is
how the call ends: it returns, fails with a listed error, or breaks.

**McpSession** composes manager and client: `wire` is the HTTP request under way
with its id and session header, `session` what the client adopted. The server
enforces sessions: `initialize` opens one, `notifications/initialized` readies it,
anything else is refused outside a ready session. It answers each request with one
message, in any framing, before or after a comment, a notification, a request with
the same id, an older answer, or half a message. The message has the request's id
or, an error of a server that could not read the request, none: that one the client
finds by falling back on the first message shaped like a response
(`client.py:252-254`), which an older answer beside it would hide, and so there is
none. An error with a code that is no number is `garbled`: any end but a result is
in order. The server may list
any of `Offers`, and `Decide` picks from it. Calls may be lost before or after they
were carried out; the server may restart and forget its sessions.

Definitions named `X_Word` and marked "mutant" are X with a plausible bug;
nothing refers to them. `PROJECT.json` says which property fails with it.

## 3. The runs

| run | bounds | states | shows |
|---|---|---|---|
| `dedup` | 4 ids, capacity 2, 6 touches | 1,045 | order and retention of the dictionary |
| `receiver` | 2 connections, 2 events, 11 requests, 4 wakes and 1 late failure per event | 340,938 | nothing acknowledged unwoken, no cursor unearned, duplicates bounded and ending |
| `activation` | 1 secret, 2 grants (one unparsable), 3 faults | 2,939 | challenge order, one call at a time, clean shutdown; recovery and end of shutdown |
| `delivery` | 2 events, 2 connections, 1 fault, 1 waiver, 1 crash | 540,078 | the inbox; the cursor is always safe to resume from |
| `delivery_liveness` | 2 events, 2 connections, 2 faults | 49,806 | every event is handled |
| `lease` | in units of 5 s: ttl 12, window 60, 21 ticks, 2 faults, 3 skews, calls of at most 1 or 2, timers late by at most 0 or 1 | 4,245,147 | the grant is kept while it lasts for the calls that failed, no spinning, bounded outages |
| `session` | 7 listings, 2 faults, 5 requests | 2,478 | answers understood, requests welcome, the offer respected |

Why the bounds are enough to be interesting. *dedup*: with twice
as many ids as the dictionary holds an id can be evicted, come back and evict
another; `now` is only a clock and six touches go round the dictionary three
times. *receiver*: two handlers are the least that overlap in the sink; two
events fit in the capacity, so a duplicate is never the effect of an eviction;
four wakes per event are more than the two connections and one late failure
allow, so the bound hides no violation of `DuplicatesAreBounded`. The requests
contain a wrong signature and a stale timestamp with cursors of their own; grants are
absent, because the receiver never reads `refresh_before`.
*activation*: three faults lose a grant, refuse or time out the refresh that
would restore it, and fail once more. *delivery*: two events can be delivered in
either order with different watermarks while a refresh is under way; a crash with
one fault loses the cursor and the subscription. The liveness run takes two
faults, the least that lose the subscription and fail the refresh after it.
*lease*: the proportions are the shipped ones, a TTL of 60 s in a window of 300 s;
21 ticks are nearly two lifetimes, so that a grant that is not renewed lapses
within them; with quick calls, timers on time and no clock behind, the TTL covers one
failure, otherwise none, and two faults go beyond both. The skews are
a clock a little behind, none, and one far ahead, which takes every grant for
expired: its challenges are all fresh with quick calls, and go stale with slow ones. *session*: five requests are
one start and the refreshes that two faults leave; refresh after refresh is the
same state but for the id. The session id, and everything the server says, is
enumerated for each request anew (335,442 transitions).

Runs that use symmetry (connections) check only safety. All check for deadlock;
`Finished` and `NothingLeft` are the states where the program really stops.

### Fairness

*Activation*: weak fairness of the steps the event loop takes on its own (start
task, timers, the rest of a shutdown), of uvicorn opening the socket and of the
server handling requests somebody waits for: the event loop runs what is ready,
and a client call always ends, by a timeout if nothing else (30 s). Faults and
shutdown are not fair. *AgentDelivery*: weak fairness of handlers, of the answers
leaving, of the manager and of the server's subscribe; strong fairness of
`Deliver(e)`, because the server's retry may find every connection taken now and
then but not for ever. A failure of the sink counts as a fault, so it stops in
the end. Faults are finite in every behaviour: the bound expresses that.

### What the code does and a document denies

Five runs check one statement of a comment, a docstring, a test or a document, and
show a behaviour of the code that contradicts it (`findings` in `PROJECT.json`).

* `scheduled_once`: overlapping deliveries of one event start it twice
  (`receiver.py:223`, `:244`; against `tests/receiver_test.py:344`).
  `DuplicatesAreBounded` and `SettledStaysSettled` say what does hold.
* `null_cursor`: a delivery without a cursor erases the watermark
  (`receiver.py:245`; against `docs/design-sketch-proposal.md:551`). It takes a
  server that mixes null and non-null cursors.
* `loop_torn_down`: an answer without `id`, or an unparsable grant, ends the
  refresh loop (`subscription.py:268`, `:299`; against `subscription.py:262-263`).
  As a consequence `stop()` raises, too (`subscription.py:197`), and `on_shutdown`
  does not get to close the client (`StopMeetsDeadLoop`, `ShutdownAborts`).
* `subscribe_before_socket`: nothing orders the start task after the socket
  (`activation.py:129`; against `activation.py:24-26`). The three calls make the
  race unlikely to be lost; nothing excludes it.
* `restart_skips`: after a restart the agent subscribes from now; events emitted
  while both sides had forgotten are skipped (`subscription.py:175`; against
  `README.md:102-103`).

### Two remarks on the timing

The condition of `GrantIsKept` with the shipped figures in seconds, a TTL of 60
(`config.py:31`) and a `Floor` of 3, timers on time and clocks alike: if no call
fails, the grant is kept as long as calls take at most 19 s; with one failed call,
at most 8 s; with two in a row, at most 3 s. (`PromptCallsKeepTheGrant` is the first
of these in a closed form, which rounds it to 18 s.) The client's timeout is 30 s,
and of each read: nothing excludes calls as slow as that, and a refresh that times
out may cost the grant. A clock that is behind takes from this: by 30 s leaves calls
of 9 s, and one that is behind by more than the TTL sleeps past the end of
every grant, while the freshness window tolerates 300 s. None of this loses an event
that the server can replay (`CursorIsSafe`): the next refresh that succeeds restores
the subscription.

A `terminated` envelope is documented as a signal to the manager
(`receiver.py:28-29`) and as an optional one (`receiver.py:69-72`). Nothing in the
program sets the callback, so what bounds the outage is the next refresh.

## 4. The proofs

Every safety invariant and every action property of the passing runs is proved,
for all values of the constants, and so is the refinement of `EventInbox`. The
bounds of section 3 (faults, requests, wakes, crashes, time) are constants too: a
theorem holds whatever they are. Each inductive invariant was checked by TLC on
the instance of its run before it was proved.

`DedupLruProofs` has the lemmas on the operators: what `Position` finds; that
`Insert`, `MoveToEnd` and `Evict` keep, add and drop what they should and in which
order; that `mark_seen` and `seen` leave the same dictionary; that the dictionary
never has a key twice, and so forgets nothing while it has room for every id.

`DedupWindowProofs` proves `Spec => []` of the three properties of `DedupWindow`.
None is inductive alone: retention needs the order (the front is the oldest), the
order needs that `now` bounds every touch and that a remembered id was touched.
`IInv` is their conjunction; its step is split in a hit (`HitKeepsIInv`) and a
recording (`NewKeepsIInv`), and every action is one of the two.

`WebhookReceiverProofs` proves type correctness, `AckedEventIsWoken` and
`CursorIsEarned` for every number of connections, every set of requests, any
capacity. `IInv` adds to them: whatever is recorded as seen was woken and an
accepted handler's event was woken (`CommitIsWoken`), and a handler in the sink
has passed the signature check under the secret tracked now
(`WaitingIsAuthentic`, which is where it matters that the secret of a tracked
subscription never changes).

It then counts. `DuplicatesAreBounded` says nothing of why the bound holds;
`CountInv` does. An event that is not recorded was woken only by handlers that
have yet to record it, and by late failures (`UnseenIsAccounted`): so when a
handler passes the check, every wake so far can be charged to a connection that
is not its own. What was woken and what the handlers still in the sink may wake
is together within the bound (`StartsAreBounded`); that is the inductive form,
because a handler in the sink will wake its event whether or not another one
recorded it meanwhile. Both need that an id once recorded stays recorded, which is
`Distinct(seen)` and enough capacity. `At(e, phase)` is the set of handlers of `e` in a
phase; the steps are grouped by whether they move a handler in the sink
(`StepKinds`). `SettledIsFinal` is the action property: a recorded event with no
handler in the sink cannot get one again.

`SubscriptionManagerProofs` has what holds of the manager in any environment: its
steps keep its type (`ManagerKeepsType`), a stored response keeps the secret.

`ActivationProofs` proves the type invariant and the four safety invariants of
`Activation`, for any secrets, grants, cursors and number of faults. `IInv` says
which coroutines can exist in each phase of the host and where the others are while
one runs (`Phases`), which call belongs to which place (`Waiting`), that the one
awaited request is that call (`AwaitedIsCall`), that `owed` and every subscribe at
the server imply a secret the receiver has (`SecretFirst`), and that a `stop()` that
has not raised owes nothing (`StopOwesNothing`): if `_name` was not set there is
nothing to undo because nothing was sent, which needs `SecretFirst`. The steps are
grouped by what they do to the requests: nothing, a step of the server, a send, a
giving up, an answer; `Sending` and `GivingUp` serve them all.

`AgentDeliveryProofs` proves the three invariants of `AgentDelivery` and that it
implements `EventInbox`, for a stream of any length and any number of connections,
faults, waivers and crashes. `CursorIsSafe` speaks of the record and of a response
under way; a position gets there from elsewhere, so what is inductive is that
*every* position held anywhere is safe: in the record, in a call, in a response, in
a gap envelope, in a request a handler works on, and where the session began
(`PositionsAreSafe`). A safe position stays safe because nothing is undone
(`SafeStays`), which is why it does not matter who overwrites the cursor with what.
New positions come from the server only, and its watermark is safe
(`WatermarkIsSafe`) because what it takes for delivered was woken
(`ServerForgetsNothing`), because a handler wakes before it records and before it
acknowledges (`HandlersFit`). `InStream`, `ManagerFits` and `SessionsFit` say which
events exist, which call belongs to which coroutine, and what there is before the
first subscribe and after a loss; the last of these says that nothing was skipped
before a crash or a `start()` that gave up.

The refinement rests on `NothingLost`, which follows from `IInv`: while nothing
excuses it, what was emitted and is not done is on offer. `Emit` maps to the inbox's
emission; `Abandon` and `GapHappens` to a waiver; a step of the receiver to the
work it starts, or to a stutter; posts, answers, timeouts, the session's loss and
renewal, the manager and a crash change at most what is offered, and never take an
undone event off (`OthersAreQuiet`). The provers cannot cite a theorem of an instance,
so what is needed of the receiver (`HandlerSteps`: what each branch does) is
established over the definitions `Receiver!...`, for the requests this server posts.

`McpSessionProofs` proves the four invariants of `McpSession`. Its first half is
about reading a stream: a block holds one message at most, other traffic never
reads as a response to the request, the answer survives being split into lines, so
a stream of *any* length made of these yields the answer (`StreamIsUnderstood`); every framing
the server of this module chooses is such a stream (`OutcomeIsMeant`). The second
half is the session. `RequestsAreWelcome` is not inductive: whether a request is
welcome depends on the handshake before it. `HandshakeComesFirst` says that once
`start()` is past `initialize` the client's session is one the server knows as
initialized, or the server restarted; `RequestFits` that a request carries the
client's session and belongs to the coroutine that waits. That the handshake
happened where the client believes it did needs `AnswersAreUnderstood`: a failure
read as a success would send the next request outside a session.

`LeaseProofs` proves the four properties of `Lease` for every lifetime, floor,
window, latency, lateness and skew, and any number of faults, with no assumption on
how these compare. All of them speak of *now*; what is inductive is what held when
the present sleep or call began (`since`) and how far time may have gone since then
(`Timely`): the agent's idea of the grant never outlives the grant
(`KnownIsGranted`), what is left of it covers as many calls as the whole lifetime
does, less those that failed already (`EnoughIsLeft`), the outage was within its
rounds (`OutageSoFar`). One lemma per action; `SleepLeavesEnough` is the arithmetic.
`Needed` is a recursive function, and that it has the values its equation says has
to be shown first: there is a function that satisfies the equation up to any `n`
(`NeededExists`, by the least `n` without one). `PromptCallsKeepTheGrant` draws the
case of no failures from `GrantIsKept`.

Assumptions used: `CapacityAssumption` (`dedup_capacity >= 1`, checked by
`state.py:73`), `NoneAssumption` (Python's `None` is no id, secret or cursor) and
`NameAssumption`; the types of the constants (`RequestAssumption`,
`ResponseCursorAssumption`, `UnparsableAssumption`, `DeliveryAssumption`,
`OfferAssumption`, the bounds); `FiniteAssumption` (finitely many connections and
ids, so that wakes can be counted); `SessionAssumption` (a server that enforces
sessions opens one); `DurationAssumption` of `Lease`, which only gives its constants
their types and says `NoExpiry >= Floor`. The runs evaluate all of them.

Only model-checked: the liveness properties (`LostGrantComesBack`, `ShutdownEnds`,
`EveryEventHandled`), which are beyond the prover, as is `ENABLED`; and the
behaviours of the five runs that contradict a document, which are witnesses and
need no proof.

## 5. Not modelled

* `agent.py`: `build_llm` and `build_agent` construct; `format_task` and
  `_change_row` render text, and fall back to `?` for whatever is missing, so
  nothing of them reaches the protocol. `config.py`, `app.py`: the environment is
  read once and the host started.
* The bytes of bodies and signatures. Base64, HMAC, the `whsec_` format and
  `parse_body`/`control_type`/`parse_occurrence` are computations on one request;
  a request carries what they find (`kind`, signature tokens, `fresh`).
* `Lease` leaves out a late upsert by a call the client gave up on: it only
  prolongs the grant. `AgentDelivery` leaves it out too; there it would begin from
  an older safe cursor. `Activation` has it.
* Recovery from a server that enforces sessions and restarts: the client never
  initializes again, so there is none (`RequestsAreWelcome` ends at the restart).
* The runtime's own durability; the deployment scripts.

## 6. Plan

Done: every component with control of its own is modelled; every safety invariant,
every action property and the refinement are proved. What is left:

1. Lemmas that several proof modules state for themselves (the least element of a
   set of numbers, what a handler that answers or waits looks like afterwards) in
   one place.
2. That a process of `AgentDelivery`, between two crashes, is a behaviour of
   `WebhookReceiver` (its manager's steps as `ManagerPublishes` and
   `ManagerActivates`), so that the receiver's own theorems, the bound on duplicates
   among them, carry over instead of being established again.
