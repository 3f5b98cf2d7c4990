------------------------------- MODULE Lease --------------------------------
(***************************************************************************)
(* The refresh loop against the clock: when refresh_delay_seconds wakes    *)
(* it, and what becomes of the grant at the server meanwhile.              *)
(*                                                                         *)
(* `now` is the server's clock; the agent's is off by `skew`, which can be *)
(* anything.  refreshBefore is a time of the server's clock that the agent *)
(* subtracts its own from, and the stamp of the server's challenge, which  *)
(* it posts inside every subscribe, has to be fresh on the agent's clock.  *)
(* The code halves the remaining lifetime; to stay with integers, times    *)
(* are compared doubled.                                                   *)
(*                                                                         *)
(* How slow calls and how late timers get in a behaviour is `slowest` and  *)
(* `latest`, chosen at its start like the skew.  Nothing in the code bounds*)
(* either (httpx.Timeout bounds each read, not the call), so nothing is    *)
(* assumed of them: the properties say what holds as long as calls and     *)
(* timers were no worse.  A grant without an expiry is the empty set.      *)
(***************************************************************************)
EXTENDS Integers

CONSTANTS Ttl,      \* lifetime the server grants
          Floor,    \* MIN_REFRESH_SECONDS
          NoExpiry, \* NO_EXPIRY_HEALTHCHECK_SECONDS
          Window,   \* DEFAULT_SKEW_SECONDS
          Skews,    \* how far ahead the agent's clock may be
          Latencies, \* how long calls may take
          Delays,   \* how late timers may fire
          MaxTime,  \* bound: the clock
          MaxFaults \* bound: calls that fail, grants the server drops

ASSUME DurationAssumption ==
    /\ Floor \in Nat \ {0} /\ NoExpiry \in Nat /\ NoExpiry >= Floor
    /\ Ttl \in Nat /\ Window \in Nat
    /\ Skews \subseteq Int /\ Latencies \subseteq Nat /\ Delays \subseteq Nat

ASSUME BoundAssumption == MaxTime \in Nat /\ MaxFaults \in Nat

VARIABLES skew,    \* how far the agent's clock is ahead, for good
          slowest, \* the longest a call takes, for good
          latest,  \* the latest a timer fires, for good
          now,     \* the server's clock
          phase,   \* where the loop is: asleep, or in a call
          since,   \* when that began
          known,   \* refreshBefore as the agent holds it: {} for no expiry
          live,    \* whether the server has the subscription
          expiry,  \* when it lapses there: {} for never
          fails,   \* calls that failed since the last response
          lostAt,  \* when the server last dropped the subscription
          calls,   \* refreshes begun
          faults

clocks == <<skew, slowest, latest, now>>
server == <<live, expiry, lostAt>>
vars == <<skew, slowest, latest, now, phase, since, known, live, expiry, fails,
          lostAt, calls, faults>>

Max2(a, b) == IF a >= b THEN a ELSE b

Granted == live /\ \A t \in expiry : now < t

\* refresh_delay_seconds, doubled
TwiceDelay_NoFloor(refreshBefore, at) ==   \* mutant: no lower bound
    IF refreshBefore = {} THEN 2 * NoExpiry
    ELSE (CHOOSE t \in refreshBefore : TRUE) - at
TwiceDelay_OfTtl(refreshBefore, at) ==     \* mutant: half the lifetime, not of what is left
    IF refreshBefore = {} THEN 2 * NoExpiry ELSE Max2(Ttl, 2 * Floor)
TwiceDelay(refreshBefore, at) ==
    IF refreshBefore = {} THEN 2 * NoExpiry
    ELSE Max2((CHOOSE t \in refreshBefore : TRUE) - at, 2 * Floor)

TimestampFresh_Strict(ts, at) == at - ts < Window /\ ts - at < Window   \* mutant
TimestampFresh(ts, at) == at - ts <= Window /\ ts - at <= Window

\* start() stored the grant of its first subscribe, which was given some time
\* during the call, and spawned the loop.
Init == /\ skew \in Skews /\ slowest \in Latencies /\ latest \in Delays
        /\ now \in 0..slowest
        /\ phase = "sleep" /\ since = now
        /\ expiry \in {{}} \cup {{given + Ttl} : given \in 0..now}
        /\ known = expiry
        /\ live = TRUE
        /\ fails = 0 /\ calls = 0 /\ faults = 0
        /\ lostAt = 0
-----------------------------------------------------------------------------
Asleep == 2 * (now - since) - TwiceDelay(known, since + skew)

\* Time passes, but not beyond the latest a timer fires or a call ends.
Tick ==
    /\ now < MaxTime
    /\ IF phase = "sleep" THEN Asleep < 2 * latest ELSE now < since + slowest
    /\ now' = now + 1
    /\ UNCHANGED <<skew, slowest, latest, phase, since, known, server, fails, calls, faults>>

\* The sleep is over: events/subscribe goes out.
RefreshBegins ==
    /\ phase = "sleep"
    /\ Asleep >= 0
    /\ phase' = "sent"
    /\ since' = now
    /\ calls' = calls + 1
    /\ UNCHANGED <<clocks, known, server, fails, faults>>

\* External: the server challenges the endpoint with a stamp of its clock, and
\* upserts the subscription if the agent finds it fresh on its own.
Subscribes ==
    /\ phase = "sent"
    /\ \E ts \in since..now :
           IF TimestampFresh(ts, now + skew)
           THEN /\ phase' = "granted"
                /\ live' = TRUE
                /\ expiry' = {now + Ttl : t \in expiry}
           ELSE phase' = "refused" /\ UNCHANGED <<live, expiry>>
    /\ UNCHANGED <<clocks, since, known, lostAt, fails, calls, faults>>

\* mutant: the new grant is added to the old one
RefreshReturns_Adds ==
    /\ phase = "granted"
    /\ known' = {t + Ttl : t \in known}
    /\ phase' = "sleep" /\ since' = now
    /\ fails' = 0
    /\ UNCHANGED <<clocks, server, calls, faults>>

\* _refresh_once stores the new grant; the loop sleeps on it.
RefreshReturns ==
    /\ phase = "granted"
    /\ known' = expiry
    /\ phase' = "sleep" /\ since' = now
    /\ fails' = 0
    /\ UNCHANGED <<clocks, server, calls, faults>>

\* The endpoint was refused: logged, and the loop sleeps on the grant it has.
RefreshRefused ==
    /\ phase = "refused"
    /\ phase' = "sleep" /\ since' = now
    /\ UNCHANGED <<clocks, known, server, fails, calls, faults>>

\* A timeout, a lost connection or an error answer, before or after the server
\* did its part: likewise.
RefreshFails ==
    /\ phase \in {"sent", "granted"}
    /\ faults < MaxFaults /\ faults' = faults + 1
    /\ phase' = "sleep" /\ since' = now
    /\ fails' = fails + 1
    /\ UNCHANGED <<clocks, known, server, calls>>

\* External: the server restarts and has forgotten the subscription, or ends it
\* and posts a terminated envelope.  _handle_terminated acknowledges that, and
\* nobody sets request_resubscribe: the manager is not woken.
ServerDrops ==
    /\ live
    /\ faults < MaxFaults /\ faults' = faults + 1
    /\ live' = FALSE
    /\ lostAt' = now
    /\ UNCHANGED <<clocks, phase, since, known, expiry, fails, calls>>

Finished == now = MaxTime /\ UNCHANGED vars

Next == \/ Tick
        \/ RefreshBegins \/ RefreshReturns \/ RefreshRefused \/ RefreshFails
        \/ Subscribes \/ ServerDrops
        \/ Finished

Spec == Init /\ [][Next]_vars
-----------------------------------------------------------------------------
TypeOK ==
    /\ skew \in Skews /\ slowest \in Latencies /\ latest \in Delays
    /\ now \in 0..Max2(slowest, MaxTime)
    /\ phase \in {"sleep", "sent", "granted", "refused"} /\ since \in 0..now
    /\ known \in {{}} \cup {{t} : t \in 0..now + Ttl}
    /\ expiry \in {{}} \cup {{t} : t \in 0..now + Ttl}
    /\ live \in BOOLEAN /\ lostAt \in 0..now
    /\ fails \in 0..faults /\ faults \in 0..MaxFaults
    /\ calls \in Nat

\* Clocks apart by no more than the freshness window, with the delay of a call.
Tolerable == skew >= -Window /\ skew + slowest <= Window

\* How much of a grant has to be left when a sleep begins, for the last of n
\* calls in a row to be answered in time: each comes at half of what the agent
\* takes for the rest, or after Floor, and a clock that is behind takes the rest
\* for longer than it is.
Behind == Max2(-skew, 0)
Lateness == slowest + latest
Needed(lateness, behind) ==
    LET needed[n \in 0..MaxFaults + 1] ==
            IF n = 0 THEN 1
            ELSE Max2(2 * (needed[n - 1] + lateness) + behind,
                      needed[n - 1] + lateness + Floor)
    IN  needed

\* "re-subscribes before the granted TTL lapses" (subscription.py:10-12): a
\* subscription the server does not drop has not lapsed, as long as a grant
\* lasts for the calls that failed in a row and one more, at the pace of the
\* calls and timers there were and with the clocks there are.
GrantIsKept ==
    Tolerable /\ live /\ Ttl >= slowest + Needed(Lateness, Behind)[fails + 1]
        => Granted

\* "re-subscribes promptly but never spins" (subscription.py:109-110): the loop
\* calls at most once per Floor, whatever it believes of its grant.
NeverSpins == calls * Floor <= now

\* From one call to the next, doubled: the longest sleep, rounded up to a tick,
\* and the longest call.
TwiceRound == 2 * Lateness + 1 + IF expiry = {} THEN 2 * NoExpiry
                                   ELSE Max2(Ttl - skew, 2 * Floor)

\* A subscription the server dropped, with or without a terminated envelope
\* (receiver.py:198-212, subscription.py:257-274), is back after the call under way and one
\* round, and one more round for each call that fails.
OutageIsBounded ==
    Tolerable /\ ~live => 2 * (now - lostAt) <= (fails + 1) * TwiceRound + 2 * slowest
=============================================================================
