---------------------------- MODULE DedupWindow -----------------------------
(***************************************************************************)
(* How long does the agent remember an event id?  This module lets any     *)
(* client call the three dedup methods of AgentEventState in any order and *)
(* keeps, beside the dictionary, what the dictionary itself does not hold: *)
(* when each id was last touched.  A touch is a recording or a hit; a miss *)
(* of is_seen is no touch, it records nothing.                             *)
(***************************************************************************)
EXTENDS DedupLru

CONSTANTS Event,      \* event ids
          MaxTouches  \* bound on the touches of a behaviour

ASSUME MaxTouchesAssumption == MaxTouches \in Nat

VARIABLES seen,       \* the keys of `_seen`, oldest first
          now,        \* touches so far
          touched     \* touched[e]: when e was last touched, 0 for never

vars == <<seen, now, touched>>

Touch(e) == /\ now' = now + 1
            /\ touched' = [touched EXCEPT ![e] = now + 1]

Init == /\ seen = <<>>
        /\ now = 0
        /\ touched = [e \in Event |-> 0]

\* is_seen answering True
CallIsSeenHit(e) ==
    /\ IsSeen(seen, e)
    /\ seen' = RefreshIfSeen(seen, e)
    /\ Touch(e)

\* is_seen answering False
CallIsSeenMiss(e) ==
    /\ ~IsSeen(seen, e)
    /\ seen' = RefreshIfSeen(seen, e)
    /\ UNCHANGED <<now, touched>>

CallMarkSeen(e) ==
    /\ seen' = MarkSeen(seen, e)
    /\ Touch(e)

CallSeen(e) ==
    /\ seen' = SeenOrRecord(seen, e)
    /\ Touch(e)

Next ==
    \E e \in Event :
        \/ CallIsSeenMiss(e)
        \/ now < MaxTouches /\ CallIsSeenHit(e)
        \/ now < MaxTouches /\ CallMarkSeen(e)
        \/ now < MaxTouches /\ CallSeen(e)

Spec == Init /\ [][Next]_vars
-----------------------------------------------------------------------------
\* The dictionary never outgrows its capacity and holds known ids.
TypeOK ==
    /\ seen \in Seq(Event)
    /\ Len(seen) <= Capacity
    /\ now \in Nat
    /\ touched \in [Event -> Nat]

\* The dictionary is ordered by last touch, without repetition: what
\* popitem(last=False) drops is the id untouched for longest (state.py:78).
OrderedByRecency ==
    \A i, j \in 1..Len(seen) : i < j => touched[seen[i]] < touched[seen[j]]

\* An id that was touched and is not remembered any more was pushed out by
\* Capacity others, all of them touched after it: this is the window in which
\* a redelivery is recognised (state.py:158-161 and :190-196).
ForgottenOnlyWhenPushedOut ==
    \A e \in Event :
        touched[e] > 0 /\ ~IsSeen(seen, e) =>
            /\ Len(seen) = Capacity
            /\ \A i \in 1..Len(seen) : touched[e] < touched[seen[i]]
=============================================================================
