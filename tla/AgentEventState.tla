-------------------------- MODULE AgentEventState ---------------------------
(***************************************************************************)
(* The state shared by the webhook receiver and the subscription manager   *)
(* (state.py): at most one Subscription, and the dedup dictionary of       *)
(* DedupLru.  Every method holds the lock for all of its body and awaits   *)
(* nothing, so each is one operator on the part of the state it touches,   *)
(* and the components apply it inside one of their own steps.              *)
(*                                                                         *)
(* `name` and `params` of a Subscription are left out: they are written    *)
(* once and nothing in the receiver or the refresh loop reads them back.   *)
(***************************************************************************)
EXTENDS DedupLru

CONSTANTS Secret,   \* HMAC keys
          SubId,    \* routing ids the server derives
          Grant,    \* values of refreshBefore other than null
          Cursor,   \* watermarks the server hands out, other than null
          None      \* Python's None

Subscription == [secret: Secret, id: SubId \cup {None},
                 refreshBefore: Grant \cup {None}, cursor: Cursor \cup {None}]

ASSUME NoneAssumption == None \notin Secret \cup SubId \cup Grant \cup Cursor

\* A tracked subscription is a set of at most one record: {} is `_sub is None`.
TrackedType(sub) == \/ sub = {}
                    \/ \E s \in Subscription : sub = {s}

Tracked(sub) == sub # {}
Current(sub) == CHOOSE s \in sub : TRUE

\* set_pending: a fresh record, whatever was tracked before
SetPending(secret) ==
    {[secret |-> secret, id |-> None, refreshBefore |-> None, cursor |-> None]}

\* mutant: the response is stored beside the record it belongs to
SetActive_Appends(sub, id, refreshBefore, cursor) == sub \cup
    {[s EXCEPT !.id = id, !.refreshBefore = refreshBefore, !.cursor = cursor] : s \in sub}

\* set_active: fills in the response's fields and keeps the secret; the
\* caller has to know that something is tracked, it raises otherwise
SetActive(sub, id, refreshBefore, cursor) ==
    {[s EXCEPT !.id = id, !.refreshBefore = refreshBefore, !.cursor = cursor] : s \in sub}

\* set_cursor: overwrites, with None too; nothing happens if nothing is tracked
SetCursor(sub, cursor) == {[s EXCEPT !.cursor = cursor] : s \in sub}

\* secret_for: the one secret for any id; no secret only if nothing is tracked
SecretFor(sub) == {s.secret : s \in sub}
=============================================================================
