------------------------- MODULE MCWebhookReceiver --------------------------
(***************************************************************************)
(* Two connections, two events that may each be on both of them, and one   *)
(* request of every kind the handler tells apart.  Two secrets: the one    *)
(* that is published and one that is not, whichever comes first.  Grants   *)
(* are absent in its configurations: the receiver never reads refreshBefore.*)
(***************************************************************************)
EXTENDS WebhookReceiver, TLC

CONSTANTS s1, s2, e1, e2, k1, k2, k3, k4

Tag(scheme, key, intact) == [scheme |-> scheme, key |-> key, intact |-> intact]

\* By both secrets, as while they are rotated, and by a scheme of its own.
Signed(kind, event, cursor) ==
    [kind |-> kind, fresh |-> TRUE, event |-> event, cursor |-> cursor,
     signatures |-> {Tag("v1", s1, TRUE), Tag("v1", s2, TRUE), Tag("other", s1, TRUE)}]

Events == {Signed("event", e1, k1), Signed("event", e2, k2)}

NullCursorEvents == {Signed("event", e1, None), Signed("event", e2, k2)}

AllKinds ==
    Events \cup
    {Signed("gap", e1, k3), Signed("verification", e1, None),
     Signed("terminated", e1, None), Signed("unknown", e1, None),
     Signed("odd event", e1, k3), Signed("malformed event", e1, k3),
     Signed("malformed body", e1, None),
     [Signed("event", e2, k3) EXCEPT !.signatures =
          {Tag("other", s1, TRUE), Tag("v1", s1, FALSE), Tag("v1", s2, TRUE)}],
     [Signed("gap", e1, k4) EXCEPT !.fresh = FALSE]}

Symmetry == Permutations(Conn)
=============================================================================
