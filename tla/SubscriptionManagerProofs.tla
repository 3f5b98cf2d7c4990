--------------------- MODULE SubscriptionManagerProofs ----------------------
(***************************************************************************)
(* What holds of the manager's steps whatever its environment does: used   *)
(* by the proofs about each module that composes it.                       *)
(***************************************************************************)
EXTENDS SubscriptionManager, TLAPS

\* The steps of the manager, whatever its environment does with them.
ManagerStep ==
    \/ StartBegins \/ InitializeReturns \/ (\E s \in Secret : ListReturns(s))
    \/ ListOffersNothing \/ StartFails \/ StartBreaks \/ StartCancelled
    \/ (\E r \in Result : StartSubscribed(r) \/ RefreshReturns(r))
    \/ LoopSleeps \/ LoopCannotParse \/ RefreshBegins \/ RefreshFails \/ RefreshBreaks
    \/ StopWithoutLoop \/ StopCancelsLoop \/ StopMeetsDeadLoop
    \/ UnsubscribeEnds \/ UnsubscribeBreaks

\* A stored response keeps the secret.
LEMMA StoresKeepsSecret ==
    ASSUME TrackedType(sub), NEW r \in Result, Stores(r)
    PROVE  TrackedType(sub') /\ SecretFor(sub') = SecretFor(sub) /\ call' = {}
<1>1. CASE sub = {}
  BY <1>1 DEF Stores, SetActive, SecretFor, TrackedType
<1>2. CASE sub # {}
  <2>1. PICK s \in Subscription : sub = {s}
    BY <1>2 DEF TrackedType
  <2> DEFINE t == [s EXCEPT !.id = r.id, !.refreshBefore = r.refreshBefore,
                            !.cursor = r.cursor]
  <2>2. sub' = {t}
    BY <2>1 DEF Stores, SetActive
  <2>3. t \in Subscription /\ t.secret = s.secret
    BY <2>1 DEF Subscription, Result
  <2> HIDE DEF t
  <2> QED
    BY <2>1, <2>2, <2>3 DEF TrackedType, SecretFor, Stores
<1> QED
  BY <1>1, <1>2

\* A fresh record has the secret it was published with.
LEMMA SetPendingSecret ==
    ASSUME NEW s \in Secret
    PROVE  TrackedType(SetPending(s)) /\ SecretFor(SetPending(s)) = {s}
BY DEF TrackedType, SetPending, SecretFor, Subscription

\* Whatever is awaited is a call.
LEMMA CallsAreCalls ==
    /\ \A method \in {"initialize", "events/list", "events/unsubscribe"} :
           [method |-> method] \in Call
    /\ \A k \in Cursor \cup {None} : [method |-> "events/subscribe", cursor |-> k] \in Call
BY DEF Call

\* The type invariant of the open manager: whatever its environment does, its own
\* steps keep it.
LEMMA ManagerKeepsType ==
    ASSUME ManagerTypeOK, ManagerStep
    PROVE  ManagerTypeOK'
<1> USE DEF ManagerTypeOK
<1>1. CASE StartBegins \/ InitializeReturns
  BY <1>1, CallsAreCalls DEF StartBegins, InitializeReturns, Issue, StartPc
<1>2. ASSUME NEW s \in Secret, ListReturns(s) PROVE ManagerTypeOK'
  BY <1>2, CallsAreCalls, SetPendingSecret DEF ListReturns, Subscribe, StartPc
<1>3. CASE ListOffersNothing \/ StartFails \/ StartBreaks \/ StartCancelled
  BY <1>3 DEF ListOffersNothing, StartFails, StartBreaks, StartCancelled, StartEnds, StartPc
<1>4. ASSUME NEW r \in Result, StartSubscribed(r) \/ RefreshReturns(r) PROVE ManagerTypeOK'
  BY <1>4, StoresKeepsSecret DEF StartSubscribed, RefreshReturns, StartPc, LoopPc
<1>5. CASE LoopSleeps \/ LoopCannotParse \/ RefreshFails \/ RefreshBreaks
  BY <1>5 DEF LoopSleeps, LoopCannotParse, RefreshFails, RefreshBreaks, LoopEnds, LoopPc
<1>6. CASE RefreshBegins
  <2>1. (IF Tracked(sub) THEN Current(sub).cursor ELSE None) \in Cursor \cup {None}
    BY DEF TrackedType, Tracked, Current, Subscription
  <2> QED
    BY <1>6, <2>1, CallsAreCalls DEF RefreshBegins, Subscribe, LoopPc
<1>7. CASE StopWithoutLoop \/ StopCancelsLoop \/ StopMeetsDeadLoop
  BY <1>7, CallsAreCalls DEF StopWithoutLoop, StopCancelsLoop, StopMeetsDeadLoop,
                             StopEnds, Unsubscribe, Issue, StopPc, LoopPc
<1>8. CASE UnsubscribeEnds \/ UnsubscribeBreaks
  BY <1>8 DEF UnsubscribeEnds, UnsubscribeBreaks, StopEnds, StopPc
<1> QED
  BY <1>1, <1>2, <1>3, <1>4, <1>5, <1>6, <1>7, <1>8 DEF ManagerStep
=============================================================================
