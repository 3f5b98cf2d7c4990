-------------------------- MODULE DedupWindowProofs -------------------------
(***************************************************************************)
(* For every capacity, every set of ids and every sequence of calls, the   *)
(* dictionary is ordered by last touch and forgets an id only after it     *)
(* was pushed out by Capacity younger ones.                                *)
(***************************************************************************)
EXTENDS DedupWindow, DedupLruProofs

\* The inductive invariant: the stamps are not ahead of the clock, so a new
\* touch is younger than everything, and the two properties hold together
\* (an eviction forgets the oldest only because the order is by touch).
StampsArePast == \A e \in Event : touched[e] <= now

IInv == /\ TypeOK
        /\ StampsArePast
        /\ OrderedByRecency
        /\ ForgottenOnlyWhenPushedOut

\* A touch of a remembered id keeps the invariant.
LEMMA HitKeepsIInv ==
    ASSUME IInv, NEW e \in Event, IsSeen(seen, e),
           seen' = MoveToEnd(seen, e), Touch(e)
    PROVE  IInv'
<1>0. /\ Len(seen) \in Nat /\ Capacity \in Nat \ {0}
      /\ \A i \in 1..Len(seen) : seen[i] \in Event
  BY LenProperties, ElementOfSeq, CapacityAssumption DEF IInv, TypeOK
<1>1. PICK p \in 1..Len(seen) :
          /\ seen[p] = e
          /\ seen' \in Seq(Event) /\ Len(seen') = Len(seen)
          /\ \A i \in 1..Len(seen) :
                 seen'[i] = IF i < p THEN seen[i]
                            ELSE IF i < Len(seen) THEN seen[i + 1] ELSE e
  BY MoveToEndProperties DEF IInv, TypeOK
<1>2. /\ now' = now + 1 /\ now \in Nat
      /\ touched' \in [Event -> Nat]
      /\ touched'[e] = now + 1
      /\ \A f \in Event \ {e} : touched'[f] = touched[f]
      /\ \A f \in Event : touched[f] \in Nat /\ touched[f] <= now
  BY DEF Touch, IInv, TypeOK, StampsArePast
<1>3. TypeOK'
  BY <1>1, <1>2 DEF IInv, TypeOK
<1>4. StampsArePast'
  BY <1>2 DEF StampsArePast
<1>5. \A i \in 1..Len(seen) : i # p => seen[i] # e
  <2> SUFFICES ASSUME NEW i \in 1..Len(seen), i # p
               PROVE  touched[seen[i]] # touched[seen[p]]
    BY <1>1
  <2>1. touched[seen[i]] \in Nat /\ touched[seen[p]] \in Nat
    BY <1>0, <1>2
  <2> QED
    BY <1>0, <2>1 DEF IInv, OrderedByRecency
<1>6. ASSUME NEW i \in 1..Len(seen), NEW j \in 1..Len(seen), i < j
      PROVE  touched'[seen'[i]] < touched'[seen'[j]]
  <2> DEFINE k == IF i < p THEN i ELSE i + 1
             l == IF j < p THEN j ELSE j + 1
  <2>1. k \in 1..Len(seen) /\ k # p /\ seen'[i] = seen[k]
    BY <1>0, <1>1, <1>6
  <2>2. touched'[seen'[i]] = touched[seen[k]] /\ touched[seen[k]] <= now
    BY <1>0, <1>2, <1>5, <2>1
  <2>3. CASE j = Len(seen)
    <3>1. seen'[j] = e
      BY <1>0, <1>1, <2>3
    <3> QED
      BY <1>0, <1>2, <2>1, <2>2, <3>1
  <2>4. CASE j < Len(seen)
    <3>1. l \in 1..Len(seen) /\ l # p /\ seen'[j] = seen[l] /\ k < l
      BY <1>0, <1>1, <1>6, <2>4
    <3>2. touched'[seen'[j]] = touched[seen[l]]
      BY <1>0, <1>2, <1>5, <3>1
    <3> QED
      BY <2>1, <2>2, <3>1, <3>2 DEF IInv, OrderedByRecency
  <2> QED
    BY <1>0, <2>3, <2>4
<1>7. OrderedByRecency'
  BY <1>1, <1>6 DEF OrderedByRecency
<1>8. ForgottenOnlyWhenPushedOut'
  <2> SUFFICES ASSUME NEW f \in Event, touched'[f] > 0, ~IsSeen(seen', f)
               PROVE  /\ Len(seen) = Capacity
                      /\ \A i \in 1..Len(seen) : touched'[f] < touched'[seen'[i]]
    BY <1>1 DEF ForgottenOnlyWhenPushedOut
  <2>1. f # e
    BY <1>0, <1>1 DEF IsSeen, Contains
  <2>2. ~IsSeen(seen, f)
    <3> SUFFICES ASSUME NEW m \in 1..Len(seen), seen[m] = f
                 PROVE  \E i \in 1..Len(seen) : seen'[i] = f
      BY <1>1 DEF IsSeen, Contains
    <3>1. CASE m < p
      BY <1>1, <3>1
    <3>2. CASE m > p
      <4>1. m - 1 \in 1..Len(seen) /\ ~(m - 1 < p) /\ m - 1 < Len(seen)
        BY <1>0, <3>2
      <4> QED
        BY <1>0, <1>1, <4>1
    <3> QED
      BY <1>0, <1>1, <2>1, <3>1, <3>2
  <2>3. Len(seen) = Capacity /\ \A i \in 1..Len(seen) : touched[f] < touched[seen[i]]
    BY <1>2, <2>1, <2>2 DEF IInv, ForgottenOnlyWhenPushedOut
  <2>4. ASSUME NEW i \in 1..Len(seen)
        PROVE  touched'[f] < touched'[seen'[i]]
    <3>1. touched'[f] = touched[f] /\ touched[f] <= now
      BY <1>2, <2>1
    <3>2. seen'[i] \in Event
      BY <1>1, ElementOfSeq
    <3>3. CASE seen'[i] = e
      BY <1>2, <3>1, <3>3
    <3>4. CASE seen'[i] # e
      <4>1. PICK m \in 1..Len(seen) : seen'[i] = seen[m]
        BY <1>0, <1>1, <3>4
      <4> QED
        BY <1>0, <1>2, <2>3, <3>1, <3>4, <4>1
    <3> QED
      BY <3>3, <3>4
  <2> QED
    BY <2>3, <2>4
<1> QED
  BY <1>3, <1>4, <1>7, <1>8 DEF IInv

\* Recording a new id keeps the invariant, whether or not it evicts.
LEMMA NewKeepsIInv ==
    ASSUME IInv, NEW e \in Event, ~IsSeen(seen, e),
           seen' = Evict(Append(seen, e)), Touch(e)
    PROVE  IInv'
<1> DEFINE a == Append(seen, e)
<1>0. /\ Len(seen) \in Nat /\ Capacity \in Nat \ {0} /\ Len(seen) <= Capacity
      /\ \A i \in 1..Len(seen) : seen[i] \in Event
  BY LenProperties, ElementOfSeq, CapacityAssumption DEF IInv, TypeOK
<1>1. /\ a \in Seq(Event) /\ Len(a) = Len(seen) + 1
      /\ \A i \in 1..Len(seen) : a[i] = seen[i]
      /\ a[Len(seen) + 1] = e
  BY AppendProperties DEF IInv, TypeOK
<1> HIDE DEF a
<1>2. /\ seen' \in Seq(Event)
      /\ Len(seen') <= Capacity
      /\ Len(a) <= Capacity => seen' = a
      /\ Len(a) > Capacity =>
             /\ Len(seen') = Len(a) - 1
             /\ \A i \in 1..(Len(a) - 1) : seen'[i] = a[i + 1]
  <2>1. Len(a) <= Capacity + 1
    BY <1>0, <1>1
  <2>2. seen' = Evict(a)
    BY DEF a
  <2> QED
    BY <1>1, <2>1, <2>2, EvictProperties
<1>3. /\ now' = now + 1 /\ now \in Nat
      /\ touched' \in [Event -> Nat]
      /\ touched'[e] = now + 1
      /\ \A f \in Event \ {e} : touched'[f] = touched[f]
      /\ \A f \in Event : touched[f] \in Nat /\ touched[f] <= now
  BY DEF Touch, IInv, TypeOK, StampsArePast
<1>4. TypeOK'
  BY <1>2, <1>3 DEF TypeOK
<1>5. StampsArePast'
  BY <1>3 DEF StampsArePast
<1>6. \A i \in 1..Len(seen) :
          seen[i] # e /\ touched'[a[i]] = touched[seen[i]] /\ touched[seen[i]] <= now
  BY <1>0, <1>1, <1>3 DEF IsSeen, Contains
<1>7. \A i, j \in 1..Len(a) : i < j => touched'[a[i]] < touched'[a[j]]
  <2> SUFFICES ASSUME NEW i \in 1..Len(a), NEW j \in 1..Len(a), i < j
               PROVE  touched'[a[i]] < touched'[a[j]]
    OBVIOUS
  <2>1. i \in 1..Len(seen)
    BY <1>0, <1>1
  <2>2. CASE j = Len(seen) + 1
    <3>1. touched'[a[j]] = now + 1
      BY <1>1, <1>3, <2>2
    <3>2. touched[seen[i]] \in Nat
      BY <1>0, <1>3, <2>1
    <3> QED
      BY <1>3, <1>6, <2>1, <3>1, <3>2
  <2>3. CASE j # Len(seen) + 1
    <3>1. j \in 1..Len(seen)
      BY <1>0, <1>1, <2>3
    <3> QED
      BY <1>6, <2>1, <3>1 DEF IInv, OrderedByRecency
  <2> QED
    BY <2>2, <2>3
<1>8. OrderedByRecency'
  <2>1. CASE Len(a) <= Capacity
    BY <1>2, <1>7, <2>1 DEF OrderedByRecency
  <2>2. CASE Len(a) > Capacity
    <3> SUFFICES ASSUME NEW i \in 1..Len(seen'), NEW j \in 1..Len(seen'), i < j
                 PROVE  touched'[seen'[i]] < touched'[seen'[j]]
      BY DEF OrderedByRecency
    <3>1. /\ i + 1 \in 1..Len(a) /\ j + 1 \in 1..Len(a) /\ i + 1 < j + 1
          /\ seen'[i] = a[i + 1] /\ seen'[j] = a[j + 1]
      BY <1>0, <1>1, <1>2, <2>2
    <3> QED
      BY <1>7, <3>1
  <2> QED
    BY <1>0, <1>1, <2>1, <2>2
<1>9. ForgottenOnlyWhenPushedOut'
  <2> SUFFICES ASSUME NEW f \in Event, touched'[f] > 0, ~IsSeen(seen', f)
               PROVE  /\ Len(seen') = Capacity
                      /\ \A i \in 1..Len(seen') : touched'[f] < touched'[seen'[i]]
    BY DEF ForgottenOnlyWhenPushedOut
  <2>1. CASE Len(a) <= Capacity
    <3>1. seen' = a /\ Len(seen) < Capacity
      BY <1>0, <1>1, <1>2, <2>1
    <3>2. f # e /\ ~IsSeen(seen, f)
      BY <1>0, <1>1, <3>1 DEF IsSeen, Contains
    <3>3. touched[f] > 0
      BY <1>3, <3>2
    <3> QED
      BY <1>0, <3>1, <3>2, <3>3 DEF IInv, ForgottenOnlyWhenPushedOut
  <2>2. CASE Len(a) > Capacity
    <3>1. Len(seen) = Capacity /\ Len(seen') = Capacity
      BY <1>0, <1>1, <1>2, <2>2
    <3>2. \A i \in 1..Len(seen') : i + 1 \in 1..Len(a) /\ seen'[i] = a[i + 1]
      BY <1>0, <1>1, <1>2, <2>2
    <3>3. seen'[Len(seen')] = e /\ Len(seen') \in 1..Len(seen')
      BY <1>0, <1>1, <3>1, <3>2
    <3>4. f # e
      BY <3>3 DEF IsSeen, Contains
    <3>5. touched'[f] = touched[f] /\ touched[f] > 0
      BY <1>3, <3>4
    <3>6. ASSUME NEW i \in 1..Len(seen')
          PROVE  touched'[f] < touched'[a[i + 1]]
      <4>1. CASE IsSeen(seen, f)
        <5>1. PICK m \in 1..Len(seen) : seen[m] = f
          BY <4>1 DEF IsSeen, Contains
        <5>2. m = 1
          <6> SUFFICES ASSUME m > 1 PROVE FALSE
            BY <1>0
          <6>1. m - 1 \in 1..Len(seen') /\ (m - 1) + 1 = m /\ m \in 1..Len(a)
            BY <1>0, <1>1, <3>1
          <6>2. seen'[m - 1] = f
            BY <1>1, <3>2, <5>1, <6>1
          <6> QED
            BY <6>1, <6>2 DEF IsSeen, Contains
        <5>3. 1 \in 1..Len(a) /\ a[1] = f /\ 1 < i + 1
          BY <1>0, <1>1, <5>1, <5>2
        <5> QED
          BY <1>7, <3>2, <5>3
      <4>2. CASE ~IsSeen(seen, f)
        <5>1. \A m \in 1..Len(seen) : touched[f] < touched[seen[m]]
          BY <3>5, <4>2 DEF IInv, ForgottenOnlyWhenPushedOut
        <5>2. CASE i + 1 \in 1..Len(seen)
          BY <1>6, <3>5, <5>1, <5>2
        <5>3. CASE i + 1 = Len(seen) + 1
          BY <1>1, <1>3, <3>5, <5>3
        <5> QED
          BY <1>0, <3>1, <5>2, <5>3
      <4> QED
        BY <4>1, <4>2
    <3> QED
      BY <3>1, <3>2, <3>6
  <2> QED
    BY <1>0, <1>1, <2>1, <2>2
<1> QED
  BY <1>4, <1>5, <1>8, <1>9 DEF IInv

\* The empty dictionary.
LEMMA InitIInv == Init => IInv
<1> SUFFICES ASSUME Init PROVE IInv
  OBVIOUS
<1>1. seen \in Seq(Event) /\ Len(seen) = 0
  BY EmptySeq DEF Init
<1> QED
  BY <1>1, CapacityAssumption
  DEF Init, IInv, TypeOK, StampsArePast, OrderedByRecency, ForgottenOnlyWhenPushedOut

\* Every call is a hit, a recording, or leaves the dictionary alone.
LEMMA NextIInv == IInv /\ [Next]_vars => IInv'
<1> SUFFICES ASSUME IInv, [Next]_vars PROVE IInv'
  OBVIOUS
<1>1. ASSUME NEW e \in Event, CallIsSeenHit(e) PROVE IInv'
  BY <1>1, HitKeepsIInv DEF CallIsSeenHit, RefreshIfSeen
<1>2. CASE UNCHANGED vars
  BY <1>2 DEF vars, IInv, TypeOK, StampsArePast, OrderedByRecency,
              ForgottenOnlyWhenPushedOut
<1>3. ASSUME NEW e \in Event, CallIsSeenMiss(e) PROVE IInv'
  BY <1>2, <1>3 DEF CallIsSeenMiss, RefreshIfSeen, vars
<1>4. ASSUME NEW e \in Event, seen' = SeenOrRecord(seen, e), Touch(e) PROVE IInv'
  BY <1>4, HitKeepsIInv, NewKeepsIInv DEF SeenOrRecord
<1>5. ASSUME NEW e \in Event, CallMarkSeen(e) PROVE IInv'
  <2>1. MarkSeen(seen, e) = SeenOrRecord(seen, e)
    BY MarkSeenIsSeenOrRecord DEF IInv, TypeOK
  <2> QED
    BY <1>4, <1>5, <2>1 DEF CallMarkSeen
<1>6. ASSUME NEW e \in Event, CallSeen(e) PROVE IInv'
  BY <1>4, <1>6 DEF CallSeen
<1> QED
  BY <1>1, <1>2, <1>3, <1>5, <1>6 DEF Next

\* The dictionary never outgrows its capacity (state.py:173-174, :195-196).
THEOREM DedupTypeOK == Spec => []TypeOK
<1>1. IInv => TypeOK
  BY DEF IInv
<1> QED
  BY InitIInv, NextIInv, <1>1, PTL DEF Spec

\* What an eviction drops is always the id untouched for longest
\* (state.py:78, "Ordered by recency").
THEOREM DedupOrdered == Spec => []OrderedByRecency
<1>1. IInv => OrderedByRecency
  BY DEF IInv
<1> QED
  BY InitIInv, NextIInv, <1>1, PTL DEF Spec

\* A redelivery is recognised until Capacity other ids were touched after the
\* last touch of its id, for every capacity: there is no earlier eviction.
THEOREM DedupRetention == Spec => []ForgottenOnlyWhenPushedOut
<1>1. IInv => ForgottenOnlyWhenPushedOut
  BY DEF IInv
<1> QED
  BY InitIInv, NextIInv, <1>1, PTL DEF Spec
=============================================================================
