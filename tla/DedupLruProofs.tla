--------------------------- MODULE DedupLruProofs ---------------------------
(***************************************************************************)
(* What the operators of DedupLru return, position by position.  The       *)
(* proofs about DedupWindow, WebhookReceiver and AgentDelivery rest on     *)
(* these lemmas.                                                           *)
(***************************************************************************)
EXTENDS DedupLru, SequenceTheorems, FiniteSetTheorems, TLAPS

\* Position finds an id that is remembered (state.py:169, :185).
LEMMA PositionFinds ==
    ASSUME NEW S, NEW ids \in Seq(S), NEW e, IsSeen(ids, e)
    PROVE  Position(ids, e) \in 1..Len(ids) /\ ids[Position(ids, e)] = e
BY DEF IsSeen, Contains, Position

\* move_to_end keeps every other id, in its order, and puts e last
\* (state.py:170, :186, :194).
LEMMA MoveToEndProperties ==
    ASSUME NEW S, NEW ids \in Seq(S), NEW e \in S, IsSeen(ids, e)
    PROVE  LET p == Position(ids, e)
               r == MoveToEnd(ids, e)
           IN  /\ r \in Seq(S)
               /\ Len(r) = Len(ids)
               /\ p \in 1..Len(ids) /\ ids[p] = e
               /\ \A i \in 1..Len(ids) :
                      r[i] = IF i < p THEN ids[i]
                             ELSE IF i < Len(ids) THEN ids[i + 1]
                             ELSE e
<1> DEFINE p == Position(ids, e)
           n == Len(ids)
           before == SubSeq(ids, 1, p - 1)
           after == SubSeq(ids, p + 1, n)
           rest == before \o after
<1>1. p \in 1..n /\ ids[p] = e
  BY PositionFinds
<1>2. n \in Nat /\ \A i \in 1..n : ids[i] \in S
  BY LenProperties, ElementOfSeq
<1>3. /\ before \in Seq(S)
      /\ Len(before) = p - 1
      /\ \A i \in 1..(p - 1) : before[i] = ids[i]
  <2>1. \A i \in 1..(p - 1) : ids[i] \in S
    BY <1>1, <1>2
  <2>2. 1 \in Int /\ p - 1 \in Int
    BY <1>1, <1>2
  <2>3. /\ before \in Seq(S)
        /\ Len(before) = IF 1 <= p - 1 THEN (p - 1) - 1 + 1 ELSE 0
        /\ \A i \in 1..((p - 1) - 1 + 1) : before[i] = ids[1 + i - 1]
    BY <2>1, <2>2, SubSeqProperties
  <2> QED
    BY <1>1, <1>2, <2>3
<1>4. /\ after \in Seq(S)
      /\ Len(after) = n - p
      /\ \A i \in 1..(n - p) : after[i] = ids[p + i]
  <2>1. \A i \in (p + 1)..n : ids[i] \in S
    BY <1>1, <1>2
  <2>2. p + 1 \in Int /\ n \in Int
    BY <1>1, <1>2
  <2>3. /\ after \in Seq(S)
        /\ Len(after) = IF p + 1 <= n THEN n - (p + 1) + 1 ELSE 0
        /\ \A i \in 1..(n - (p + 1) + 1) : after[i] = ids[(p + 1) + i - 1]
    BY <2>1, <2>2, SubSeqProperties
  <2> QED
    BY <1>1, <1>2, <2>3
<1>5. /\ rest \in Seq(S)
      /\ Len(rest) = n - 1
      /\ \A i \in 1..(n - 1) : rest[i] = IF i < p THEN ids[i] ELSE ids[i + 1]
  <2> HIDE DEF before, after
  <2>1. /\ rest \in Seq(S)
        /\ Len(rest) = Len(before) + Len(after)
        /\ \A i \in 1..(Len(before) + Len(after)) :
               rest[i] = IF i <= Len(before) THEN before[i]
                                             ELSE after[i - Len(before)]
    BY <1>3, <1>4, ConcatProperties
  <2>2. Len(rest) = n - 1
    BY <1>1, <1>2, <1>3, <1>4, <2>1
  <2> HIDE DEF rest
  <2>3. ASSUME NEW i \in 1..(n - 1), i < p
        PROVE  rest[i] = ids[i]
    <3>1. i \in 1..(p - 1)
      BY <1>1, <1>2, <2>3
    <3>2. i \in 1..(Len(before) + Len(after)) /\ i <= Len(before)
      BY <1>1, <1>2, <1>3, <1>4, <3>1
    <3>3. rest[i] = before[i]
      BY <2>1, <3>2
    <3> QED
      BY <1>3, <3>1, <3>3
  <2>4. ASSUME NEW i \in 1..(n - 1), ~(i < p)
        PROVE  rest[i] = ids[i + 1]
    <3>1. rest[i] = after[i - (p - 1)]
      <4>1. i \in 1..(Len(before) + Len(after)) /\ ~(i <= Len(before))
        BY <1>1, <1>2, <1>3, <1>4, <2>4
      <4>2. rest[i] = after[i - Len(before)]
        BY <2>1, <4>1
      <4> QED
        BY <1>3, <4>2
    <3>2. i - (p - 1) \in 1..(n - p) /\ p + (i - (p - 1)) = i + 1
      BY <1>1, <1>2, <2>4
    <3> QED
      BY <1>4, <3>1, <3>2
  <2> QED
    BY <2>1, <2>2, <2>3, <2>4
<1>6. MoveToEnd(ids, e) = Append(rest, e)
  BY DEF MoveToEnd, RemoveAt
<1>7. /\ Append(rest, e) \in Seq(S)
      /\ Len(Append(rest, e)) = n
      /\ \A i \in 1..(n - 1) : Append(rest, e)[i] = rest[i]
      /\ Append(rest, e)[n] = e
  <2> HIDE DEF rest
  <2> QED
    BY <1>1, <1>2, <1>5, AppendProperties
<1> HIDE DEF rest
<1> QED
  BY <1>1, <1>2, <1>5, <1>6, <1>7

\* Insertion puts a new id last and changes nothing for a known one.
LEMMA InsertProperties ==
    ASSUME NEW S, NEW ids \in Seq(S), NEW e \in S
    PROVE  /\ Insert(ids, e) \in Seq(S)
           /\ IsSeen(Insert(ids, e), e)
           /\ IsSeen(ids, e) => Insert(ids, e) = ids
           /\ ~IsSeen(ids, e) => Insert(ids, e) = Append(ids, e)
<1>1. CASE IsSeen(ids, e)
  BY <1>1 DEF Insert, IsSeen
<1>2. CASE ~IsSeen(ids, e)
  <2>1. Append(ids, e) \in Seq(S) /\ Len(Append(ids, e)) = Len(ids) + 1
        /\ Append(ids, e)[Len(ids) + 1] = e
    BY AppendProperties
  <2>2. Len(ids) \in Nat
    BY LenProperties
  <2> QED
    BY <1>2, <2>1, <2>2 DEF Insert, IsSeen, Contains
<1> QED
  BY <1>1, <1>2

\* Eviction drops at most the oldest id, and shifts the others down.
LEMMA EvictProperties ==
    ASSUME NEW S, NEW ids \in Seq(S), Len(ids) <= Capacity + 1
    PROVE  /\ Evict(ids) \in Seq(S)
           /\ Len(Evict(ids)) <= Capacity
           /\ Len(ids) <= Capacity => Evict(ids) = ids
           /\ Len(ids) > Capacity =>
                  /\ Len(Evict(ids)) = Len(ids) - 1
                  /\ \A i \in 1..(Len(ids) - 1) : Evict(ids)[i] = ids[i + 1]
<1>1. Len(ids) \in Nat /\ Capacity \in Nat \ {0}
  BY LenProperties, CapacityAssumption
<1>2. CASE Len(ids) <= Capacity
  BY <1>1, <1>2 DEF Evict
<1>3. CASE Len(ids) > Capacity
  <2>1. ids # <<>>
    BY <1>1, <1>3
  <2>2. /\ Tail(ids) \in Seq(S)
        /\ Len(Tail(ids)) = Len(ids) - 1
        /\ \A i \in 1..Len(Tail(ids)) : Tail(ids)[i] = ids[i + 1]
    BY <2>1, HeadTailProperties
  <2>3. Evict(ids) = Tail(ids)
    BY <1>3 DEF Evict
  <2> DEFINE t == Tail(ids)
  <2>4. Evict(ids) = t /\ t \in Seq(S) /\ Len(t) = Len(ids) - 1
        /\ \A i \in 1..Len(t) : t[i] = ids[i + 1]
    BY <2>2, <2>3
  <2> HIDE DEF t
  <2> QED
    BY <1>1, <1>3, <2>4
<1> QED
  BY <1>1, <1>2, <1>3
\* Recording a remembered id refreshes it; recording a new one appends it and
\* evicts: mark_seen leaves the dictionary that the combined form seen leaves
\* (state.py:155-175 against :190-196).
LEMMA MarkSeenIsSeenOrRecord ==
    ASSUME NEW S, NEW ids \in Seq(S), NEW e \in S, Len(ids) <= Capacity
    PROVE  MarkSeen(ids, e) = SeenOrRecord(ids, e)
<1>0. Len(ids) \in Nat /\ Capacity \in Nat \ {0}
  BY LenProperties, CapacityAssumption
<1>1. CASE IsSeen(ids, e)
  <2>1. Insert(ids, e) = ids
    BY <1>1, InsertProperties
  <2>2. MoveToEnd(ids, e) \in Seq(S) /\ Len(MoveToEnd(ids, e)) <= Capacity
    BY <1>1, MoveToEndProperties
  <2>3. Len(MoveToEnd(ids, e)) <= Capacity + 1
    BY <1>0, <1>1, MoveToEndProperties
  <2>4. Evict(MoveToEnd(ids, e)) = MoveToEnd(ids, e)
    BY <2>2, <2>3, EvictProperties
  <2> QED
    BY <1>1, <2>1, <2>4 DEF MarkSeen, SeenOrRecord
<1>2. CASE ~IsSeen(ids, e)
  <2> DEFINE a == Append(ids, e)
  <2>1. /\ a \in Seq(S)
        /\ Len(a) = Len(ids) + 1
        /\ \A i \in 1..Len(ids) : a[i] = ids[i]
        /\ a[Len(ids) + 1] = e
    BY AppendProperties
  <2>2. Insert(ids, e) = a /\ IsSeen(a, e)
    <3>1. IsSeen(Insert(ids, e), e) /\ Insert(ids, e) = Append(ids, e)
      BY <1>2, InsertProperties
    <3> QED
      BY <3>1
  <2> HIDE DEF a
  <2>3. \A i \in 1..Len(ids) : ids[i] # e
    BY <1>2 DEF IsSeen, Contains
  <2>4. Position(a, e) = Len(a)
    <3>1. Position(a, e) \in 1..Len(a) /\ a[Position(a, e)] = e
      BY <2>1, <2>2, PositionFinds
    <3> QED
      BY <1>0, <2>1, <2>3, <3>1
  <2>5. /\ MoveToEnd(a, e) \in Seq(S)
        /\ Len(MoveToEnd(a, e)) = Len(a)
        /\ \A i \in 1..Len(a) :
               MoveToEnd(a, e)[i] = IF i < Len(a) THEN a[i]
                                    ELSE IF i < Len(a) THEN a[i + 1]
                                    ELSE e
    BY <2>1, <2>2, <2>4, MoveToEndProperties
  <2>6. \A i \in 1..Len(a) : MoveToEnd(a, e)[i] = a[i]
    BY <1>0, <2>1, <2>5
  <2>7. MoveToEnd(a, e) = a
    BY <2>1, <2>5, <2>6, SeqEqual
  <2> QED
    BY <1>2, <2>2, <2>7 DEF MarkSeen, SeenOrRecord, a
<1> QED
  BY <1>1, <1>2

\* After recording e the dictionary holds e and nothing that is neither e nor
\* was there before, and it fits (state.py:190-196).
LEMMA MarkSeenContents ==
    ASSUME NEW S, NEW ids \in Seq(S), NEW e \in S, Len(ids) <= Capacity
    PROVE  /\ MarkSeen(ids, e) \in Seq(S)
           /\ Len(MarkSeen(ids, e)) <= Capacity
           /\ IsSeen(MarkSeen(ids, e), e)
           /\ \A x : IsSeen(MarkSeen(ids, e), x) => IsSeen(ids, x) \/ x = e
<1> DEFINE m == MarkSeen(ids, e)
<1>0. Len(ids) \in Nat /\ Capacity \in Nat \ {0}
  BY LenProperties, CapacityAssumption
<1>1. m = SeenOrRecord(ids, e)
  BY MarkSeenIsSeenOrRecord
<1> HIDE DEF m
<1>2. CASE IsSeen(ids, e)
  <2>1. m = MoveToEnd(ids, e)
    BY <1>1, <1>2 DEF SeenOrRecord
  <2>2. PICK p \in 1..Len(ids) :
            /\ m \in Seq(S) /\ Len(m) = Len(ids)
            /\ \A i \in 1..Len(ids) :
                   m[i] = IF i < p THEN ids[i]
                          ELSE IF i < Len(ids) THEN ids[i + 1] ELSE e
    BY <1>2, <2>1, MoveToEndProperties
  <2>3. IsSeen(m, e)
    BY <1>0, <2>2 DEF IsSeen, Contains
  <2>4. ASSUME NEW x, IsSeen(m, x)
        PROVE  IsSeen(ids, x) \/ x = e
    BY <1>0, <2>2, <2>4 DEF IsSeen, Contains
  <2> QED
    BY <2>2, <2>3, <2>4 DEF m
<1>3. CASE ~IsSeen(ids, e)
  <2> DEFINE a == Append(ids, e)
  <2>1. /\ a \in Seq(S)
        /\ Len(a) = Len(ids) + 1
        /\ \A i \in 1..Len(ids) : a[i] = ids[i]
        /\ a[Len(ids) + 1] = e
    BY AppendProperties
  <2>2. m = Evict(a)
    BY <1>1, <1>3 DEF SeenOrRecord
  <2> HIDE DEF a
  <2>3. /\ m \in Seq(S)
        /\ Len(m) <= Capacity
        /\ Len(a) <= Capacity => m = a
        /\ Len(a) > Capacity => /\ Len(m) = Len(a) - 1
                                /\ \A i \in 1..(Len(a) - 1) : m[i] = a[i + 1]
    BY <1>0, <2>1, <2>2, EvictProperties
  <2>4. IsSeen(m, e)
    BY <1>0, <2>1, <2>3 DEF IsSeen, Contains
  <2>5. ASSUME NEW x, IsSeen(m, x)
        PROVE  IsSeen(ids, x) \/ x = e
    <3>1. PICK j \in 1..Len(a) : a[j] = x
      BY <1>0, <2>1, <2>3, <2>5 DEF IsSeen, Contains
    <3> QED
      BY <1>0, <2>1, <3>1 DEF IsSeen, Contains
  <2> QED
    BY <2>3, <2>4, <2>5 DEF m
<1> QED
  BY <1>2, <1>3

\* A dictionary has each key once.
Distinct(ids) == \A i, j \in 1..Len(ids) : ids[i] = ids[j] => i = j

\* So it is no longer than there are ids.
LEMMA DistinctLength ==
    ASSUME NEW S, IsFiniteSet(S), NEW ids \in Seq(S), Distinct(ids)
    PROVE  Len(ids) <= Cardinality(S)
<1> DEFINE n == Len(ids)
<1>1. n \in Nat /\ ids \in [1..n -> S]
  BY LenProperties
<1>2. IsFiniteSet(1..n) /\ Cardinality(1..n) = n
  BY <1>1, FS_Interval
<1>3. Cardinality(S) \in Nat
  BY FS_CardinalityType
<1>4. ~(Cardinality(S) < n)
  <2> SUFFICES ASSUME Cardinality(S) < n PROVE FALSE
    OBVIOUS
  <2>1. \E i, j \in 1..n : i # j /\ ids[i] = ids[j]
    BY <1>1, <1>2, FS_PigeonHole
  <2> QED
    BY <2>1 DEF Distinct
<1> QED
  BY <1>1, <1>3, <1>4

\* mark_seen keeps the keys apart.
LEMMA MarkSeenKeepsDistinct ==
    ASSUME NEW S, NEW ids \in Seq(S), NEW e \in S, Len(ids) <= Capacity, Distinct(ids)
    PROVE  Distinct(MarkSeen(ids, e))
<1> DEFINE m == MarkSeen(ids, e)
<1>0. Len(ids) \in Nat /\ Capacity \in Nat \ {0}
  BY LenProperties, CapacityAssumption
<1>1. m = SeenOrRecord(ids, e)
  BY MarkSeenIsSeenOrRecord
<1> HIDE DEF m
<1>2. CASE IsSeen(ids, e)
  <2>1. m = MoveToEnd(ids, e)
    BY <1>1, <1>2 DEF SeenOrRecord
  <2>2. PICK p \in 1..Len(ids) :
            /\ ids[p] = e /\ Len(m) = Len(ids)
            /\ \A i \in 1..Len(ids) :
                   m[i] = IF i < p THEN ids[i]
                          ELSE IF i < Len(ids) THEN ids[i + 1] ELSE e
    BY <1>2, <2>1, MoveToEndProperties
  <2>3. \A i, j \in 1..Len(m) : i < j => m[i] # m[j]
    BY <1>0, <2>2 DEF Distinct
  <2> QED
    BY <1>0, <2>2, <2>3 DEF Distinct, m
<1>3. CASE ~IsSeen(ids, e)
  <2> DEFINE a == Append(ids, e)
  <2>1. /\ a \in Seq(S)
        /\ Len(a) = Len(ids) + 1
        /\ \A i \in 1..Len(ids) : a[i] = ids[i]
        /\ a[Len(ids) + 1] = e
    BY AppendProperties
  <2>2. m = Evict(a)
    BY <1>1, <1>3 DEF SeenOrRecord
  <2> HIDE DEF a
  <2>3. /\ Len(a) <= Capacity => m = a
        /\ Len(a) > Capacity => /\ Len(m) = Len(a) - 1
                                /\ \A i \in 1..(Len(a) - 1) : m[i] = a[i + 1]
    BY <1>0, <2>1, <2>2, EvictProperties
  <2>4. \A i \in 1..Len(ids) : ids[i] # e
    BY <1>3 DEF IsSeen, Contains
  <2>5. \A i, j \in 1..Len(a) : i < j => a[i] # a[j]
    BY <1>0, <2>1, <2>4 DEF Distinct
  <2>6. \A i, j \in 1..Len(m) : i < j => m[i] # m[j]
    BY <1>0, <2>1, <2>3, <2>5
  <2>7. Len(m) \in Nat
    BY <1>0, <2>1, <2>3
  <2> QED
    BY <2>6, <2>7 DEF Distinct, m
<1> QED
  BY <1>2, <1>3

\* With room for every id nothing is evicted.
LEMMA MarkSeenForgetsNothing ==
    ASSUME NEW S, IsFiniteSet(S), Cardinality(S) <= Capacity,
           NEW ids \in Seq(S), NEW e \in S, Len(ids) <= Capacity, Distinct(ids)
    PROVE  \A x : IsSeen(ids, x) => IsSeen(MarkSeen(ids, e), x)
<1> DEFINE m == MarkSeen(ids, e)
<1>0. Len(ids) \in Nat /\ Capacity \in Nat \ {0} /\ Cardinality(S) \in Nat
  BY LenProperties, CapacityAssumption, FS_CardinalityType
<1>1. m = SeenOrRecord(ids, e)
  BY MarkSeenIsSeenOrRecord
<1> HIDE DEF m
<1> SUFFICES ASSUME NEW x, IsSeen(ids, x) PROVE IsSeen(m, x)
  BY DEF m
<1>2. CASE IsSeen(ids, e)
  <2>1. m = MoveToEnd(ids, e)
    BY <1>1, <1>2 DEF SeenOrRecord
  <2>2. PICK p \in 1..Len(ids) :
            /\ ids[p] = e /\ Len(m) = Len(ids)
            /\ \A i \in 1..Len(ids) :
                   m[i] = IF i < p THEN ids[i]
                          ELSE IF i < Len(ids) THEN ids[i + 1] ELSE e
    BY <1>2, <2>1, MoveToEndProperties
  <2>3. PICK i \in 1..Len(ids) : ids[i] = x
    BY DEF IsSeen, Contains
  <2>4. CASE i < p
    BY <2>2, <2>3, <2>4 DEF IsSeen, Contains
  <2>5. CASE i = p
    BY <1>0, <2>2, <2>3, <2>5 DEF IsSeen, Contains
  <2>6. CASE i > p
    <3>1. i - 1 \in 1..Len(ids) /\ m[i - 1] = x
      BY <1>0, <2>2, <2>3, <2>6
    <3> QED
      BY <2>2, <3>1 DEF IsSeen, Contains
  <2> QED
    BY <2>4, <2>5, <2>6
<1>3. CASE ~IsSeen(ids, e)
  <2> DEFINE a == Append(ids, e)
  <2>1. /\ a \in Seq(S)
        /\ Len(a) = Len(ids) + 1
        /\ \A i \in 1..Len(ids) : a[i] = ids[i]
        /\ a[Len(ids) + 1] = e
    BY AppendProperties
  <2>2. m = Evict(a)
    BY <1>1, <1>3 DEF SeenOrRecord
  <2> HIDE DEF a
  <2>3. \A i \in 1..Len(ids) : ids[i] # e
    BY <1>3 DEF IsSeen, Contains
  <2>4. Distinct(a)
    <3>1. \A i, j \in 1..Len(a) : i < j => a[i] # a[j]
      BY <1>0, <2>1, <2>3 DEF Distinct
    <3> QED
      BY <1>0, <2>1, <3>1 DEF Distinct
  <2>5. Len(a) <= Capacity
    BY <1>0, <2>1, <2>4, DistinctLength
  <2>6. m = a
    BY <1>0, <2>1, <2>2, <2>5, EvictProperties
  <2> QED
    BY <1>0, <2>1, <2>6 DEF IsSeen, Contains
<1> QED
  BY <1>2, <1>3
=============================================================================
