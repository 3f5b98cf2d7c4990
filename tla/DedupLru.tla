------------------------------ MODULE DedupLru ------------------------------
(***************************************************************************)
(* The bounded memory of handled event ids that AgentEventState keeps in   *)
(* the OrderedDict `_seen` (state.py).  The dictionary is the sequence of  *)
(* its keys, oldest first.  Each method of AgentEventState on `_seen` runs *)
(* under one lock and has no await in it, so it is one operator here: it   *)
(* returns the dictionary the method leaves behind.                        *)
(*                                                                         *)
(* Here and in the other modules a definition X_Word marked "mutant" is X  *)
(* with a plausible bug in it; nothing refers to it.  PROJECT.json names   *)
(* the property that fails when it takes the place of X.                   *)
(***************************************************************************)
EXTENDS Naturals, SequencesExt

CONSTANT Capacity   \* dedup_capacity

ASSUME CapacityAssumption == Capacity \in Nat \ {0}

\* `event_id in self._seen`
IsSeen(ids, e) == Contains(ids, e)

\* dict insertion: a new key goes to the back, a known one keeps its place
Insert(ids, e) == IF Contains(ids, e) THEN ids ELSE Append(ids, e)

\* OrderedDict.move_to_end, of a key that is present
Position(ids, e) == CHOOSE i \in 1..Len(ids) : ids[i] = e
MoveToEnd_Forgotten(ids, e) == ids   \* mutant: a hit does not refresh
MoveToEnd(ids, e) == Append(RemoveAt(ids, Position(ids, e)), e)

\* `if len > capacity: popitem(last=False)`: drop the oldest
Evict_OffByOne(ids) == IF Len(ids) > Capacity + 1 THEN Tail(ids) ELSE ids  \* mutant
Evict_Newest(ids) == IF Len(ids) > Capacity THEN Front(ids) ELSE ids       \* mutant
Evict(ids) == IF Len(ids) > Capacity THEN Tail(ids) ELSE ids

\* is_seen: never inserts, but a hit becomes the most recent
RefreshIfSeen(ids, e) == IF IsSeen(ids, e) THEN MoveToEnd(ids, e) ELSE ids

\* mark_seen
MarkSeen(ids, e) == Evict(MoveToEnd(Insert(ids, e), e))

\* seen: the combined check-and-record form
SeenOrRecord(ids, e) ==
    IF IsSeen(ids, e) THEN MoveToEnd(ids, e) ELSE Evict(Append(ids, e))
=============================================================================
