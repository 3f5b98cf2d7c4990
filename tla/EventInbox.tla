----------------------------- MODULE EventInbox -----------------------------
(***************************************************************************)
(* What the agent and the server promise together, seen from outside: an   *)
(* at-least-once inbox.  Every event of the stream is on offer until it is *)
(* done, that is until work was started for it or it was waived.  Work may *)
(* start more than once, and an event may come on offer again when it is   *)
(* done.  What may not happen is that an event goes off offer undone: only *)
(* an agent that was restarted, or gave up subscribing, may lose one.      *)
(***************************************************************************)
EXTENDS Naturals

CONSTANT Events      \* the stream is 1..Events

VARIABLES emitted,   \* 1..emitted have been emitted
          done,      \* events something was done about
          offered,   \* events that will be delivered, or delivered again
          excused    \* whether events may be lost

vars == <<emitted, done, offered, excused>>

Init == emitted = 0 /\ done = {} /\ offered = {} /\ excused = FALSE

\* A new event: on offer, or waived because nobody has ever subscribed.
Emit ==
    /\ emitted < Events
    /\ emitted' = emitted + 1
    /\ \/ offered' = offered \cup {emitted + 1} /\ UNCHANGED done
       \/ done' = done \cup {emitted + 1} /\ UNCHANGED offered
       \/ excused /\ UNCHANGED <<done, offered>>
    /\ UNCHANGED excused

\* Work is started for an event on offer.
Work == /\ \E e \in offered : done' = done \cup {e}
        /\ UNCHANGED <<emitted, offered, excused>>

\* The sender gives events up, or can no longer replay them.
Waive == /\ done \subseteq done' /\ done' \subseteq 1..emitted
         /\ offered' \subseteq offered
         /\ offered \ offered' \subseteq done'
         /\ UNCHANGED <<emitted, excused>>

\* What is on offer changes: only what is done goes off.
Reoffer == /\ offered' \subseteq 1..emitted
           /\ offered \ offered' \subseteq done
           /\ UNCHANGED <<emitted, done, excused>>

\* The agent is restarted or gives up.
Excuse == /\ excused' = TRUE
          /\ offered' \subseteq 1..emitted
          /\ UNCHANGED <<emitted, done>>

Lose == /\ excused
        /\ offered' \subseteq 1..emitted
        /\ UNCHANGED <<emitted, done, excused>>

Next == Emit \/ Work \/ Waive \/ Reoffer \/ Excuse \/ Lose

Spec == Init /\ [][Next]_vars
=============================================================================
