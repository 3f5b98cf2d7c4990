-------------------------- MODULE MCAgentDelivery ---------------------------
(***************************************************************************)
(* Two events on two connections, so that both may be in a handler at once *)
(* and be committed in either order, and the same event may be on both; a  *)
(* dedup dictionary that holds both.  MaxWakes is what the connections of  *)
(* a process and of its successor can start at most.                       *)
(***************************************************************************)
EXTENDS AgentDelivery, TLC

Positions == 0..MaxEvents
Secrets == 0..MaxCrashes
Symmetry == Permutations(Conn)
=============================================================================
