---------------------------- MODULE MCActivation ----------------------------
(***************************************************************************)
(* One secret and one id: a process publishes one secret in its life.  A   *)
(* grant that parses and one that does not; three faults, so that a retry  *)
(* may fail again after the server lost the subscription.                  *)
(***************************************************************************)
EXTENDS Activation
=============================================================================
