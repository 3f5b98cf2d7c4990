------------------------------ MODULE MCLease -------------------------------
(***************************************************************************)
(* The shipped proportions, in units of 5 s: a TTL of 60 s, a window of    *)
(* 300, a floor of 3 (rounded up).  Clocks behind a little, alike, and     *)
(* ahead as far as the window allows with quick calls and further with slow*)
(* ones.  NO_EXPIRY_HEALTHCHECK_SECONDS is not to scale: its wake is to be *)
(* reached within MaxTime.                                                 *)
(***************************************************************************)
EXTENDS Lease

MCSkews == {-2, 0, 59}
MCLatencies == {1, 2}
=============================================================================
