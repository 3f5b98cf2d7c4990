--------------------------- MODULE MCDedupWindow ----------------------------
(* Four ids against a dictionary of two: every id can be pushed out and come *)
(* back, and a hit can save the id that was next to go.                      *)
EXTENDS DedupWindow
=============================================================================
