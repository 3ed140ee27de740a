--------------------------- MODULE MCDisplayMenu ---------------------------
(* The menu with two schedules, the second of which has no zone. *)
EXTENDS DisplayMenu

MCZonesLen == [s \in 0 .. 1 |-> IF s = 0 THEN 1 ELSE 0]
=============================================================================
