---------------------------- MODULE MCStationBoard ----------------------------
(* Two units, two heuristics and a malformed one, two requests at once.       *)
EXTENDS StationBoard

CONSTANTS u1, u2
===============================================================================
