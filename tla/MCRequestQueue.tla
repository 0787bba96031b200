--------------------------- MODULE MCRequestQueue ---------------------------
(***************************************************************************)
(* TLC instances of RequestQueue: an action, a request without timer, one  *)
(* with a timer and one whose timer has no duration.                       *)
(***************************************************************************)
EXTENDS RequestQueue

CONSTANTS action, plain, timed, instant

MCPriority == [r \in Request |-> IF r = action THEN 0 ELSE 1]
MCDuration == [r \in Request |-> IF r = timed THEN 1 ELSE 0]
=============================================================================
