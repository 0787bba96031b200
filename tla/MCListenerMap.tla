---------------------------- MODULE MCListenerMap ----------------------------
(***************************************************************************)
(* TLC instance of ListenerMap: two listeners of one card for two events   *)
(* with one key, a third of another card for the first event, and a fourth *)
(* with the key of the first, for an event between the two.                *)
(***************************************************************************)
EXTENDS ListenerMap

CONSTANTS a, b, c, d

MCType == [l \in Listener |-> IF l = b THEN 3 ELSE IF l = d THEN 2 ELSE 1]
MCCard == [l \in Listener |-> IF l = c THEN 2 ELSE 1]
MCPrio == [l \in Listener |-> 0]
=============================================================================
