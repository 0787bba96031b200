---------------------------- MODULE MCConnections ----------------------------
(***************************************************************************)
(* TLC instances of Connections.                                           *)
(***************************************************************************)
EXTENDS Connections, TLC

CONSTANTS c1, c2, c3, s1, s2, s3, i1, i2

Symmetry == Permutations(Client) \cup Permutations(Session)
=============================================================================
