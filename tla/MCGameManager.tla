--------------------------- MODULE MCGameManager ---------------------------
(***************************************************************************)
(* TLC instances of GameManager.                                           *)
(***************************************************************************)
EXTENDS GameManager, TLC

\* The sessions are interchangeable: nothing orders or names them.
SessionSymmetry == Permutations(Session)
=============================================================================
