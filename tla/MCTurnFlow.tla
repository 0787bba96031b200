----------------------------- MODULE MCTurnFlow -----------------------------
(***************************************************************************)
(* TLC instances of TurnFlow.  The roles are those game.cpp gives to 3, 4  *)
(* and 5 players; the first seat is that of the first player, for seats    *)
(* differ only in their order.                                             *)
(***************************************************************************)
EXTENDS TurnFlow

Deal3 == <<"deputy_3p", "outlaw_3p", "renegade_3p">>
Deals3 == {Deal3, <<"deputy_3p", "renegade_3p", "outlaw_3p">>}

\* Bone Orchard shuffles the roles of the dead: the other deals come up.
Deals4 == {<<"sheriff", "outlaw", "renegade", "outlaw">>}

Deals5 == {<<"sheriff", "outlaw", "renegade", "outlaw", "deputy">>}

GamesOf(deals, cards, maxHit) ==
  [deal : deals, cards : {cards}, maxHit : {maxHit}]

\* The base game; the ghosts and extra turns, in games that keep apart what lets
\* a ghost stay, and in one that does not; the scenario cards that kill and
\* revive; the Wild West Show, whose game goes on without its sheriff; the
\* cards that move turns; the turn that comes back to the player in jail; and
\* Mirage in the middle of a volley, before the verdicts on its victims.
SafetyGames ==
  GamesOf(Deals3, {"jail", "dynamite"}, 3)
    \cup GamesOf(Deals5, {"jail", "dynamite"}, 3)
    \cup GamesOf({Deal3}, {"gold_rush", "ghost_town", "ghost"}, 2)
    \cup GamesOf({Deal3}, {"jail", "gold_rush", "ghost_town", "ghost"}, 2)
    \cup GamesOf({Deal3}, {"ghost_town", "dead_man", "fistful", "don_bell"}, 2)
    \cup GamesOf(Deals4, {"bone_orchard", "wild_west_show"}, 2)
    \cup GamesOf(Deals3, {"jail", "mirage", "invert_rotation", "rosa"}, 1)
    \cup GamesOf({Deal3}, {"jail", "gold_rush", "rosa"}, 1)
    \cup GamesOf({Deal3}, {"mirage", "bone_orchard", "wild_west_show"}, 2)
    \cup GamesOf({Deal3}, {"mirage", "ghost_town", "dead_man"}, 2)
    \cup GamesOf(Deals4, {"mirage", "dead_man"}, 2)
    \cup GamesOf(Deals5, {"jail", "mirage"}, 2)

LiveGames == GamesOf(Deals3, {"jail", "ghost_town", "don_bell", "mirage"}, 2)
=============================================================================
