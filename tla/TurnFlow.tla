------------------------------ MODULE TurnFlow ------------------------------
(***************************************************************************)
(* Turns, deaths and victory: src/src/game/game.cpp (start_next_turn,      *)
(* handle_player_death, send_request_status_ready), src/src/game/player.cpp*)
(* and the requests and cards that end turns, kill and revive.             *)
(*                                                                         *)
(* Every step of a turn or of a death is a request or an action in the     *)
(* queue of RequestQueue; here the queue is the sequence in which they     *)
(* will run, and each action of the model runs the one on top.  Whether a  *)
(* player holds cards is all that is kept of them: what a card does to the *)
(* flow is a choice of the player, of the deck, or of a draw!.             *)
(***************************************************************************)
EXTENDS Integers, Sequences, FiniteSets, SequencesExt

CONSTANTS
  Games,     \* the games that may be started, records [deal, cards, maxHit]:
             \*   the roles in the order of the seats, the cards in play that
             \*   change the flow, and a bound of the model, the number of
             \*   players hurt by one play
  MaxHp,     \* hit points of a character
  None

\* The roles of start_game for more than three players, and for three.
LargeRole == {"sheriff", "outlaw", "renegade", "deputy"}
Role == LargeRole \cup {"deputy_3p", "outlaw_3p", "renegade_3p"}

\* Cards drawn by the first player at the beginning of their turn, and those
\* drawn with changewws.
ScenarioCards == {"ghost_town", "dead_man", "invert_rotation", "fistful"}
WildWestCards == {"bone_orchard", "rosa", "wild_west_show"}
AllCards == ScenarioCards \cup WildWestCards
              \cup {"jail", "dynamite", "mirage", "don_bell", "gold_rush", "ghost"}

\* lobby_max_players
MaxPlayers == 8

ASSUME TurnFlowAssumption ==
  /\ \A g \in Games :
       /\ g.deal \in Seq(Role) /\ Len(g.deal) \in 3 .. MaxPlayers
       /\ \E p \in DOMAIN g.deal : g.deal[p] \in {"sheriff", "deputy_3p"}
       /\ Len(g.deal) > 3 =>
            /\ \A p \in DOMAIN g.deal : g.deal[p] \in LargeRole
            /\ \E p \in DOMAIN g.deal : g.deal[p] = "sheriff"
            /\ \E p \in DOMAIN g.deal : g.deal[p] \in {"outlaw", "renegade"}
       /\ g.cards \subseteq AllCards
       /\ g.maxHit \in Nat \ {0}
  /\ MaxHp \in Nat \ {0}
  /\ None \notin 1 .. MaxPlayers /\ \A S \in SUBSET (1 .. MaxPlayers) : S # None
  /\ None \notin AllCards

VARIABLES
  game,      \* the game that was started; it never changes
  queue,     \* m_requests, the top first
  playing,   \* m_playing
  first,     \* m_first_player
  order,     \* m_players
  roles,     \* m_role
  flags,     \* dead, temp_ghost, ghost, extra_turn and skip_turn of each player
  hp,        \* m_hp
  holds,     \* the players with cards in their hand or on their table
  extra,     \* m_extra_turns
  scenario,  \* the card on m_scenario_cards; None: one without a part here
  deck,      \* m_scenario_deck
  wws,       \* the card on m_wws_scenario_cards
  wwsDeck,   \* m_wws_scenario_deck
  used,      \* the usage of the card wws is spent in this turn
  firstDead, \* get_first_dead_player
  winners    \* the winners, when game_over is set

playerVars == <<roles, flags, hp, holds, extra>>
tableVars == <<game, order, scenario, deck, wws, wwsDeck, used>>
vars == <<queue, playing, first, playerVars, tableVars, firstDead, winners>>

Cards == game.cards
N == Len(game.deal)
Player == 1 .. N

(***************************************************************************)
(* Requests and actions.                                                   *)
(***************************************************************************)

\* Mutant: the bangs of A Fistful of Cards have the priority of other requests.
BangPriorityDefault == 100

\* Below that of a death: a dead player gets no more of them.
BangPriority == -1

\* Mutant: the ghosts of Ghost Town leave after the next turn has begun.
GhostEndPriorityLast == -11

GhostEndPriority == -5

Priority ==
  [damage |-> 200, discard_pass |-> 200, discard_all |-> 100, check |-> 100,
   death |-> 50, eliminate |-> 50, reward |-> 50, bury |-> 50,
   pass |-> 1, start |-> 0, skip |-> 0, bang |-> BangPriority,
   sheriff_discard |-> -2, verdict |-> -4, ghost_end |-> GhostEndPriority,
   end_turn |-> -5, predraw |-> -7, jail |-> -7, draw |-> -7,
   pre_turn |-> -10, turn_start |-> -10]

\* A request for player p; of player q: the origin of a hit, or a killer.
Request(kind, p, q) == [kind |-> kind, who |-> p, by |-> q]

\* queue_request, queue_action: behind everything of the same priority.
Ahead(q, r) == Cardinality({i \in DOMAIN q : Priority[q[i].kind] >= Priority[r.kind]})

\* The same request n times.
EnqueueTimes(q, r, n) ==
  SubSeq(q, 1, Ahead(q, r)) \o [i \in 1 .. n |-> r] \o SubSeq(q, Ahead(q, r) + 1, Len(q))

Enqueue(q, r) == EnqueueTimes(q, r, 1)

\* The request or action on top, and what is left when it is popped.
Top(kind) == winners = None /\ queue # <<>> /\ Head(queue).kind = kind
who == Head(queue).who
by == Head(queue).by
Popped == Tail(queue)

(***************************************************************************)
(* Players.                                                                *)
(***************************************************************************)

AliveWith(f) == "dead" \notin f \/ f \cap {"ghost", "temp_ghost"} # {}
Alive(p) == AliveWith(flags[p])
IsGhost(p) == "dead" \in flags[p] /\ Alive(p)
AlivePlayers == {p \in Player : Alive(p)}

\* Mutant: the seats are counted from the first player.
PositionOfFirst(p) == CHOOSE i \in Player : order[i] = first

PositionOf(p) == CHOOSE i \in Player : order[i] = p

\* The player n seats after p, or before.
Seat(p, n) == order[((PositionOf(p) - 1 + n) % N) + 1]

NearestAlive(p, direction) ==
  LET n == CHOOSE n \in 1 .. N :
             /\ Alive(Seat(p, direction * n))
             /\ \A k \in 1 .. n - 1 : ~Alive(Seat(p, direction * k))
  IN Seat(p, direction * n)

Direction == IF scenario = "invert_rotation" THEN -1 ELSE 1

(***************************************************************************)
(* Turns.                                                                  *)
(***************************************************************************)

StartOfTurn(p, q) ==
  /\ playing' = p
  /\ queue' = Enqueue(Enqueue(q, Request("pre_turn", p, None)),
                      Request("turn_start", p, None))

\* check_revivers: Ghost Town, Dead Man and, after them, Bone Orchard.
Reviver(p) ==
  CASE Alive(p) -> None
    [] ~Alive(p) /\ scenario = "ghost_town" -> "ghost_town"
    [] ~Alive(p) /\ scenario = "dead_man" /\ firstDead = p -> "dead_man"
    [] OTHER -> IF wws = "bone_orchard" THEN "bone_orchard" ELSE None

\* The roles of the dead, shuffled.
Shuffled(dead) ==
  {r \in [Player -> Role] :
     \E f \in [dead -> dead] :
       /\ {f[d] : d \in dead} = dead
       /\ r = [p \in Player |-> IF p \in dead THEN roles[f[p]] ELSE roles[p]]}

Revive(p, f) ==
  LET reviver == Reviver(p)
  IN CASE reviver = None -> flags' = f /\ UNCHANGED <<roles, hp, holds>>
       [] reviver = "ghost_town" ->
            /\ flags' = [f EXCEPT ![p] = @ \cup {"temp_ghost"}]
            /\ UNCHANGED <<roles, hp, holds>>
       [] reviver = "dead_man" ->
            /\ flags' = [f EXCEPT ![p] = @ \ {"dead"}]
            /\ hp' = [hp EXCEPT ![p] = 2]
            /\ holds' = holds \cup {p}
            /\ UNCHANGED roles
       [] reviver = "bone_orchard" ->
            /\ flags' = [f EXCEPT ![p] = @ \ {"dead"}]
            /\ hp' = [hp EXCEPT ![p] = 1]
            /\ roles' \in Shuffled(Player \ AlivePlayers)
            /\ UNCHANGED holds

\* draw_scenario_card, when it is the turn of the first player: any card of
\* the deck, or one that has no part here; A Fistful of Cards is the last.
\* The listeners of the card it covers are removed, those of Dead Man once it
\* revived someone.
SwitchTurn(p) ==
  LET current == IF Reviver(p) = "dead_man" THEN None ELSE scenario
  IN IF p = first /\ current # "fistful"
     THEN /\ scenario' \in deck \cup {None}
          /\ deck' = IF scenario' = "fistful" THEN {} ELSE deck \ {scenario'}
     ELSE scenario' = current /\ UNCHANGED deck

\* start_next_turn: from seat to seat until a player who is not skipped is,
\* or comes back, alive; f is m_player_flags at the call, q the queue.
StartNextTurn(f, q) ==
  LET SeatAt(n) == Seat(playing, Direction * n)
      Skipped(n) == n <= N /\ "skip_turn" \in f[SeatAt(n)]
      Takes(n) == ~Skipped(n) /\ (Alive(SeatAt(n)) \/ Reviver(SeatAt(n)) # None)
      n0 == CHOOSE n \in 1 .. 2 * N :
              Takes(n) /\ \A k \in 1 .. n - 1 : ~Takes(k)
      next == IF playing = None THEN first ELSE SeatAt(n0)
      passed == IF playing = None THEN {}
                ELSE {SeatAt(n) : n \in 1 .. (IF n0 <= N THEN n0 - 1 ELSE N)}
  IN IF AlivePlayers = {}
     THEN /\ flags' = f
          /\ queue' = q
          /\ UNCHANGED <<playing, roles, hp, holds, scenario, deck>>
     ELSE /\ Revive(next, [p \in Player |->
                             IF p \in passed THEN f[p] \ {"skip_turn"} ELSE f[p]])
          /\ StartOfTurn(next, q)
          /\ SwitchTurn(next)

\* on_turn_end: Don Bell draws for another turn (once), Ghost Town takes its
\* ghost back.
OnTurnEnd(p, skipped, q) ==
  LET checked == IF ~skipped /\ "don_bell" \in Cards /\ "extra_turn" \notin flags[p]
                 THEN Enqueue(q, Request("check", p, None)) ELSE q
  IN IF scenario = "ghost_town"
     THEN Enqueue(checked, Request("ghost_end", p, None)) ELSE checked

\* pass_turn, of a player with no more cards than allowed.
PassWithoutDiscard(p, q) ==
  /\ queue' = Enqueue(OnTurnEnd(p, FALSE, q), Request("end_turn", p, None))
  /\ used' = FALSE

\* pass_turn: cards have to be discarded first, or the turn ends.
PassTurn(p, q) ==
  \/ /\ p \in holds
     /\ queue' = Enqueue(q, Request("discard_pass", p, None))
     /\ UNCHANGED used
  \/ PassWithoutDiscard(p, q)

\* skip_turn; q without the request that caused it.
SkipTurn(p, q) ==
  /\ StartNextTurn([flags EXCEPT ![p] = @ \ {"extra_turn"}], OnTurnEnd(p, TRUE, q))
  /\ used' = FALSE

(***************************************************************************)
(* The steps of a turn.                                                    *)
(***************************************************************************)

Init ==
  /\ game \in Games
  /\ queue = <<Request("start", None, None)>>
  /\ playing = None
  /\ roles = game.deal
  /\ order = [p \in Player |-> p]
  /\ first \in {p \in Player : roles[p] \in {"sheriff", "deputy_3p"}}
  /\ flags = [p \in Player |-> {}]
  /\ hp = [p \in Player |-> MaxHp]
  /\ holds = Player
  /\ extra = [p \in Player |-> 0]
  /\ scenario = None
  /\ deck = Cards \cap ScenarioCards
  /\ wws = None
  /\ wwsDeck = Cards \cap WildWestCards
  /\ used = FALSE
  /\ firstDead = None
  /\ winners = None

\* The last action of start_game.
Start ==
  /\ Top("start")
  /\ StartNextTurn(flags, Popped)
  /\ UNCHANGED <<game, first, order, extra, wws, wwsDeck, used, firstDead, winners>>

\* pre_turn_start; A Fistful of Cards bangs as often as the player has cards.
PreTurn ==
  /\ Top("pre_turn")
  /\ \E bangs \in IF scenario = "fistful" /\ who \in holds THEN 1 .. game.maxHit ELSE {0} :
       queue' = Enqueue(EnqueueTimes(Popped, Request("bang", who, None), bangs),
                        Request("predraw", who, None))
  /\ UNCHANGED <<playing, first, playerVars, tableVars, firstDead, winners>>

InTurn(p) == Alive(p) /\ playing = p

\* request_predraw: first the dynamite on the player's table, then the jail.
Predraw ==
  /\ Top("predraw")
  /\ \/ queue' = Popped
     \/ /\ InTurn(who)
        /\ who \in holds
        /\ \/ /\ "dynamite" \in Cards
              /\ queue' = <<Request("damage", who, None),
                            Request("jail", who, None)>> \o Popped
           \/ /\ "jail" \in Cards
              /\ queue' = <<Request("jail", who, None)>> \o Popped
  /\ UNCHANGED <<playing, first, playerVars, tableVars, firstDead, winners>>

\* The jail's draw!: the player breaks out, or the turn is skipped.
Jail ==
  /\ Top("jail")
  /\ \/ /\ queue' = Popped
        /\ UNCHANGED <<playing, playerVars, scenario, deck, used>>
     \/ /\ InTurn(who)
        /\ who \in holds
        /\ "jail" \in Cards
        /\ roles[who] # "sheriff"
        /\ SkipTurn(who, Popped)
        /\ UNCHANGED extra
  /\ UNCHANGED <<game, first, order, wws, wwsDeck, firstDead, winners>>

\* Mutant: the player may have lost the turn in the meantime.
TurnStartUnchecked ==
  /\ Top("turn_start")
  /\ queue' = Enqueue(Popped, Request("draw", who, None))
  /\ UNCHANGED <<playing, first, playerVars, tableVars, firstDead, winners>>

\* on_turn_start
TurnStart ==
  /\ Top("turn_start")
  /\ queue' = IF InTurn(who) THEN Enqueue(Popped, Request("draw", who, None)) ELSE Popped
  /\ UNCHANGED <<playing, first, playerVars, tableVars, firstDead, winners>>

\* request_draw
Draw ==
  /\ Top("draw")
  /\ queue' = Popped
  /\ holds' = IF InTurn(who) THEN holds \cup {who} ELSE holds
  /\ UNCHANGED <<playing, first, roles, flags, hp, extra, tableVars, firstDead, winners>>

DiscardPass ==
  /\ Top("discard_pass")
  /\ queue' = Enqueue(Popped, Request("pass", who, None))
  /\ UNCHANGED <<playing, first, playerVars, tableVars, firstDead, winners>>

\* Enough cards were discarded.
PassAgain ==
  /\ Top("pass")
  /\ PassWithoutDiscard(who, Popped)
  /\ UNCHANGED <<playing, first, playerVars, game, order, scenario, deck, wws, wwsDeck,
                 firstDead, winners>>

\* Don Bell's draw!
Check ==
  /\ Top("check")
  /\ queue' = Popped
  /\ extra' \in {extra, [extra EXCEPT ![who] = @ + 1]}
  /\ UNCHANGED <<playing, first, roles, flags, hp, holds, tableVars, firstDead, winners>>

\* Mutant: m_extra_turns-- == 0
EndTurnCounts ==
  /\ Top("end_turn")
  /\ extra' = [extra EXCEPT ![who] = @ - 1]
  /\ IF extra[who] = 0
     THEN StartNextTurn([flags EXCEPT ![who] = @ \ {"extra_turn"}], Popped)
     ELSE /\ flags' = [flags EXCEPT ![who] = @ \cup {"extra_turn"}]
          /\ StartOfTurn(who, Popped)
          /\ UNCHANGED <<roles, hp, holds, scenario, deck>>
  /\ UNCHANGED <<game, first, order, wws, wwsDeck, used, firstDead, winners>>

\* Mutant: an extra turn is not marked.
EndTurnUnmarked ==
  /\ Top("end_turn")
  /\ IF extra[who] = 0
     THEN StartNextTurn(flags, Popped) /\ UNCHANGED extra
     ELSE /\ extra' = [extra EXCEPT ![who] = @ - 1]
          /\ StartOfTurn(who, Popped)
          /\ UNCHANGED <<flags, roles, hp, holds, scenario, deck>>
  /\ UNCHANGED <<game, first, order, wws, wwsDeck, used, firstDead, winners>>

\* The action pass_turn leaves behind.
EndTurn ==
  /\ Top("end_turn")
  /\ IF extra[who] = 0
     THEN /\ StartNextTurn([flags EXCEPT ![who] = @ \ {"extra_turn"}], Popped)
          /\ UNCHANGED extra
     ELSE /\ extra' = [extra EXCEPT ![who] = @ - 1]
          /\ flags' = [flags EXCEPT ![who] = @ \cup {"extra_turn"}]
          /\ StartOfTurn(who, Popped)
          /\ UNCHANGED <<roles, hp, holds, scenario, deck>>
  /\ UNCHANGED <<game, first, order, wws, wwsDeck, used, firstDead, winners>>

\* The action Mirage leaves behind.
Skip ==
  /\ Top("skip")
  /\ SkipTurn(who, Popped)
  /\ UNCHANGED <<game, first, extra, order, wws, wwsDeck, firstDead, winners>>

(***************************************************************************)
(* Hits, deaths and victory.                                               *)
(***************************************************************************)

\* request_bang of A Fistful of Cards: missed or not.
Bang ==
  /\ Top("bang")
  /\ \/ queue' = Popped
     \/ Alive(who) /\ queue' = Enqueue(Popped, Request("damage", who, None))
  /\ UNCHANGED <<playing, first, playerVars, tableVars, firstDead, winners>>

\* request_damage; ghosts cannot be hurt.
Damage ==
  /\ Top("damage")
  /\ IF IsGhost(who)
     THEN queue' = Popped /\ UNCHANGED hp
     ELSE /\ hp' = [hp EXCEPT ![who] = @ - 1]
          /\ queue' = Enqueue(Popped, Request("death", who, by))
  /\ UNCHANGED <<playing, first, roles, flags, holds, extra, tableVars, firstDead, winners>>

Credited(killer) == IF killer = playing THEN killer ELSE None

\* Mutant: a player who dies in the turn of another keeps the cards.
BuryOnlyKilled(target, killer, q) ==
  LET credited == Credited(killer)
      out == Enqueue(q, Request("eliminate", target, credited))
      gone == IF credited # None
              THEN Enqueue(Enqueue(out, Request("reward", target, credited)),
                           Request("bury", target, None))
              ELSE out
  IN Enqueue(gone, Request("verdict", target, credited))

\* Mutant: no verdict when nobody is credited with the death.
NoVerdictWithoutKiller(target, killer, q) ==
  LET credited == Credited(killer)
      out == Enqueue(q, Request("eliminate", target, credited))
      paid == IF credited # None
              THEN Enqueue(out, Request("reward", target, credited)) ELSE out
      gone == Enqueue(paid, Request("bury", target, None))
  IN IF credited # None THEN Enqueue(gone, Request("verdict", target, credited)) ELSE gone

\* handle_player_death: what it queues.  Only the player whose turn it is gets
\* a reward.
HandlePlayerDeath(target, killer, q) ==
  LET credited == Credited(killer)
      out == Enqueue(q, Request("eliminate", target, credited))
      paid == IF credited # None
              THEN Enqueue(out, Request("reward", target, credited)) ELSE out
  IN Enqueue(Enqueue(paid, Request("bury", target, None)),
             Request("verdict", target, credited))

\* request_death: the player is saved by a card, or dies.
Death ==
  /\ Top("death")
  /\ IF hp[who] <= 0 /\ "dead" \notin flags[who]
     THEN \/ /\ who \in holds
             /\ hp' = [hp EXCEPT ![who] = 1]
             /\ queue' = Popped
          \/ /\ queue' = HandlePlayerDeath(who, by, Popped)
             /\ UNCHANGED hp
     ELSE queue' = Popped /\ UNCHANGED hp
  /\ UNCHANGED <<playing, first, roles, flags, holds, extra, tableVars, firstDead, winners>>

\* on_player_eliminated: Dead Man remembers the first.
Eliminate ==
  /\ Top("eliminate")
  /\ queue' = Popped
  /\ IF hp[who] <= 0
     THEN /\ flags' = [flags EXCEPT ![who] = @ \cup {"dead"}]
          /\ hp' = [hp EXCEPT ![who] = 0]
     ELSE UNCHANGED <<flags, hp>>
  /\ firstDead' = IF firstDead = None /\ ~AliveWith(flags'[who]) THEN who ELSE firstDead
  /\ UNCHANGED <<playing, first, roles, holds, extra, tableVars, winners>>

\* Three cards for the killer of an outlaw; a sheriff who killed a deputy
\* discards everything.
Reward ==
  LET roleOf == roles[who]
      prize == IF N > 3 THEN roleOf = "outlaw"
               ELSE <<roleOf, roles[by]>> \in {<<"deputy_3p", "renegade_3p">>,
                                               <<"outlaw_3p", "deputy_3p">>,
                                               <<"renegade_3p", "outlaw_3p">>}
      penalty == N > 3 /\ roleOf = "deputy" /\ roles[by] = "sheriff"
      due == Alive(by) /\ ~Alive(who)
  IN /\ Top("reward")
     /\ holds' = IF due /\ prize THEN holds \cup {by} ELSE holds
     /\ queue' = IF due /\ penalty
                 THEN Enqueue(Popped, Request("sheriff_discard", by, None)) ELSE Popped
     /\ UNCHANGED <<playing, first, roles, flags, hp, extra, tableVars, firstDead, winners>>

Bury ==
  /\ Top("bury")
  /\ queue' = IF Alive(who) THEN Popped
              ELSE Enqueue(Popped, Request("discard_all", who, None))
  /\ UNCHANGED <<playing, first, playerVars, tableVars, firstDead, winners>>

\* request_discard_all; on_disable of a Ghost that is discarded.
DiscardAll ==
  LET f == [flags EXCEPT ![who] = @ \ {"ghost"}]
  IN /\ Top("discard_all") \/ Top("sheriff_discard")
     /\ holds' = holds \ {who}
     /\ flags' = f
     /\ queue' = IF "ghost" \in flags[who] /\ ~AliveWith(f[who])
                 THEN HandlePlayerDeath(who, None, Popped) ELSE Popped
     /\ UNCHANGED <<playing, first, roles, hp, extra, tableVars, firstDead, winners>>

\* The ghosts of Ghost Town leave when their last turn ends.
GhostEnd ==
  LET f == [flags EXCEPT ![who] = @ \ {"temp_ghost"}]
      leaves == extra[who] = 0 /\ "temp_ghost" \in flags[who]
  IN /\ Top("ghost_end")
     /\ flags' = IF leaves THEN f ELSE flags
     /\ queue' = IF leaves /\ ~AliveWith(f[who])
                 THEN HandlePlayerDeath(who, None, Popped) ELSE Popped
     /\ UNCHANGED <<playing, first, roles, hp, holds, extra, tableVars, firstDead, winners>>

Team(S) == {p \in Player : roles[p] \in S}
FreeForAll == wws = "wild_west_show"

\* Who wins now; None if nobody does.
Winners ==
  CASE FreeForAll \/ N <= 3 ->
         IF Cardinality(AlivePlayers) <= 1 THEN AlivePlayers
         ELSE IF /\ ~FreeForAll /\ by # None /\ ~Alive(who)
                 /\ <<roles[who], roles[by]>> \in {<<"outlaw_3p", "renegade_3p">>,
                                                   <<"renegade_3p", "deputy_3p">>,
                                                   <<"deputy_3p", "outlaw_3p">>}
         THEN {by} ELSE None
    [] OTHER ->
         IF AlivePlayers \cap Team({"sheriff"}) = {}
         THEN IF Cardinality(AlivePlayers) = 1 /\ AlivePlayers \subseteq Team({"renegade"})
              THEN AlivePlayers ELSE Team({"outlaw"})
         ELSE IF AlivePlayers \subseteq Team({"sheriff", "deputy"})
         THEN Team({"sheriff", "deputy"}) ELSE None

\* The last action of a death: the first player changes, the game ends.
Verdict ==
  /\ Top("verdict")
  /\ first' = IF who = first /\ ~Alive(who) /\ Cardinality(AlivePlayers) > 1
              THEN NearestAlive(who, 1) ELSE first
  /\ winners' = Winners
  /\ queue' = Popped
  /\ UNCHANGED <<playing, playerVars, tableVars, firstDead>>

(***************************************************************************)
(* Nothing is queued: send_request_status_ready, and the moves of the      *)
(* player whose turn it is.                                                *)
(***************************************************************************)

AtRest == winners = None /\ queue = <<>>

\* The player died: the next one's turn.
ReadyDead ==
  /\ AtRest
  /\ ~Alive(playing)
  /\ StartNextTurn(flags, queue)
  /\ UNCHANGED <<game, first, order, extra, wws, wwsDeck, used, firstDead, winners>>

Ready == AtRest /\ Alive(playing)

\* The player passes, or can do nothing else.
Pass ==
  /\ Ready
  /\ PassTurn(playing, queue)
  /\ UNCHANGED <<playing, first, playerVars, game, order, scenario, deck, wws, wwsDeck,
                 firstDead, winners>>

Hits(S) == [i \in 1 .. Cardinality(S) |-> Request("damage", SetToSeq(S)[i], playing)]

\* A play hurts some players, each of them once.
Hit(S) ==
  /\ Ready
  /\ queue' = Hits(S)
  /\ UNCHANGED <<playing, first, playerVars, tableVars, firstDead, winners>>

\* And another answers with Mirage: the turn is skipped when the hits and what
\* they did to cards and lives are over, but not yet the verdicts.
Mirage(S) ==
  /\ Ready
  /\ "mirage" \in Cards
  /\ \E p \in AlivePlayers : p \notin S /\ p # playing
  /\ queue' = Enqueue(Hits(S), Request("skip", playing, None))
  /\ UNCHANGED <<playing, first, playerVars, tableVars, firstDead, winners>>

\* Hand and table are used up.
UseCards ==
  /\ Ready
  /\ playing \in holds
  /\ "ghost" \notin flags[playing]
  /\ holds' = holds \ {playing}
  /\ UNCHANGED <<queue, playing, first, roles, flags, hp, extra, tableVars, firstDead, winners>>

\* An extra turn is bought; the model counts one at a time.
GoldRush ==
  /\ Ready
  /\ "gold_rush" \in Cards
  /\ extra[playing] = 0
  /\ extra' = [extra EXCEPT ![playing] = 1]
  /\ UNCHANGED <<queue, playing, first, roles, flags, hp, holds, tableVars, firstDead, winners>>

\* equip_ghost on a dead player.
PlayGhost(p) ==
  /\ Ready
  /\ "ghost" \in Cards
  /\ \A q \in Player : "ghost" \notin flags[q]
  /\ ~Alive(p)
  /\ flags' = [flags EXCEPT ![p] = @ \cup {"ghost"}]
  /\ holds' = holds \cup {p}
  /\ UNCHANGED <<queue, playing, first, roles, hp, extra, tableVars, firstDead, winners>>

\* The Ghost is discarded or stolen.
LoseGhost(p) ==
  LET f == [flags EXCEPT ![p] = @ \ {"ghost"}]
  IN /\ Ready
     /\ "ghost" \in flags[p]
     /\ flags' = f
     /\ queue' = IF AliveWith(f[p]) THEN queue ELSE HandlePlayerDeath(p, None, queue)
     /\ UNCHANGED <<playing, first, roles, hp, holds, extra, tableVars, firstDead, winners>>

\* changewws; Wild West Show is the last.
ChangeWws(card) ==
  /\ Ready
  /\ wwsDeck # {}
  /\ wws' = card
  /\ wwsDeck' = IF card = "wild_west_show" THEN {} ELSE wwsDeck \ {card}
  /\ used' = FALSE
  /\ UNCHANGED <<queue, playing, first, playerVars, game, order, scenario, deck, firstDead, winners>>

\* Lady Rosa of Texas: the player changes places with the one before, who
\* skips a turn; once per turn.
LadyRosa ==
  LET target == NearestAlive(playing, -Direction)
  IN /\ Ready
     /\ wws = "rosa"
     /\ ~used
     /\ Cardinality(AlivePlayers) > 2
     /\ used' = TRUE
     /\ flags' = [flags EXCEPT ![target] = @ \cup {"skip_turn"}]
     /\ order' = [order EXCEPT ![PositionOf(playing)] = target,
                               ![PositionOf(target)] = playing]
     /\ UNCHANGED <<queue, playing, first, roles, hp, holds, extra, game, scenario,
                    deck, wws, wwsDeck, firstDead, winners>>

\* The game is over: requests are not updated any more.
GameOver == winners # None /\ UNCHANGED vars

Engine ==
  \/ Start \/ PreTurn \/ Predraw \/ Jail \/ TurnStart \/ Draw
  \/ DiscardPass \/ PassAgain \/ Check \/ EndTurn \/ Skip
  \/ Bang \/ Damage \/ Death \/ Eliminate \/ Reward \/ Bury \/ DiscardAll
  \/ GhostEnd \/ Verdict
  \/ ReadyDead

Play ==
  \/ \E S \in SUBSET AlivePlayers :
       Cardinality(S) <= game.maxHit /\ ((S # {} /\ Hit(S)) \/ Mirage(S))
  \/ UseCards
  \/ GoldRush
  \/ \E p \in Player : PlayGhost(p) \/ LoseGhost(p)
  \/ \E card \in wwsDeck \cup {None} : ChangeWws(card)
  \/ LadyRosa

Next == Engine \/ Pass \/ Play \/ GameOver

Spec == Init /\ [][Next]_vars

\* Only the engine can move.
Busy == winners = None /\ (queue # <<>> \/ ~Alive(playing))

\* The engine runs what is queued, and a player whose turn it is passes some
\* time: WF_vars(Engine) and SF_vars(Pass), with what enables them spelt out.
FairSpec ==
  /\ Spec
  /\ []<>(~Busy) \/ []<><<Busy>>_vars
  /\ <>[](~Ready) \/ []<><<Pass>>_vars

(***************************************************************************)
(* Properties.                                                             *)
(***************************************************************************)

\* Every variable has its type.
TypeOK ==
  /\ game \in Games
  /\ queue \in Seq([kind : DOMAIN Priority, who : Player \cup {None}, by : Player \cup {None}])
  /\ playing \in Player \cup {None}
  /\ first \in Player
  /\ order \in [Player -> Player]
  /\ roles \in [Player -> Role]
  /\ flags \in [Player -> SUBSET {"dead", "temp_ghost", "ghost", "extra_turn", "skip_turn"}]
  /\ hp \in [Player -> Int]
  /\ holds \subseteq Player
  /\ extra \in [Player -> Nat]
  /\ scenario \in ScenarioCards \cup {None}
  /\ deck \subseteq ScenarioCards
  /\ wws \in WildWestCards \cup {None}
  /\ wwsDeck \subseteq WildWestCards
  /\ used \in BOOLEAN
  /\ firstDead \in Player \cup {None}
  /\ winners = None \/ winners \subseteq Player

Queued(kind, p) == Cardinality({i \in DOMAIN queue : queue[i].kind = kind /\ queue[i].who = p})

\* A player is eliminated once per death, whatever hits, bangs and ghosts are
\* queued together: rewards and on_player_eliminated are not given twice.
EliminatedOnce == \A p \in Player : Queued("eliminate", p) <= 1

\* The steps of a turn, up to its start and at its end.
TurnSteps == {"pre_turn", "predraw", "jail", "discard_pass", "pass", "end_turn", "skip"}

\* The game is played without one of the two cards that bring a turn lost in
\* jail back to the player in jail.
KeptApart == ~ ({"jail", "rosa"} \subseteq Cards)

\* There is one turn at a time, at one of its steps, though turns are skipped,
\* lost by death and begun again while what others queued is still waiting;
\* and one draw at most waits, that of the player on turn.  It waits for no
\* check of its turn, but where Lady Rosa makes all others skip theirs: then the
\* next turn of the player in jail begins, and what the lost one left queued
\* draws in it, before that turn is checked and draws again.
OneTurnAtATime ==
  \A i, j \in DOMAIN queue :
    /\ queue[i].kind \in TurnSteps =>
         queue[i].who = playing /\ (queue[j].kind \in TurnSteps => i = j)
    /\ queue[i].kind = "draw" =>
         /\ InTurn(queue[i].who)
         /\ queue[j].kind = "draw" => i = j
         /\ KeptApart /\ queue[j].who = playing => queue[j].kind \notin TurnSteps \cup {"turn_start"}

\* When the players can move, nobody has won without being declared: whatever
\* killed, revived or replaced whom, and in which order.
VictoryNoticed ==
  AtRest /\ playing # None =>
    IF FreeForAll \/ N <= 3 THEN Cardinality(AlivePlayers) > 1
    ELSE /\ AlivePlayers \cap Team({"sheriff"}) # {}
         /\ AlivePlayers \cap Team({"outlaw", "renegade"}) # {}

\* When the players can move, nothing is left to the dead: no cards, and not the place
\* of the first player, on whose turns the scenario cards are drawn.
DeadHoldNothing == AtRest => Alive(first) /\ \A p \in Player : p \in holds => Alive(p)

\* Ghost Town is not played with Mirage, nor with both the jail and a card that
\* gives extra turns.
GhostsApart ==
  \/ "ghost_town" \notin Cards
  \/ "mirage" \notin Cards /\ ("jail" \notin Cards \/ Cards \cap {"gold_rush", "don_bell"} = {})

\* A ghost of Ghost Town is gone before any step of another player's turn,
\* however its own turn ended, in games that keep the cards apart that let it
\* stay: a turn that is skipped does not take a ghost with an extra turn left,
\* and Mirage may revive a first player killed in the same play, whose turn
\* covers Ghost Town with the next scenario card.
GhostsInTurn ==
  GhostsApart /\ (AtRest \/ Top("pre_turn") \/ Top("predraw") \/ Top("turn_start") \/ Top("draw"))
    => \A p \in Player : "temp_ghost" \in flags[p] => p = playing

\* Every turn ends.
TurnsPass ==
  \A p \in 1 .. MaxPlayers : playing = p ~> (playing # p \/ winners # None)

\* Every player who stays alive is on turn again and again.
EveryoneIsOnTurn ==
  \A p \in 1 .. MaxPlayers :
    []<>(playing = p \/ p \notin Player \/ ~Alive(p) \/ winners # None)
=============================================================================
