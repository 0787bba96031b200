------------------------------ MODULE CardGame ------------------------------
(***************************************************************************)
(* A game at the table: what the engine does with the request on top of    *)
(* the queue, and what the players answer or play.  RequestQueue models    *)
(* the engine and its timers, TurnFlow the turns of a game of many         *)
(* players; here the queue holds the requests of the cards, and a step is  *)
(* the whole of an on_update, of a queued action, of a pick or of a play.  *)
(*                                                                         *)
(* The automatic answers of the program (auto_pick, auto_resolve, the pass *)
(* of a player with nothing to play, the bots) are answers a player may    *)
(* give, and are no actions of their own.                                  *)
(***************************************************************************)
EXTENDS PlayVerify

\* Deals: the tables a run starts from, made with Deal.
CONSTANT Deals

VARIABLE table

\* With Armed & Dangerous: the cubes of the game.
NumCubes == 32

(***************************************************************************)
(* A table before the first turn: game::start_game with the characters     *)
(* chosen.  d gives the cards in each pocket and the bounds.               *)
(***************************************************************************)

Deal(d) ==
  LET seats == d.seats
      P == ToSet(seats)
      places == PublicPockets \cup {<<name, p>> : name \in {"hand", "table", "character", "backup"}, p \in P}
      pile == [place \in places |-> IF place \in DOMAIN d.pile THEN d.pile[place] ELSE <<>>]
      cards == UNION {ToSet(pile[place]) : place \in places}
      at == [c \in cards |-> CHOOSE place \in places : c \in ToSet(pile[place])]
      Vis(c) == CASE at[c][1] = "hand" -> "owner"
                  [] at[c][1] \in {"deck", "backup", "none", "shop_deck", "wws_deck"} -> "hidden"
                  [] OTHER -> "shown"
      FirstOf(p) == Head(pile[CharactersOf(p)])
      Load(c) == CASE \E p \in P : c = FirstOf(p) -> IF Name(c) = "red_ringo" THEN MaxCubes ELSE d.load[1]
                   [] at[c][1] = "table" /\ Color(c) = "orange" -> d.load[2]
                   [] OTHER -> 0
      cubes == [c \in cards |-> IF "rules_ad" \in d.rules THEN Load(c) ELSE 0]
      seen == [v \in P \cup {0} |-> {c \in cards : Vis(c) = "shown" \/ (Vis(c) = "owner" /\ at[c][2] = v)}]
      bare == [pile |-> pile, vis |-> [c \in cards |-> Vis(c)], seen |-> seen, at |-> at,
               tapped |-> {}, seats |-> seats, hp |-> d.hp,
               max |-> [p \in P |-> Sheet[Name(FirstOf(p))].hp],
               gold |-> d.gold, flags |-> [p \in P |-> {}], gflags |-> d.rules,
               cubes |-> cubes,
               bank |-> (IF "rules_ad" \in d.rules THEN NumCubes - MapThenSumSet(LAMBDA c : cubes[c], cards) ELSE 0),
               on |-> [c \in cards |-> 0],
               dis |-> {}, lis |-> <<>>, queue |-> <<>>, rest |-> FALSE, turn |-> None,
               first |-> Head(seats), extra |-> [p \in P |-> 0], last |-> <<None, None>>,
               used |-> [p \in P |-> 0], left |-> d.left, plays |-> d.plays, lost |-> "no", steps |-> 0]
      inPlay == FlattenSeq([i \in DOMAIN seats |-> pile[CharactersOf(seats[i])]])
                \o FlattenSeq([i \in DOMAIN seats |-> pile[TableOf(seats[i])]])
                \o pile[Scenario] \o pile[WildWest]
      set == ForEach(bare, inPlay, LAMBDA a, c : EnableEquip(a, c))
  IN  OnTurnSwitch(StartOfTurn(set, Head(seats)), Head(seats))

(***************************************************************************)
(* The engine: invoke_update on the request on top.                        *)
(***************************************************************************)

\* A queued action pops itself and runs; every table that may result.
ActionKinds ==
  {"suzy_lafayette", "molly_stark", "bart_cassidy", "herb_hunter", "greg_digger", "emiliano",
   "el_gringo", "john_pain", "queue_draw", "heal", "disarm", "mirage", "sacrifice",
   "discard_share", "do_steal", "do_destroy", "before_turn", "begin_turn", "end_turn",
   "pass_turn", "temp_ghost_leaves", "die", "reward", "discard_dead", "remove_dead",
   "victory", "equip", "luckycharm", "refill_shop", "bloody_mary", "julie_cutter",
   "flintlock_back", "flintlock_ends", "bomb_explodes", "bigfifty_ends", "buntline_ends"}

Runs(t, r) ==
  CASE r.kind = "el_gringo" -> ElGringoSteals(t, r)
    [] r.kind = "disarm" -> Disarmed(t, r)
    [] r.kind = "reward" -> Reward(t, r.by, r.who)
    [] r.kind = "victory" -> Victory(t, r.by, r.who)
    [] r.kind = "suzy_lafayette" -> {SuzyLafayette(t, r)}
    [] r.kind = "molly_stark" -> {MollyStarkDraws(t, r)}
    [] r.kind = "bart_cassidy" -> {BartCassidyDraws(t, r)}
    [] r.kind = "herb_hunter" -> {HerbHunterDraws(t, r)}
    [] r.kind = "greg_digger" -> {GregDiggerHeals(t, r)}
    [] r.kind = "emiliano" -> {EmilianoTakes(t, r)}
    [] r.kind = "john_pain" -> {JohnPainTakesCard(t, r)}
    [] r.kind = "luckycharm" -> {LuckyCharmPays(t, r)}
    [] r.kind = "refill_shop" -> {RefillShop(t)}
    [] r.kind = "bloody_mary" -> {BloodyMaryDraws(t, r)}
    [] r.kind = "julie_cutter" -> {JulieCutterDraws(t, r)}
    [] r.kind = "flintlock_back" -> {FlintlockBack(t, r)}
    [] r.kind = "flintlock_ends" -> {FlintlockEnds(t, r)}
    [] r.kind = "bomb_explodes" -> {BombExplodes(t, r)}
    [] r.kind = "bigfifty_ends" -> {BigFiftyEnds(t, r)}
    [] r.kind = "buntline_ends" -> {BuntlineEnds(t, r)}
    [] r.kind = "queue_draw" -> {DrawTo(t, r.who, r.n)}
    [] r.kind = "heal" -> {Heal(t, r.who, 1)}
    [] r.kind = "mirage" -> {MirageEnds(t, r)}
    [] r.kind = "sacrifice" -> {Sacrificed(t, r)}
    [] r.kind = "discard_share" -> {DiscardShare(t)}
    [] r.kind = "do_steal" -> {DoSteal(t, r)}
    [] r.kind = "do_destroy" -> {DoDestroy(t, r)}
    [] r.kind = "before_turn" -> {BeforeTurn(t, r)}
    [] r.kind = "begin_turn" -> {BeginTurn(t, r)}
    [] r.kind = "end_turn" -> {EndTurn(t, r)}
    [] r.kind = "pass_turn" -> {PassTurn(t, r.who)}
    [] r.kind = "temp_ghost_leaves" -> {TempGhostLeaves(t, r)}
    [] r.kind = "die" -> {Die(t, r)}
    [] r.kind = "discard_dead" -> {DiscardDead(t, r)}
    [] r.kind = "remove_dead" -> {RemoveDead(t)}
    [] OTHER -> {Equipped(t, r)}

\* on_update of each request; one without it stays where it is.
Update(t, r) ==
  CASE r.kind = "bang" -> UpdateBang(t, r)
    [] r.kind = "damage" -> UpdateDamage(t, r)
    [] r.kind = "death" -> UpdateDeath(t, r)
    [] r.kind = "duel" -> UpdateDuel(t, r)
    [] r.kind = "indians" -> UpdateIndians(t, r)
    [] r.kind = "generalstore" -> UpdateGeneralStore(t, r)
    [] r.kind \in {"steal", "destroy", "switch", "rust"} -> UpdateTargeting(t, r)
    [] r.kind = "predraw" -> UpdatePredraw(t, r)
    [] r.kind = "check" -> UpdateCheck(t, r)
    [] r.kind = "draw" -> UpdateDraw(t, r)
    [] r.kind = "discard" -> UpdateDiscard(t, r)
    [] r.kind = "discard_pass" -> UpdateDiscardPass(t, r)
    [] r.kind = "discard_hand_pass" -> UpdateDiscardHandPass(t, r)
    [] r.kind = "discard_all" -> UpdateDiscardAll(t, r)
    [] r.kind = "kit_carlson" -> UpdateKitCarlson(t, r)
    [] r.kind = "claus_the_saint" -> UpdateClaus(t, r)
    [] r.kind = "annie_oakey" -> UpdateAnnieOakey(t, r)
    [] r.kind = "vera_custer" -> UpdateVeraCuster(t, r)
    [] r.kind = "newidentity" -> UpdateNewIdentity(t, r)
    [] r.kind = "ranch" -> UpdateRanch(t, r)
    [] r.kind = "darling_valentine" -> UpdateDarling(t, r)
    [] r.kind = "lastwill" -> UpdateLastWill(t, r)
    [] r.kind = "bandidos" -> UpdateBandidos(t, r)
    [] r.kind = "poker_draw" -> UpdatePokerDraw(t, r)
    [] r.kind = "saved" -> UpdateSaved(t, r)
    [] r.kind = "tornado" -> UpdateTornado(t, r)
    [] r.kind = "eva_place" -> UpdateEvaPlace(t, r)
    [] r.kind = "rum" -> UpdateRum(t, r)
    [] r.kind = "dutch_will" -> UpdateDutchWill(t, r)
    [] r.kind = "force_play" -> UpdateForcePlay(t, r)
    [] r.kind = "force_equip" -> UpdateForceEquip(t, r)
    [] r.kind = "add_cube" -> UpdateAddCube(t, r)
    [] OTHER -> Live(t)

Ended(t) == Stopped(t) \/ GameFlag(t, "game_over")
Unsettled == ~Ended(table) /\ Pending(table) /\ ~table.rest
Waits == ~Ended(table) /\ Pending(table) /\ table.rest

\* How many updates commit_updates has run since a player could last do anything.
Stepped(u) ==
  [u EXCEPT !.steps = IF u.rest \/ (~Pending(u) /\ Alive(u, u.turn)) THEN 0 ELSE @ + 1]

RunAction ==
  /\ Unsettled /\ Top(table).kind \in ActionKinds
  /\ table' \in {Stepped(u) : u \in Runs(Pop(table), Top(table))}

UpdateRequest ==
  /\ Unsettled /\ Top(table).kind \notin ActionKinds
  /\ table' = Stepped(Update(table, Top(table)))

\* send_request_status_ready, with nothing on the queue: the player in turn is dead.
NextTurn ==
  /\ ~Ended(table) /\ ~Pending(table) /\ ~Alive(table, table.turn)
  /\ NumAlive(table) > 0
  /\ table' = Stepped(StartNextTurn(table))

Engine == RunAction \/ UpdateRequest \/ NextTurn

(***************************************************************************)
(* The answers to a request.                                               *)
(***************************************************************************)

\* can_pick and on_pick: every table that may follow; none where c may not be picked.
Picked(t, r, c) ==
  LET May(ok, u) == IF ok THEN {u} ELSE {}
  IN  CASE r.kind = "duel" -> May(DuelPick(t, r, c), DuelPicked(t, r, c))
        [] r.kind = "indians" -> May(IndiansPick(t, r, c), IndiansPicked(t, r, c))
        [] r.kind = "generalstore" -> May(IsSelected(t, c), GeneralStorePicked(t, r, c))
        [] r.kind = "predraw" -> May(PredrawPick(t, r, c), PredrawPicked(t, r, c))
        [] r.kind = "check" -> May(IsSelected(t, c), SelectCheck(t, r, c))
        [] r.kind = "draw" -> May(DrawPick(t, c), DrawPicked(t, r))
        [] r.kind = "discard" -> May(DiscardPick(t, r, c), DiscardPicked(t, r, c))
        [] r.kind \in {"discard_pass", "discard_hand_pass"} ->
             May(InHand(t, r, c), DiscardPassPicked(t, r, c))
        [] r.kind = "discard_all" -> May(DiscardAllPick(t, r, c), DiscardAllPicked(t, r, c))
        [] r.kind = "dutch_will" -> May(IsSelected(t, c), DutchWillPicked(t, r, c))
        [] r.kind = "kit_carlson" -> May(IsSelected(t, c), KitCarlsonPicked(t, r, c))
        [] r.kind = "newidentity" -> May(IdentityPick(t, r, c), IdentityPicked(t, r, c))
        [] r.kind = "thedaltons" -> May(DaltonsPick(t, r, c), DaltonsPicked(t, r, c))
        [] r.kind = "darling_valentine" -> May(InHand(t, r, c), DiscardHandPicked(t, r, c))
        [] r.kind = "bandidos" -> May(DiscardPick(t, r, c), BandidosPicked(t, r, c))
        [] r.kind = "poker" -> May(DiscardPick(t, r, c), PokerPicked(t, r, c))
        [] r.kind = "poker_draw" -> May(IsSelected(t, c), PokerDrawn(t, r, c))
        [] r.kind = "tornado" -> May(DiscardPick(t, r, c), TornadoPicked(t, r, c))
        [] r.kind = "youl_grinner" -> May(InHand(t, r, c), YoulPicked(t, r, c))
        [] r.kind = "multi_vulture_sam" -> May(MultiSamPick(t, r, c), MultiSamPicked(t, r, c))
        [] r.kind = "eva_place" -> May(c = r.c, EvaPicked(t, r))
        [] r.kind = "add_cube" -> May(AddCubePick(t, r, c), AddCubePicked(t, r, c))
        [] r.kind = "saved" -> IF SavedPick(t, r, c) THEN SavedPicked(t, r, c) ELSE {}
        [] OTHER -> {}

\* on_resolve: the answer without a card.
Resolved(t, r) ==
  CASE r.kind = "bang" -> {ResolveBang(t, r)}
    [] r.kind = "ricochet" -> {DestroyResolved(t, r)}
    [] r.kind = "death" -> {ResolveDeath(t, r)}
    [] r.kind \in {"duel", "indians"} -> {DuelLost(t, r)}
    [] r.kind = "steal" -> {StealResolved(t, r)}
    [] r.kind = "destroy" -> {DestroyResolved(t, r)}
    [] r.kind = "switch" -> {SwitchResolved(t, r)}
    [] r.kind = "bandidos" -> {BandidosResolved(t, r)}
    [] r.kind = "discard_all" -> {DiscardAllResolved(t, r)}
    [] r.kind = "discard_hand_pass" -> {DiscardHandPassResolved(t, r)}
    [] r.kind = "darling_valentine" -> {DarlingResolved(t, r)}
    [] r.kind = "eva_place" -> {EvaResolved(t, r)}
    [] r.kind = "rust" -> {RustResolved(t, r)}
    [] r.kind = "tumbleweed" -> {TumbleweedResolved(t, r)}
    [] r.kind = "annie_oakey" -> {AnnieResolved(t, r)}
    [] r.kind \in {"ranch", "can_play", "lastwill"} -> {Pop(t)}
    [] OTHER -> {}

Awake == [table EXCEPT !.rest = FALSE, !.steps = 0]

Pick == Waits /\ \E c \in Cards(table) : table' \in Picked(Awake, Top(table), c)

\* can_pick and on_pick of the requests that ask for a player
PlayerPicked(t, r, q) ==
  CASE r.kind = "vera_custer" -> IF Alive(t, q) /\ VeraPick(r, q) THEN {VeraPicked(t, r, q)} ELSE {}
    [] r.kind = "force_equip" -> IF EquipOk(t, r.c, r.who, q) THEN {ForceEquipped(t, r, q)} ELSE {}
    [] r.kind = "move_bomb" -> IF MoveBombOk(t, r, q) THEN {BombMoved(t, r, q)} ELSE {}
    [] OTHER -> {}
PickPlayer ==
  /\ Waits
  /\ \E q \in Players(table) : table' \in PlayerPicked(Awake, Top(table), q)

Resolve == Waits /\ table' \in Resolved(Awake, Top(table))

\* The timer of a damage ends; that of a bang or of a card stolen resolves it.
Timeout == Waits /\ Top(table).kind = "damage" /\ table' = DamageDone(Awake, Top(table))

(***************************************************************************)
(* The plays.                                                              *)
(***************************************************************************)

\* effect_pass_turn::get_error: a mandatory card that may be played keeps the turn.
PassTurnOk(t, p) == \A c \in Mandatory(t, p) : ~PossibleToPlay(t, p, c)
MayPass(t, p, c, response) ==
  (\E e \in ToSet(EffectsOf(c, response)) : e.do = "pass_turn") => PassTurnOk(t, p)
Plays == ~Ended(table) /\ ~Pending(table) /\ Alive(table, table.turn)
OnePlay == [Awake EXCEPT !.plays = @ - 1]

\* verify_and_play: a card played in the turn or put on a table, or one in answer to the top
\* request, among those of generate_playable_cards_list and with any targets that pass.
PlayCard(p, response) ==
  LET t == IF response THEN Awake ELSE OnePlay
  IN  /\ IF response THEN Waits ELSE Plays /\ table.plays > 0 /\ p = table.turn
      /\ \E mod \in Modifiers(t, p, response) :
           LET x == ContextOf(t, None, mod, response)
           IN  \E ml \in ModifierLists(t, x, mod, p, response),
                  c \in {d \in Playable(t, p, response) \cup ({x.again} \ {None}) : MayPass(t, p, d, response)} :
                 LET y == [x EXCEPT !.playing = c]
                 IN  \E lists \in PlayLists(t, y, c, p, response, mod, ml) :
                       table' \in Played(t, y, c, p, response, mod, ml, lists)

PlayerPasses ==
  /\ Plays /\ table.left > 0
  /\ PassTurnOk(table, table.turn)
  /\ table' = PassTurn([Awake EXCEPT !.left = @ - 1], table.turn)

\* The game is over, or the bounds of the model are reached.
Stop ==
  /\ \/ Ended(table)
     \/ ~Pending(table) /\ Alive(table, table.turn) /\ table.left = 0
     \/ ~Pending(table) /\ NumAlive(table) = 0
  /\ UNCHANGED table

Init == table \in Deals
Next == \/ Engine \/ Pick \/ PickPlayer \/ Resolve \/ Timeout
        \/ \E p \in Players(table), response \in BOOLEAN : PlayCard(p, response)
        \/ PlayerPasses \/ Stop
Spec == Init /\ [][Next]_table

(***************************************************************************)
(* Properties.                                                             *)
(***************************************************************************)

Quiet == ~Ended(table) /\ ~Pending(table)

\* Every card lies in the one pocket that card::pocket and card::owner name, and nothing else
\* does: move_to, the decks turned over, the copies given to a character and taken back.
TypeOK ==
  /\ InPlace(table)
  /\ ToSet(table.seats) = Players(table) /\ table.turn \in Players(table)
  /\ table.lost \in {"no", "dry", "null"} /\ table.rest \in BOOLEAN
  /\ table.left \in Nat /\ table.plays \in Nat

\* No handler takes the first card of an empty selection, answers with a missed a request that
\* knows no missed, or follows the pointer to a character that is not there.
NothingDangling == table.lost # "null"

\* Whether the equips of a card are to be in force: on a table or among the characters of a living
\* player, or the scenario in force.
Bears(t, c) ==
  \/ Pocket(t, c) \in {"table", "character"} /\ Alive(t, Owner(t, c))
  \/ Pocket(t, c) \in {"scenario", "wws"} /\ c = Last(t.pile[t.at[c]])
EquipAgrees ==
  \A c \in Cards(table) :
    table.on[c] = IF Bears(table, c) /\ (Yields(c) => ~Disabled(table, c)) THEN 1 ELSE 0
\* A disabler is in the map while the card it belongs to is in force, that of a turn in that turn.
DisablersAgree ==
  \A d \in table.dis :
    CASE d.kind \in {"sermon", "bellestar"} -> table.on[d.key[1]] > 0 /\ d.who = table.turn
      [] d.kind = "brothel" -> \E i \in DOMAIN table.lis : table.lis[i].kind = "brothel_off" /\ table.lis[i].who = d.who
      [] d.kind = "bigfifty" -> FALSE
      [] OTHER -> table.on[d.key[1]] > 0
\* No cube is lost or made, and an orange card lies on a table while it has some.
CubesAgree ==
  /\ table.bank + MapThenSumSet(LAMBDA c : table.cubes[c], Cards(table)) = IF CubesRule(table) THEN NumCubes ELSE 0
  /\ \A c \in Cards(table) :
       IF CubesRule(table) /\ Pocket(table, c) = "table" /\ Color(c) = "orange"
       THEN table.cubes[c] \in 1 .. MaxCubes
       ELSE table.cubes[c] \in 0 .. (IF Pocket(table, c) = "character" THEN MaxCubes ELSE 0)
\* Between two plays the listeners of a card are in place just when the card bears them and nothing
\* silences it, never twice and never after it left, and no disabler outlives what it comes from
\* and the cubes are where they count (player::enable_equip, disable_equip, disabler_map,
\* card::move_cubes, drop_cubes).
EffectsAgree == Quiet => EquipAgrees /\ DisablersAgree /\ CubesAgree

\* What a client was shown while it watched is what a client that joins or comes back now is
\* sent (get_spectator_join_updates, get_rejoin_updates), the cards of the removed aside.
ViewsAgree ==
  \A v \in Clients(table) :
    {c \in table.seen[v] : InJoinUpdates(table, c)} = Snapshot(table, v)

\* Nobody has more lives than its character gives, and whoever has none left and is no ghost is
\* about to be eliminated or asked for a beer (request_death, handle_player_death).
HitPointsAgree ==
  \A p \in Players(table) :
    /\ table.hp[p] <= table.max[p]
    /\ table.hp[p] <= 0 /\ ~HasFlag(table, p, "dead") /\ ~Ended(table)
         => \E i \in DOMAIN table.queue : table.queue[i].kind \in {"death", "die"} /\ table.queue[i].who = p

\* The selection is one list that the general store, the checks, Kit Carlson, poker and others use.
SelectionCleared == Selected(table) = <<>>
\* What is counted until the end of a turn: the uses of a card, the bangs played, the tax, the
\* card that must be played, the suit that may be, those aimed at.
CountersAgree ==
  \A i \in DOMAIN table.lis :
    table.lis[i].kind \in {"usage", "bang_played", "taxed", "law_card", "suit", "bang_target"}
      => table.lis[i].who = table.turn
\* What a card did to one bang is over with it.
ModifiersGone ==
  \A i \in DOMAIN table.lis :
    table.lis[i].kind \notin {"bigfifty", "buntline", "buntline_missed", "doublebarrel", "thunderer", "flintlock"}
\* Once the players may play again, each request that used the selection has emptied it, and
\* nothing is counted any more for a player whose turn is over (on_turn_end).
TurnLeavesNothing == Quiet => SelectionCleared /\ CountersAgree /\ ModifiersGone

\* commit_updates comes to an end: the requests, actions and turns that follow one another
\* without an answer of a player are few (an engine that never waits would hang the server).
MaxUpdates == 25
EngineSettles == table.steps < MaxUpdates
=============================================================================
