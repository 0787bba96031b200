------------------------------- MODULE Events -------------------------------
(***************************************************************************)
(* The events of the game that the cards listen to, and what each listener *)
(* does: an event runs its listeners in the order of their priorities, and *)
(* most of them only queue a request or an action.                         *)
(***************************************************************************)
EXTENDS Queries

Others(t, p) == OthersFrom(t, p)
QueueAll(t, seq, R(_)) == ForEach(t, seq, LAMBDA a, q : Queue(a, R(q)))

(***************************************************************************)
(* Cubes: an orange card left without any is discarded, and Bomb explodes. *)
(***************************************************************************)

Bomb(t, l, p, c) ==
  IF l.who = p /\ l.card = c /\ ~Immune(t, c, None, p, {})
  THEN QueueAt(t, Action("bomb_explodes", c, None, p), 1) ELSE t
BombExplodes(t, r) == Damage(t, r.card, None, r.who, 2, {})
OnDiscardOrangeCard(t, p, c) == CallEvent(t, [bomb |-> 0], LAMBDA a, l : Bomb(a, l, p, c))
\* An orange card that has no owner: the pointer to it is followed all the same.
OrangeSpent(t, c) ==
  IF Owner(t, c) = 0 THEN Lose(t)
  ELSE ToDiscards(DisableEquip(OnDiscardOrangeCard(t, Owner(t, c), c), c), c)
\* card::move_cubes, to a card or None for the table: what does not fit goes to the table.
MoveCubes(t, from, to, k) ==
  LET n == Min({k, t.cubes[from]})
      added == IF to = None THEN 0 ELSE Min({n, CubeRoom(t, to)})
      gone == [t EXCEPT !.cubes[from] = @ - n, !.bank = @ + n - added]
      moved == IF added = 0 THEN gone ELSE [gone EXCEPT !.cubes[to] = @ + added]
  IN  IF Color(from) = "orange" /\ moved.cubes[from] = 0 THEN OrangeSpent(moved, from) ELSE moved
\* effect_add_cube without a target: the player chooses where they go.
AddCubeEffect(t, c, p, n) ==
  LET k == Min({Max({1, n}), t.bank})
  IN  IF k = 0 THEN t ELSE Queue(t, [Request("add_cube", c, None, p) EXCEPT !.n = k])
CubesRule(t) == GameFlag(t, "rules_ad")

(***************************************************************************)
(* on_hit, on_missed.                                                      *)
(***************************************************************************)

SoundanceKid(t, l, by, flags) ==
  IF by = l.who /\ "is_bang" \in flags THEN DrawTo(t, by, 1) ELSE t
Bounty(t, l, by, who, flags) ==
  IF by # None /\ who = l.who /\ "is_bang" \in flags THEN DrawTo(t, by, 1) ELSE t
Shotgun(t, l, by, who, flags) ==
  IF by = l.who /\ who # by /\ "is_bang" \in flags
  THEN QueueAt(t, Request("discard", l.card, by, who), 0) ELSE t
ElGringo(t, l, by, who, n) ==
  IF by # None /\ who = l.who
  THEN Queue(t, [Action("el_gringo", l.card, by, who) EXCEPT !.n = n]) ELSE t
BartCassidy(t, l, who, n) ==
  IF who = l.who THEN Queue(t, [Action("bart_cassidy", l.card, None, who) EXCEPT !.n = n]) ELSE t
BartCassidyDraws(t, r) == IF Alive(t, r.who) THEN DrawTo(t, r.who, r.n) ELSE t
JulieCutter(t, l, by, who) ==
  IF by # None /\ who = l.who /\ by # who
  THEN Queue(t, Action("julie_cutter", l.card, by, who)) ELSE t
JulieCutterDraws(t, r) ==
  IF Alive(t, r.who) THEN Queue(t, [CheckRequest(r.card, r.who, "julie_cutter") EXCEPT !.s = <<r.by>>]) ELSE t
RouletteHit(t, l, card) == IF card = l.card THEN Unlisten(t, card, {"roulette"}) ELSE t

\* ruleset_goldrush: a nugget for each hit in the turn of the one who shoots
GoldForHit(t, by, who, n) ==
  IF GameFlag(t, "rules_gr") /\ by \notin {None, who} /\ t.turn = by /\ Alive(t, by)
  THEN AddGold(t, by, n) ELSE t
LuckyCharm(t, l, who, n) ==
  IF who = l.who THEN Queue(t, [Action("luckycharm", l.card, None, who) EXCEPT !.n = n]) ELSE t
LuckyCharmPays(t, r) == IF Alive(t, r.who) THEN AddGold(t, r.who, r.n) ELSE t

OnHit(t, card, by, who, n, flags) ==
  CallEvent(GoldForHit(t, by, who, n),
    [soundance_kid |-> 5, bounty |-> 4, shotgun |-> 3, el_gringo |-> 2,
     bart_cassidy |-> 1, roulette |-> 0, luckycharm |-> 0, julie_cutter |-> 0],
    LAMBDA a, l :
      CASE l.kind = "soundance_kid" -> SoundanceKid(a, l, by, flags)
        [] l.kind = "bounty" -> Bounty(a, l, by, who, flags)
        [] l.kind = "shotgun" -> Shotgun(a, l, by, who, flags)
        [] l.kind = "el_gringo" -> ElGringo(a, l, by, who, n)
        [] l.kind = "bart_cassidy" -> BartCassidy(a, l, who, n)
        [] l.kind = "luckycharm" -> LuckyCharm(a, l, who, n)
        [] l.kind = "julie_cutter" -> JulieCutter(a, l, by, who)
        [] OTHER -> RouletteHit(a, l, card))

\* Emiliano takes the card that missed him, or his own that was dodged.
Emiliano(t, l, card, by, who, missed, flags) ==
  LET Takes(c) == Queue(t, [Action("emiliano", l.card, None, l.who) EXCEPT !.c = c])
  IN  IF "is_bang" \notin flags THEN t
      ELSE IF who = l.who THEN Takes(card)
      ELSE IF by = l.who /\ "is_missed" \in flags THEN Takes(missed) ELSE t
EmilianoTakes(t, r) ==
  IF Alive(t, r.who) /\ Pocket(t, r.c) # "hand" THEN ToHand(t, r.who, r.c) ELSE t
RouletteMissed(t, l, card, who) ==
  IF card = l.card THEN Queue(t, [BangRequest(card, None, NextPlayer(t, who), {}) EXCEPT !.m = 2])
  ELSE t

BuntlineMissed(t, l, by, who, flags) ==
  IF by = l.who /\ who # None /\ "is_bang" \in flags
  THEN QueueAt(t, Request("discard", l.card, by, who), 0) ELSE t
BloodyMary(t, l, by, flags) ==
  IF by = l.who /\ "is_bang" \in flags THEN Queue(t, Action("bloody_mary", l.card, None, by)) ELSE t
BloodyMaryDraws(t, r) == IF Alive(t, r.who) THEN DrawTo(t, r.who, 1) ELSE t
\* The card that missed comes back.
FlintlockMissed(t, l, card, by) ==
  IF by = l.who THEN QueueAt(t, [Action("flintlock_back", l.card, None, by) EXCEPT !.c = card], 1) ELSE t
FlintlockBack(t, r) == IF Alive(t, r.who) THEN ToHand(t, r.who, r.c) ELSE t

OnMissed(t, card, by, who, missed, flags) ==
  CallEvent(t, [buntline_missed |-> 1, emiliano |-> 0, roulette |-> 0, bloody_mary |-> 0, flintlock |-> 0],
    LAMBDA a, l : CASE l.kind = "emiliano" -> Emiliano(a, l, card, by, who, missed, flags)
                    [] l.kind = "buntline_missed" -> BuntlineMissed(a, l, by, who, flags)
                    [] l.kind = "bloody_mary" -> BloodyMary(a, l, by, flags)
                    [] l.kind = "flintlock" -> FlintlockMissed(a, l, card, by)
                    [] OTHER -> RouletteMissed(a, l, card, who))

(***************************************************************************)
(* A player dies, and is eliminated.                                       *)
(***************************************************************************)

TerenKill(t, l, who, tried) ==
  IF l.who = who /\ ~tried THEN Queue(t, CheckRequest(l.card, who, "teren_kill")) ELSE t
LastWill(t, l, who) == IF l.who = who THEN Queue(t, Request("lastwill", l.card, None, who)) ELSE t
OnPlayerDeath(t, who, tried) ==
  CallEvent(t, [teren_kill |-> 0, lastwill |-> -1],
    LAMBDA a, l : IF l.kind = "teren_kill" THEN TerenKill(a, l, who, tried)
                  ELSE LastWill(a, l, who))

HerbHunter(t, l, who) ==
  IF l.who # who THEN Queue(t, Action("herb_hunter", l.card, None, l.who)) ELSE t
HerbHunterDraws(t, r) == IF Alive(t, r.who) THEN DrawTo(t, r.who, 2) ELSE t
GregDigger(t, l, who) ==
  IF l.who # who THEN Queue(t, Action("greg_digger", l.card, None, l.who)) ELSE t
GregDiggerHeals(t, r) == IF Alive(t, r.who) THEN Heal(t, r.who, 2) ELSE t

\* The cards of the dead go to the one Sam alive, or are picked by turns.
VultureSam(t, l, who) ==
  LET up == ForEach(t, OnTable(t, who), LAMBDA a, c : SetInactive(a, c, FALSE))
      sams == SelectSeq(Others(t, who), LAMBDA q : VultureSamTakes(t, q))
      cards == SelectSeq(OnTable(t, who), LAMBDA c : Color(c) # "black") \o Hand(t, who)
  IN  IF Hand(t, who) = <<>> /\ OnTable(t, who) = <<>> THEN t
      ELSE IF Len(sams) = 1 THEN ForEach(up, cards, LAMBDA a, c : StealCard(a, l.who, c))
      ELSE IF sams # <<>> /\ Head(sams) = l.who
      THEN QueueAt(up, Request("multi_vulture_sam", l.card, who, l.who), 200)
      ELSE up

\* get_first_dead_player: who died first, for Dead Man
FirstDead(t, who) ==
  IF GameFlag(t, "rules_ff") /\ ~\E i \in DOMAIN t.lis : t.lis[i].kind = "first_dead"
  THEN Listen(t, Listener("first_dead", None, who, 0)) ELSE t
IsFirstDead(t, who) ==
  \E i \in DOMAIN t.lis : t.lis[i].kind = "first_dead" /\ t.lis[i].who = who

\* Brothel: the character is back at the next turn of its player, or when it is eliminated.
BrothelEnds(t, l, p) ==
  IF l.who = p
  THEN LET back == RemoveDisablers(t, {<<l.card, l.n>>})
       IN  [back EXCEPT !.lis = SelectSeq(@, LAMBDA x : x # l)]
  ELSE t

\* The price on the head of a player, for whoever eliminates it in its own turn.
Wanted(t, l, by, who) ==
  IF l.who = who /\ by \notin {None, who} /\ Alive(t, by) THEN AddGold(DrawTo(t, by, 2), by, 1) ELSE t

OnPlayerEliminated(t, by, who) ==
  FirstDead(CallEvent(t, [wanted |-> 3, herb_hunter |-> 2, greg_digger |-> 1, vulture_sam |-> 0,
                          brothel_off |-> 0],
    LAMBDA a, l :
      CASE l.kind = "wanted" -> Wanted(a, l, by, who)
        [] l.kind = "herb_hunter" -> HerbHunter(a, l, who)
        [] l.kind = "greg_digger" -> GregDigger(a, l, who)
        [] l.kind = "brothel_off" -> BrothelEnds(a, l, who)
        [] OTHER -> VultureSam(a, l, who)), who)

\* event check_revivers, asked of each player the turn passes over
Revived(t, who, hp) == SetHp(RemoveFlag(t, who, "dead"), who, hp)
Reenabled(t, who) == ForEach(t, Characters(t, who), LAMBDA a, c : EnableEquip(a, c))

DeadMan(t, l, who) == DrawTo(Revived(Unlisten(t, l.card, {"dead_man"}), who, 2), who, 2)
GhostTown(t, who) == AddFlag(t, who, "temp_ghost")
BoneOrchard(t, who) == Revived(t, who, 1)
MayRevive(t, l, who) == ~Alive(t, who) /\ (l.kind = "dead_man" => IsFirstDead(t, who))

CheckRevivers(t, who) ==
  CallEvent(t, [dead_man |-> 0, ghosttown |-> 0, bone_orchard |-> -1],
    LAMBDA a, l :
      IF ~MayRevive(a, l, who) THEN a
      ELSE Reenabled(CASE l.kind = "dead_man" -> DeadMan(a, l, who)
                       [] l.kind = "ghosttown" -> GhostTown(a, who)
                       [] OTHER -> BoneOrchard(a, who), who))

(***************************************************************************)
(* A turn begins: pre_turn_start, the checks before the draw, on_turn_start*)
(***************************************************************************)

Sermon(t, l, p) == AddDisabler(t, Disabler(<<l.card, 0>>, "sermon", p))
HighNoon(t, l, p) == Damage(t, l.card, None, p, 1, {})
\* A bang for each card in the hand, one behind the other.
FistfulOfCards(t, l, p) ==
  Repeat(t, Len(Hand(t, p)), LAMBDA a : QueueAt(a, BangRequest(l.card, None, p, {}), -1))
VeraCuster(t, l, p) ==
  IF l.who = p THEN QueueAt(t, Request("vera_custer", l.card, None, p), -8) ELSE t

PreTurnStart(t, p) ==
  CallEvent(t, [sermon |-> 0, highnoon |-> 0, fistfulofcards |-> 0, vera_custer |-> 0,
                brothel_off |-> 0],
    LAMBDA a, l :
      CASE l.kind = "sermon" -> Sermon(a, l, p)
        [] l.kind = "highnoon" -> HighNoon(a, l, p)
        [] l.kind = "fistfulofcards" -> FistfulOfCards(a, l, p)
        [] l.kind = "vera_custer" -> VeraCuster(a, l, p)
        [] OTHER -> BrothelEnds(a, l, p))

\* get_predraw_checks: <<priority, card>> of the cards of p that ask for one
PredrawCheck(t, l, p) == IF l.who = p THEN {<<l.n, l.card>>} ELSE {}
TaxmanCheck(t, l, p) ==
  IF l.who = p /\ ~GameFlag(t, "phase_one_override") THEN {<<l.n, l.card>>} ELSE {}
PredrawChecks(t, p) ==
  UNION {IF l.kind = "taxman" THEN TaxmanCheck(t, l, p) ELSE PredrawCheck(t, l, p) :
           l \in ToSet(Listening(t, [predraw_check |-> 10, taxman |-> 10]))}

\* on_predraw_check: the card picked asks for the draw of a card.
OnPredrawCheck(t, p, c) ==
  CallEvent(t, [dynamite |-> 0, jail |-> 0, snake |-> 0, brothel |-> 0, taxman |-> 0, bomb |-> 0],
    LAMBDA a, l : IF l.who = p /\ l.card = c THEN Queue(a, CheckRequest(c, p, l.kind)) ELSE a)

BloodBrothers(t, l, p) == Queue(t, Request("can_play", l.card, None, p))
Handcuffs(t, l, p) == QueueAt(t, Request("handcuffs", l.card, None, p), -8)
Ranch(t, l, p) == QueueAt(t, Request("ranch", l.card, None, p), -8)
GreygoryDeck(t, l, p) ==
  IF l.who = p THEN Queue(t, Request("can_play", l.card, None, p)) ELSE t
BelleStar(t, l, p) ==
  IF l.who = p THEN AddDisabler(t, Disabler(<<l.card, 0>>, "bellestar", p)) ELSE t
DarlingValentine(t, l, p) == Queue(t, Request("darling_valentine", l.card, None, p))
YoulGrinner(t, l, p) ==
  IF l.who # p THEN t
  ELSE QueueAll(t, SelectSeq(Others(t, p), LAMBDA q : Len(Hand(t, q)) > Len(Hand(t, p))),
                LAMBDA q : Request("youl_grinner", l.card, p, q))
Clash(t, l, p) ==
  LET most == Max({Len(Hand(t, q)) : q \in Players(t)})
  IN  IF l.who # p \/ Len(Hand(t, p)) = most THEN t
      ELSE QueueAll(t, SelectSeq(Others(t, p), LAMBDA q : Len(Hand(t, q)) = most),
                    LAMBDA q : Request("youl_grinner", l.card, p, q))
Peyote(t, l, p) == Queue(t, Request("peyote", l.card, None, p))

OnTurnStart(t, p) ==
  CallEvent(t, [blood_brothers |-> 2, handcuffs |-> 0, ranch |-> 0, greygory_deck |-> 0,
                bellestar |-> 0, darling_valentine |-> -1, youl_grinner |-> -2,
                clash_the_stampede |-> -2, peyote |-> -10],
    LAMBDA a, l :
      CASE l.kind = "blood_brothers" -> BloodBrothers(a, l, p)
        [] l.kind = "handcuffs" -> Handcuffs(a, l, p)
        [] l.kind = "ranch" -> Ranch(a, l, p)
        [] l.kind = "greygory_deck" -> GreygoryDeck(a, l, p)
        [] l.kind = "bellestar" -> BelleStar(a, l, p)
        [] l.kind = "darling_valentine" -> DarlingValentine(a, l, p)
        [] l.kind = "youl_grinner" -> YoulGrinner(a, l, p)
        [] l.kind = "clash_the_stampede" -> Clash(a, l, p)
        [] OTHER -> Peyote(a, l, p))

(***************************************************************************)
(* A turn ends, and goes to the next player.                               *)
(***************************************************************************)

\* ruleset_dodgecity: the green cards of p may be used from its next turn.
GreenReady(t, p) == ForEach(t, OnTable(t, p), LAMBDA a, c : SetInactive(a, c, FALSE))
GreenPlaced(t, c) == IF Color(c) = "green" THEN SetInactive(t, c, TRUE) ELSE t

MissSusanna(t, l, p, skipped) ==
  IF (~skipped \/ t.used[p] > 0) /\ t.used[p] < 3 THEN Damage(t, l.card, None, p, 1, {}) ELSE t
BelleStarEnds(t, l, p) ==
  IF l.who = p THEN RemoveDisablers(t, DisablersOf(t, l.card)) ELSE t
SermonEnds(t, l) == RemoveDisablers(t, DisablersOf(t, l.card))
HandcuffsEnd(t, l) == Unlisten(t, l.card, {"suit"})
\* Mutant: the bangs played are not forgotten.
CountEndsOfUses(t, l, p) == IF l.kind = "usage" THEN Unlisten(t, l.card, {l.kind}) ELSE t
\* What was counted until the end of the turn: the listener takes itself away.
CountEnds(t, l, p) ==
  IF l.kind = "usage" \/ l.who = p THEN Unlisten(t, l.card, {l.kind}) ELSE t
Vendetta(t, l, p, skipped) ==
  IF ~skipped /\ ~HasFlag(t, p, "extra_turn") THEN Queue(t, CheckRequest(l.card, p, "vendetta"))
  ELSE t
DonBell(t, l, p, skipped) ==
  IF l.who = p /\ ~skipped /\ ~HasFlag(t, p, "extra_turn")
  THEN Queue(t, CheckRequest(l.card, p, "don_bell")) ELSE t
GoldRushEnds(t, l, p) == IF l.who = p THEN Unlisten(Heal(t, p, t.max[p]), l.card, {l.kind}) ELSE t
GhostTownEnds(t, l, p) == QueueAt(t, Action("temp_ghost_leaves", l.card, None, p), -5)
TempGhostLeaves(t, r) ==
  LET off == RemoveFlag(t, r.who, "temp_ghost")
  IN  IF t.extra[r.who] # 0 \/ ~HasFlag(t, r.who, "temp_ghost") THEN t
      ELSE IF Alive(off, r.who) THEN off
      ELSE HandlePlayerDeath(off, None, r.who, "disable_temp_ghost")

OnTurnEnd(t, p, skipped) ==
  CallEvent(GreenReady(t, p),
    [miss_susanna |-> 1, bellestar |-> 0, sermon |-> 0, handcuffs |-> 0, usage |-> 0,
     bang_played |-> 0, taxed |-> 0, law_card |-> 0, bang_target |-> 0, goldrush |-> 0,
     vendetta |-> -1, don_bell |-> -2, ghosttown |-> -3],
    LAMBDA a, l :
      CASE l.kind = "miss_susanna" -> MissSusanna(a, l, p, skipped)
        [] l.kind = "bellestar" -> BelleStarEnds(a, l, p)
        [] l.kind = "sermon" -> SermonEnds(a, l)
        [] l.kind = "handcuffs" -> HandcuffsEnd(a, l)
        [] l.kind = "vendetta" -> Vendetta(a, l, p, skipped)
        [] l.kind = "don_bell" -> DonBell(a, l, p, skipped)
        [] l.kind = "goldrush" -> GoldRushEnds(a, l, p)
        [] l.kind = "ghosttown" -> GhostTownEnds(a, l, p)
        [] OTHER -> CountEnds(a, l, p))

ScenarioTurns(t, p) ==
  IF p = t.first /\ t.pile[<<"scenario_deck", 0>>] # <<>> THEN DrawScenarioCard(t) ELSE t
NewIdentity(t, l, p) == QueueAt(t, Request("newidentity", l.card, None, p), -7)
OnTurnSwitch(t, p) ==
  CallEvent(ScenarioTurns(t, p), [newidentity |-> -1], LAMBDA a, l : NewIdentity(a, l, p))
=============================================================================
