------------------------------ MODULE PlayVerify ------------------------------
(***************************************************************************)
(* A card is played: src/src/game/play_verify.cpp, play_dispatch.cpp and   *)
(* the play of each type of target in src/src/target_types.                *)
(*                                                                         *)
(* What a client sends is a card, a modifier or none, and for each effect  *)
(* of the two the targets of that effect.  The code takes any list of      *)
(* modifiers; here it is at most one.  Two of them together, which only    *)
(* the cards with the tag bangmod and Belltower allow, are left out.       *)
(***************************************************************************)
EXTENDS Targets

EffectsOf(c, response) == IF response THEN Sheet[Name(c)].responses ELSE Sheet[Name(c)].effects
MthOf(c, response) == IF response THEN Sheet[Name(c)].mthr ELSE Sheet[Name(c)].mth
ModifierOf(c, response) == IF response THEN Sheet[Name(c)].modr ELSE Sheet[Name(c)].modifier

(***************************************************************************)
(* What each effect does: the on_play of effect_holder.                    *)
(***************************************************************************)

\* on one of its targets
OnTarget(t, x, card, p, e, v, flags) ==
  CASE e.do = "bang" -> Bang(t, card, p, v, flags)
    [] e.do = "bangcard" -> QueueRequestBang(t, card, p, v, flags)
    [] e.do = "rust" -> Rust(t, card, p, v, flags)
    [] e.do = "squaw" -> Squaw(t, x.cubes, card, p, v)
    [] e.do = "frankie_canton" -> FrankieCanton(t, p, v)
    [] e.do = "add_cube" -> AddCubes(t, v, e.n)
    [] e.do = "sniper" -> Sniper(t, card, p, v)
    [] e.do = "ricochet" -> Ricochet(t, card, p, v)
    [] e.do = "evelyn_shebang" -> EvelynShebang(t, card, p, v)
    [] e.do = "heal" -> HealEffect(t, card, p, v, e.n, flags)
    [] e.do = "duel" -> Duel(t, card, p, v, flags)
    [] e.do = "indians" -> Indians(t, card, p, v, flags)
    [] e.do = "generalstore" -> GeneralStore(t, card, p, v, flags)
    [] e.do = "bandidos" -> Bandidos(t, card, p, v, flags)
    [] e.do = "poker" -> Poker(t, card, p, v, flags)
    [] e.do = "tornado" -> Tornado(t, card, p, v, flags)
    [] e.do = "steal" -> Steal(t, card, p, v, flags)
    [] e.do = "destroy" -> Destroy(t, card, p, v, flags)
    [] e.do = "discard" -> DiscardEffect(t, v)
    [] e.do = "discard_black" -> DiscardBlack(t, p, v)
    [] e.do = "sell_beer" -> SellBeer(t, p, v)
    [] e.do = "blood_brothers" -> GiveBlood(t, card, p, v)
    [] e.do = "buffalo_bell" -> BuffaloBell(t, card, p, v)
    [] OTHER -> t

\* without a target: on the player that plays it
OnSelf(t, x, card, p, e) ==
  CASE e.do = "banglimit" -> IF x.free THEN t ELSE Banglimit(t, card, p)
    [] e.do = "max_usages" -> CountUsage(t, card, p)
    [] e.do = "aim" -> AimPlayed(t, card, p)
    [] e.do = "beer" -> Beer(t, p)
    [] e.do = "deathsave" -> Deathsave(t)
    [] e.do \in {"heal", "heal_notfull"} -> Heal(t, p, Max({1, e.n}))
    [] e.do = "damage" -> Damage(t, card, p, p, e.n, {})
    [] e.do = "draw" -> DrawTo(t, p, e.n)
    [] e.do = "queue_draw" -> QueueDraw(t, card, p, e.n)
    [] e.do = "draw_discard" -> DrawDiscard(t, p)
    [] e.do = "add_draw_card" -> AddDrawCard(t)
    [] e.do = "skip_drawing" -> SkipDrawing(t)
    [] e.do = "discard" -> DiscardUsed(t, p, card)
    [] e.do = "missed" -> Missed(t, card)
    [] e.do = "missedcard" -> MissedCard(t, card)
    [] e.do = "barrel" -> Barrel(t, card, p)
    [] e.do = "backfire" -> Backfire(t, card, p)
    [] e.do = "disarm" -> Disarm(t, card, p)
    [] e.do = "mirage" -> Mirage(t, card, p)
    [] e.do = "escape" -> Escape(t)
    [] e.do = "saved" -> Saved(t, card, p)
    [] e.do = "sacrifice" -> Sacrifice(t, card, p)
    [] e.do = "can_play_card" -> Pop(t)
    [] e.do = "pass_turn" -> PassTurn(t, p)
    [] e.do = "pay_gold" -> PayGold(t, p, e.n)
    [] e.do = "goldrush" -> GoldRush(t, card, p)
    [] e.do = "rum" -> Rum(t, card, p)
    [] e.do = "josh_mccloud" -> JoshMcCloud(t, card, p)
    [] e.do = "forced_play" -> ForcedPlay(t)
    [] e.do = "deal_store" -> DealStore(t, None)
    [] e.do = "graverobber" -> GraveRobber(t, None)
    [] e.do = "poker" -> PokerDraw(t, card, p)
    [] e.do = "eva_place" -> EvaPlace(t, card, p)
    [] e.do = "handcuffs" -> ChooseSuit(t, p, e.n)
    [] e.do = "peyote" -> GuessPeyote(t, p, e.n)
    [] e.do = "annie_oakey" -> GuessAnnie(t, e.n)
    [] e.do = "changewws" -> IF x.again = None THEN ChangeWws(t) ELSE t
    [] e.do = "greygory_deck" -> Greygory(t, card, p)
    [] e.do = "ladyrosaoftexas" -> LadyRosa(t, p)
    [] e.do = "caravan" -> DrawTo(t, p, 2 + x.cubes)
    [] e.do = "a_little_nip" -> Heal(t, p, 1 + x.cubes)
    [] e.do = "duck" -> Duck(t, x.cubes, card, p)
    [] e.do = "flintlock" -> Flintlock(t, x.cubes, card, p)
    [] e.do = "add_cube" -> AddCubeEffect(t, card, p, e.n)
    [] e.do \in {"bigfifty", "buntline", "doublebarrel", "thunderer"} -> BangModPlayed(t, e.do, card, p)
    [] e.do = "tumbleweed" -> TumbleweedPlayed(t)
    [] e.do = "ms_abigail" -> Pop(t)
    [] OTHER -> t

\* play_visitor::play of each type of target
FlagsOf(card, e, targets) ==
  (IF e.to \in {"players", "adjacent_players", "card_per_player", "player_per_cube"} THEN {"multi_target"}
   ELSE {"single_target"})
  \cup (IF e.to \in {"players", "card_per_player", "player_per_cube"} /\ Len(targets) = 1
        THEN {"single_target"} ELSE {})
  \cup (IF Color(card) = "brown" THEN {"escapable"} ELSE {})
PlayEffect(t, x, card, p, e, targets) ==
  LET cubes == CASE e.to \in CubeTypes -> targets
                 [] e.to = "player_per_cube" -> targets[1]
                 [] e.to = "self_cubes" -> [i \in 1 .. e.n |-> card]
                 [] OTHER -> <<>>
      each == CASE e.to \in CubeTypes \cup {"self_cubes", "move_cube_slot"} -> <<>>
                [] e.to = "player_per_cube" -> targets[2]
                [] OTHER -> targets
  IN  CASE e.to = "none" -> OnSelf(t, x, card, p, e)
        [] e.to = "move_cube_slot" -> MoveCubeSlot(t, p, targets)
        [] OTHER -> ForEach(SelectCubes(t, cubes), each,
                            LAMBDA a, v : OnTarget(a, x, card, p, e, v, FlagsOf(card, e, each)))

(***************************************************************************)
(* The function of all the targets: mth_holder.                            *)
(***************************************************************************)

MthOk(t, x, card, p, mth, lists) ==
  LET Arg(i) == Head(lists[mth[2][i]])
  IN  CASE mth[1] = "play_as_bang" -> PlayCardOk(t, Arg(1)) /\ BangcardOk(t, x.unchecked, Arg(1), p, Arg(2))
        [] mth[1] = "play_as_missed" -> MissedOk(t, Arg(1), p)
        [] mth[1] = "play_as_gatling" -> PlayCardOk(t, Arg(1))
        [] mth[1] = "bulldog" -> BulldogOk(Arg(1), Arg(2)) /\ PlayCardOk(t, Arg(1))
        [] mth[1] = "switch_cards" -> SwitchOk(t, p, Arg(1), Arg(2))
        [] OTHER -> TRUE

\* Every table that may result.
PlayMth(t, card, p, mth, lists) ==
  LET List(i) == lists[mth[2][i]]
      Arg(i) == Head(List(i))
  IN  CASE mth[1] = "flint_westwood" -> FlintWestwood(t, p, Arg(1), Arg(2))
        [] mth[1] = "play_as_bang" -> {PlayAsBangPlayed(t, p, Arg(1), Arg(2))}
        [] mth[1] = "play_as_missed" -> {PlayAsMissed(t, p, Arg(1))}
        [] mth[1] = "play_as_gatling" -> {PlayAsGatling(t, p, Arg(1))}
        [] mth[1] = "bulldog" -> {Bulldog(t, p, Arg(1))}
        [] mth[1] = "switch_cards" -> {SwitchCards(t, card, p, Arg(1), Arg(2))}
        [] mth[1] = "doc_holyday" -> {DocHolyday(t, card, p, List(1), Arg(2))}
        [] mth[1] = "ranch" -> {PlayRanch(t, p, List(1))}
        [] mth[1] = "claus_the_saint" -> {GiveCard(t, Arg(1), Arg(2))}
        [] mth[1] = "lastwill" -> {Bequeath(t, List(1), Arg(2))}
        [] OTHER -> {t}

(***************************************************************************)
(* Verification.                                                           *)
(***************************************************************************)

\* add_context of each type of target: what a card selects.
OfEach(effects, Of(_)) == FlattenSeq([i \in DOMAIN effects |-> Of(i)])
SelectedPlayers(effects, lists) ==
  OfEach(effects, LAMBDA i :
    CASE effects[i].to \in {"player", "players", "adjacent_players", "conditional_player"} -> lists[i]
      [] effects[i].to = "player_per_cube" -> lists[i][2]
      [] OTHER -> <<>>)
SelectedCards(effects, lists) ==
  OfEach(effects, LAMBDA i :
    IF effects[i].to \in {"card", "cards", "max_cards", "extra_card"} THEN lists[i] ELSE <<>>)
SelectedCubes(card, effects, lists) ==
  OfEach(effects, LAMBDA i :
    CASE effects[i].to \in CubeTypes -> lists[i]
      [] effects[i].to = "player_per_cube" -> lists[i][1]
      [] effects[i].to = "self_cubes" -> [k \in 1 .. effects[i].n |-> card]
      [] OTHER -> <<>>)
\* Mutant: a cube may be paid twice.
CheckDuplicatesFew(t, before, card, effects, lists) ==
  /\ IsInjective(SelectedPlayers(effects, lists))
  /\ IsInjective(before.cards \o SelectedCards(effects, lists))
\* check_duplicates: a player or card is selected once by a play and its modifier, and no more
\* cubes of a card than it has.
CheckDuplicates(t, before, card, effects, lists) ==
  LET cubes == before.cubes \o SelectedCubes(card, effects, lists)
  IN  /\ IsInjective(SelectedPlayers(effects, lists))
      /\ IsInjective(before.cards \o SelectedCards(effects, lists))
      /\ \A c \in ToSet(cubes) : Copies(cubes, c) <= t.cubes[c]

CheckPocket(t, c, p) ==
  CASE Pocket(t, c) \in {"hand", "table", "character"} -> Owner(t, c) = p
    [] Pocket(t, c) \in {"scenario", "wws"} -> c = Last(t.pile[t.at[c]])
    [] OTHER -> Pocket(t, c) \in {"button_row", "hidden_deck", "shop"}

\* The targets a client may name: one list of targets for each effect.
TargetLists(t, x, card, p, effects) ==
  FoldLeft(LAMBDA S, e : {Append(s, v) : s \in S, v \in TargetsOf(t, x, card, p, e)},
           {<<>>}, effects)

\* before: the modifier, the cards and the cubes it selects
VerifyTargetList(t, x, card, p, response, before, lists) ==
  /\ EffectsOf(card, response) # <<>>
  /\ MthOk(t, x, card, p, MthOf(card, response), lists)
  /\ CheckDuplicates(t, before, card, EffectsOf(card, response), lists)
  /\ card = x.again \/ CheckPocket(t, card, p)

ContextOf(t, card, mod, response) ==
  LET x == Context(card)
      Repeats(c) == [x EXCEPT !.again = c, !.free = c # None]
  IN  IF mod = None THEN x
      ELSE CASE ModifierOf(mod, response) = "leevankliff" -> Repeats(LeeVanKliff(t))
             [] ModifierOf(mod, response) = "spike_spiezel" -> Repeats(SpikeSpiezel(t))
             [] ModifierOf(mod, response) = "card_choice" -> [x EXCEPT !.choice = mod]
             [] ModifierOf(mod, response) = "discount" -> [x EXCEPT !.discount = 1]
             [] ModifierOf(mod, response) = "bandolier" -> [x EXCEPT !.free = TRUE]
             [] ModifierOf(mod, response) = "belltower" -> [x EXCEPT !.far = TRUE]
             [] ModifierOf(mod, response) = "bigfifty" -> [x EXCEPT !.unchecked = TRUE]
             [] OTHER -> x
BangmodOk(t, card) == HasTag(card, IF Pocket(t, card) = "hand" THEN "bangcard" ELSE "play_as_bang")
ChoiceOk(t, mod, card) ==
  Pocket(t, card) = "hidden_deck" /\ Sheet[Name(card)].choice = Sheet[Name(mod)].choice
IsEquip(t, c) == Pocket(t, c) \in {"hand", "shop"} /\ Color(c) # "brown"
\* Nothing is put on a table from afar; a bandolier may be used up for a weapon that is.
BelltowerOk(t, card) ==
  /\ ~IsEquip(t, card)
  /\ \E e \in ToSet(EffectsOf(card, Pending(t))) : e.f \cap Ranges # {}
VerifyModifier(t, x, mod, card, response) ==
  CASE ModifierOf(mod, response) \in {"bangmod", "bigfifty"} -> BangmodOk(t, card)
    [] ModifierOf(mod, response) = "bandolier" -> HasTag(card, "banglimit")
    [] ModifierOf(mod, response) = "belltower" -> BelltowerOk(t, card)
    [] ModifierOf(mod, response) = "card_choice" -> ChoiceOk(t, mod, card)
    [] ModifierOf(mod, response) = "discount" -> DiscountOk(t, card)
    [] OTHER -> RepeatOk(t, card, x.again)

\* equip_target and get_equip_error
EquipFilter(c) ==
  CASE Sheet[Name(c)].target = "self" -> {"self"} [] Sheet[Name(c)].target = "dead" -> {"dead"}
    [] OTHER -> {}
EquipOk(t, c, p, q) ==
  /\ ~GameFlag(t, "disable_equipping")
  /\ PlayerOk(t, Context(c), p, q, EquipFilter(c))
  /\ ~SameOnTable(t, q, c)
EquipTargets(t, c, p) ==
  IF Owner(t, c) \in {0, p} THEN {q \in Players(t) : EquipOk(t, c, p, q)} ELSE {}

\* The modifiers p may use, None for no modifier.
Modifiers(t, p, response) ==
  {None} \cup {m \in Cards(t) : ModifierOf(m, response) # "none" /\ CheckPocket(t, m, p)
                                /\ PlayCardOk(t, m)}
ModifierLists(t, x, mod, p, response) ==
  IF mod = None THEN {<<>>}
  ELSE {lists \in TargetLists(t, x, mod, p, EffectsOf(mod, response)) :
          VerifyTargetList(t, x, mod, p, response, [cards |-> <<mod>>, cubes |-> <<>>], lists)}
\* What the modifier has selected.
Before(mod, response, lists) ==
  IF mod = None THEN [cards |-> <<>>, cubes |-> <<>>]
  ELSE LET effects == EffectsOf(mod, response)
       IN  [cards |-> <<mod>> \o SelectedCards(effects, lists),
            cubes |-> SelectedCubes(mod, effects, lists)]

Affordable(t, x, c, p, response) == response \/ t.gold[p] >= CardCost(t, x, c)
\* The lists of targets with which card may be played, the player it is put on for an equip:
\* verify_card_targets
PlayLists(t, x, card, p, response, mod, modLists) ==
  IF \/ ~PlayCardOk(t, card)
     \/ mod # None /\ ~VerifyModifier(t, x, mod, card, response)
     \/ ~Affordable(t, x, card, p, response)
  THEN {}
  ELSE IF IsEquip(t, card) THEN IF response THEN {} ELSE {<<<<q>>>> : q \in EquipTargets(t, card, p)}
  ELSE IF ModifierOf(card, response) # "none" THEN {}
  ELSE {lists \in TargetLists(t, x, card, p, EffectsOf(card, response)) :
          VerifyTargetList(t, x, card, p, response, Before(mod, response, modLists), lists)}
\* is_possible_to_play, without modifiers
PossibleToPlay(t, p, c) == PlayLists(t, Context(c), c, p, FALSE, None, <<>>) # {}

(***************************************************************************)
(* The play.                                                               *)
(***************************************************************************)

\* selected_cubes_count::count: how many times the price in cubes was paid
CubesPaid(effects, lists) ==
  LET paid == SelectSeq([i \in DOMAIN effects |-> i],
                        LAMBDA i : effects[i].to \in {"select_cubes_optional", "select_cubes_repeat"})
  IN  IF paid = <<>> THEN 0 ELSE Len(lists[paid[1]]) \div effects[paid[1]].n

\* apply_target_list
ApplyTargets(t, shared, card, p, response, lists) ==
  LET effects == EffectsOf(card, response)
      x == [shared EXCEPT !.cubes = CubesPaid(effects, lists)]
      inHand == IsIn(t, card, HandOf(p))
      Goes == /\ card # x.again /\ ~HasTag(card, "no_auto_discard")
              /\ inHand \/ (Pocket(t, card) = "table" /\ Color(card) = "green")
  IN  Then(ForEach(CASE Goes -> Discard(t, p, card, inHand)
                     [] card # x.again /\ Pocket(t, card) = "shop" -> DiscardShopCard(t, card)
                     [] OTHER -> t, [i \in DOMAIN effects |-> i],
                   LAMBDA a, i : PlayEffect(a, x, card, p, effects[i], lists[i])),
           LAMBDA a : PlayMth(a, card, p, MthOf(card, response), lists))

\* apply_equip queues it: the card stays in the hand until then.
ApplyEquip(t, p, card, q) == Queue(t, [Action("equip", card, p, q) EXCEPT !.c = card])
Equipped(t, r) ==
  IF ~Alive(t, r.by) THEN t
  ELSE OnEquipCard(EquipCard(IF Pocket(t, r.c) = "hand" THEN OnDiscardHandCard(t, r.by, r.c, TRUE) ELSE t,
                             r.who, r.c), r.by, r.who, r.c)

\* make_played_card_history: what is asked of it later
PlayedAs(card, effects, lists) ==
  LET sets == SelectSeq([i \in DOMAIN effects |-> i], LAMBDA i : effects[i].do = "set_playing")
  IN  IF sets = <<>> THEN card
      ELSE IF lists[Last(sets)] = <<>> THEN None ELSE Head(lists[Last(sets)])
History(t, p, x, card, mod, as) ==
  LET held == Pocket(t, card) = "hand"
      again == card = x.again
      Counts(b) == IF b THEN 1 ELSE 0
      lee == IF mod # None /\ Name(mod) = "lee_van_kliff" THEN None ELSE card
      shown == IF x.choice = None THEN card ELSE x.choice
      last == <<IF held \/ again THEN lee ELSE t.last[1],
                IF Color(shown) = "brown" THEN shown ELSE t.last[2]>>
      counted == Counts(mod # None /\ mod # x.again /\ Pocket(t, mod) = "hand")
                 + Counts(as # card \/ (held /\ ~again))
  IN  IF Pocket(t, card) = "button_row" THEN t
      ELSE [t EXCEPT !.used[p] = @ + counted, !.last = IF t.turn = p THEN last ELSE @]

Paid(t, x, card, p, response) == IF response THEN t ELSE AddGold(t, p, -CardCost(t, x, card))

\* Every table after p plays card, or puts it on a table, with mod before it.
Played(t, x, card, p, response, mod, modLists, lists) ==
  LET equip == IsEquip(t, card)
      as == CASE x.again # None -> None
              [] equip -> card
              [] OTHER -> PlayedAs(card, EffectsOf(card, response), lists)
      paid == Paid(History(t, p, x, card, mod, as), x, card, p, response)
      cards == (IF mod = None THEN <<>> ELSE <<<<mod, modLists>>>>) \o <<<<card, lists>>>>
  IN  FoldLeft(LAMBDA S, y :
                 UNION {IF equip /\ y[1] = card THEN {ApplyEquip(u, p, card, Head(lists[1]))}
                        ELSE ApplyTargets(u, x, y[1], p, response, y[2]) : u \in S}, {paid}, cards)

(***************************************************************************)
(* Josh McCloud: is_possible_to_play decides what happens to the card.     *)
(***************************************************************************)

\* The cards p may play, or answer with, alone or as modifiers.
Playable(t, p, response) ==
  {c \in Cards(t) : CheckPocket(t, c, p) /\ (EffectsOf(c, response) # <<>> \/ IsEquip(t, c))}
MayAnswer(t, p, c) ==
  LET mod == IF ModifierOf(c, TRUE) = "none" THEN None ELSE c
      x == ContextOf(t, None, mod, TRUE)
  IN  /\ PlayCardOk(t, c)
      /\ \E ml \in ModifierLists(t, x, mod, p, TRUE),
            d \in IF mod = None THEN {c} ELSE Playable(t, p, TRUE) :
           PlayLists(t, [x EXCEPT !.playing = d], d, p, TRUE, mod, ml) # {}
Answers(t, p) == {c \in Playable(t, p, TRUE) : Pocket(t, c) # "hidden_deck" /\ MayAnswer(t, p, c)}

\* Used at once when it needs no target, and lost when it cannot be used.
UpdateForcePlay(t, r) ==
  LET effects == EffectsOf(r.c, TRUE)
      AtOnce == ModifierOf(r.c, TRUE) = "none" /\ \A e \in ToSet(effects) : e.to = "none"
  IN  IF Answers(t, r.who) # {r.c} THEN MoveTo(Pop(t), r.c, ShopDiscards, "shown")
      ELSE IF ~AtOnce THEN Live(t)
      ELSE ForEach(MoveTo(t, r.c, ShopDiscards, "shown"), effects,
                   LAMBDA a, e : OnSelf(a, Context(None), r.c, r.who, e))

UpdateForceEquip(t, r) ==
  IF ~\E q \in Players(t) : EquipOk(t, r.c, r.who, q) THEN MoveTo(Pop(t), r.c, ShopDiscards, "shown")
  ELSE IF EquipFilter(r.c) = {"self"} THEN ForceEquipped(t, r, r.who) ELSE Live(t)
=============================================================================
