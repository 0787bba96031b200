------------------------------- MODULE Sheets -------------------------------
(***************************************************************************)
(* What is written on the cards: src/src/config/sets/*.yml, from which the *)
(* tables of the program are generated.  A card is a list of effects when  *)
(* it is played, a list of responses when a request is pending, and a list *)
(* of equips while it lies on a table or is a character.  Each effect says *)
(* what it takes as a target.  The names are those of the files, in lower  *)
(* case; images, sounds and the number of copies are left out.             *)
(***************************************************************************)
EXTENDS Integers, Sequences, TLC

\* An effect: what it does, its number, its target type and its filters.
E(do, n, to, f) == [do |-> do, n |-> n, to |-> to, f |-> f]
N(do, n) == E(do, n, "none", {})
D(do) == N(do, 0)

Self == {"self", "hand"}
Aimed == {"notself", "reachable"}
Fired(f) == E("bang", 0, "player", f)
OthersBang == E("bang", 0, "players", {"notself"})
Cost == E("discard", 0, "card", Self)
Extra == E("discard", 0, "extra_card", Self)
Play == D("discard")
Once == N("max_usages", 1)
Store == <<D("deal_store"), E("generalstore", 0, "players", {})>>

\* mth and mthr: the function of all the targets, and which of them it takes.
BlankSheet(color) ==
  [color |-> color, effects |-> <<>>, responses |-> <<>>, equips |-> <<>>,
   tags |-> {}, mth |-> <<"none", <<>>>>, mthr |-> <<"none", <<>>>>,
   modifier |-> "none", modr |-> "none", target |-> "self", hp |-> 4, cost |-> 0,
   choice |-> 0]

Does(color, effects, tags) == [BlankSheet(color) EXCEPT !.effects = effects, !.tags = tags]
Brown(effects) == Does("brown", effects, {})
BrownTag(effects, tags) == Does("brown", effects, tags)
Response(responses, tags) ==
  [BlankSheet("brown") EXCEPT !.responses = responses, !.tags = tags]
Green(effects) == Does("green", effects, {})
GreenMissed(responses) == [BlankSheet("green") EXCEPT !.responses = responses]
Equip(color, equips) == [BlankSheet(color) EXCEPT !.equips = equips]
EquipOn(color, target, equips) == [Equip(color, equips) EXCEPT !.target = target]
Weapon(n) == [Equip("blue", <<<<"weapon", n>>>>) EXCEPT !.tags = {"weapon"}]
Horse(equips) == [Equip("blue", <<<<"horse", 0>>>> \o equips) EXCEPT !.tags = {"horse"}]
Character(equips) == Equip("character", equips)
Acts(effects) == Does("character", effects, {})
Reacts(responses) == [BlankSheet("character") EXCEPT !.responses = responses]
Draws(responses) == [Reacts(responses) EXCEPT !.tags = {"drawing"}]
Rule(equips) == Equip("scenario", equips)
Choice(n, effects, responses) ==
  [BlankSheet("hidden") EXCEPT !.effects = <<D("card_choice")>> \o effects,
     !.responses = <<D("card_choice")>> \o responses, !.choice = n]

PlayAsBang(sheet) ==
  [sheet EXCEPT !.mth = <<"play_as_bang", <<2, 3>>>>,
     !.effects = <<D("banglimit"), E("set_playing", 0, "card", Self \cup {"not_bangcard"}),
                   E("none", 0, "player", Aimed)>>, !.tags = @ \cup {"play_as_bang", "banglimit"}]

BaseMain ==
  "barrel" :> [BlankSheet("blue") EXCEPT !.responses = <<D("barrel")>>] @@
  "dynamite" :> Equip("blue", <<<<"predraw_check", 2>>, <<"dynamite", 0>>>>) @@
  "scope" :> Equip("blue", <<<<"scope", 0>>>>) @@
  "mustang" :> Horse(<<<<"mustang", 0>>>>) @@
  "jail" :> EquipOn("blue", "any", <<<<"predraw_check", 1>>, <<"jail", 0>>>>) @@
  "remington" :> Weapon(3) @@
  "schofield" :> Weapon(2) @@
  "volcanic" :> [Weapon(1) EXCEPT !.equips = @ \o <<<<"volcanic", 0>>>>] @@
  "bang" :> BrownTag(<<D("banglimit"), E("bangcard", 0, "player", Aimed)>>,
                     {"bangcard", "banglimit"}) @@
  "beer" :> [BrownTag(<<D("beer")>>, {"beer"}) EXCEPT !.responses = <<D("deathsave"), D("beer")>>] @@
  "cat_balou" :> BrownTag(<<E("destroy", 0, "card", {})>>, {"catbalou_panic"}) @@
  "stagecoach" :> Brown(<<N("draw", 2), D("changewws")>>) @@
  "duel" :> Brown(<<E("duel", 0, "player", {"notself"})>>) @@
  "general_store" :> Brown(Store) @@
  "gatling" :> Brown(<<OthersBang>>) @@
  "indians" :> BrownTag(<<E("indians", 0, "players", {"notself"})>>, {"indians"}) @@
  "missed" :> Response(<<D("missedcard")>>, {"missed", "missedcard"}) @@
  "panic" :> BrownTag(<<E("steal", 0, "card", {"range_1"})>>, {"catbalou_panic"}) @@
  "saloon" :> Brown(<<E("heal", 1, "players", {})>>)

BaseCharacters ==
  "bart_cassidy" :> Character(<<<<"bart_cassidy", 0>>>>) @@
  "black_jack" :> Character(<<<<"black_jack", 0>>>>) @@
  "calamity_janet" :>
     [Character(<<<<"treat_as_bang", 1>>>>) EXCEPT
        !.effects = <<D("banglimit"), E("set_playing", 0, "card", Self \cup {"missed"}),
                      E("none", 0, "player", Aimed)>>,
        !.mth = <<"play_as_bang", <<2, 3>>>>,
        !.responses = <<E("set_playing", 0, "card", Self \cup {"bangcard"})>>,
        !.mthr = <<"play_as_missed", <<1>>>>, !.tags = {"play_as_bang", "banglimit"}] @@
  "el_gringo" :> Character(<<<<"el_gringo", 0>>>>) @@
  "jesse_jones" :> Draws(<<D("add_draw_card"), D("no_cards_drawn"),
                           E("steal", 0, "card", {"notself", "hand"})>>) @@
  "jourdonnais" :> Reacts(<<D("barrel")>>) @@
  "kit_carlson" :> Character(<<<<"kit_carlson", 0>>>>) @@
  "lucky_duke" :> Character(<<<<"lucky_duke", 0>>>>) @@
  "paul_regret" :> Character(<<<<"mustang", 0>>>>) @@
  "pedro_ramirez" :> Draws(<<D("add_draw_card"), D("no_cards_drawn"), D("draw_discard")>>) @@
  "rose_doolan" :> Character(<<<<"scope", 0>>>>) @@
  "sid_ketchum" :>
     [Acts(<<E("discard", 2, "cards", Self), N("heal", 1)>>) EXCEPT
        !.responses = <<D("deathsave"), E("discard", 2, "cards", Self), N("heal", 1)>>] @@
  "slab_the_killer" :> Character(<<<<"slab_the_killer", 0>>>>) @@
  "suzy_lafayette" :> Character(<<<<"suzy_lafayette", 0>>>>) @@
  "vulture_sam" :> Character(<<<<"vulture_sam", 0>>>>) @@
  "willy_the_kid" :> Character(<<<<"volcanic", 0>>>>)

DodgeCityMain ==
  "punch" :> Brown(<<Fired({"notself", "range_1"})>>) @@
  "rag_time" :> BrownTag(<<Extra, Play, E("steal", 0, "card", {})>>, {"no_auto_discard"}) @@
  "brawl" :> BrownTag(<<Extra, Play, E("destroy", 0, "card_per_player", {"notself"})>>,
                      {"no_auto_discard"}) @@
  "dodge" :> Response(<<D("missed"), N("draw", 1)>>, {}) @@
  "tequila" :> BrownTag(<<Extra, Play, E("heal", 1, "player", {})>>, {"no_auto_discard"}) @@
  "bible" :> GreenMissed(<<D("missed"), N("draw", 1)>>) @@
  "canteen" :> Green(<<N("heal", 1)>>) @@
  "can_can" :> Green(<<E("destroy", 0, "card", {})>>) @@
  "derringer" :> Green(<<N("draw", 1), Fired({"notself", "range_1"})>>) @@
  "howitzer" :> Green(<<OthersBang>>) @@
  "pepperbox" :> Green(<<Fired(Aimed)>>)

DodgeCityCharacters ==
  "apache_kid" :> Character(<<<<"apache_kid", 0>>>>) @@
  "belle_star" :> Character(<<<<"bellestar", 0>>>>) @@
  "bill_noface" :> Character(<<<<"bill_noface", 0>>>>) @@
  "chuck_wengam" :> Acts(<<N("damage", 1), N("queue_draw", 2)>>) @@
  "doc_holyday" :> [Acts(<<Once, E("none", 2, "cards", Self), E("none", 0, "player", Aimed)>>)
                      EXCEPT !.mth = <<"doc_holyday", <<2, 3>>>>] @@
  "elena_fuente" :> Reacts(<<E("discard", 0, "card", Self \cup {"not_missedcard"}), D("missed")>>) @@
  "greg_digger" :> Character(<<<<"greg_digger", 0>>>>) @@
  "herb_hunter" :> Character(<<<<"herb_hunter", 0>>>>) @@
  "jose_delgado" :> Acts(<<N("max_usages", 2), E("discard", 0, "card", Self \cup {"blue"}),
                           N("draw", 2)>>) @@
  "molly_stark" :> Character(<<<<"molly_stark", 0>>>>) @@
  "pat_brennan" :> Draws(<<D("skip_drawing"), E("steal", 0, "card", {"table"})>>) @@
  "pixie_pete" :> Character(<<<<"pixie_pete", 0>>>>) @@
  "sean_mallory" :> Character(<<<<"gunbelt", 10>>>>) @@
  "tequila_joe" :> Character(<<<<"tequila_joe", 0>>>>) @@
  "vera_custer" :> Character(<<<<"vera_custer", 0>>>>)

HighNoonCards ==
  [name \in {"blessing", "ghost_town", "invert_rotation", "the_daltons", "the_doctor",
             "the_reverend", "train_arrival", "curse", "hangover", "sermon", "thirst",
             "shootout", "high_noon"} |->
     Rule(<<<<CASE name = "ghost_town" -> "ghosttown" [] name = "the_daltons" -> "thedaltons"
                [] name = "the_doctor" -> "thedoctor" [] name = "the_reverend" -> "reverend"
                [] name = "train_arrival" -> "trainarrival" [] name = "high_noon" -> "highnoon"
                [] OTHER -> name, 0>>>>)] @@
  "handcuffs" :> [Rule(<<<<"handcuffs", 0>>>>) EXCEPT !.modr = "card_choice", !.choice = 6,
                    !.responses = <<D("none")>>] @@
  "new_identity" :> Rule(<<<<"newidentity", 0>>>>) @@
  "handcuffs_hearts" :> Choice(6, <<>>, <<N("handcuffs", 1)>>) @@
  "handcuffs_spades" :> Choice(6, <<>>, <<N("handcuffs", 4)>>)

FistfulCards ==
  "ambush" :> Rule(<<<<"ambush", 0>>>>) @@
  "sniper" :> Does("scenario", <<E("discard", 2, "cards", Self \cup {"bang"}),
                                  E("sniper", 0, "player", Aimed)>>, {}) @@
  "dead_man" :> Rule(<<<<"deadman", 0>>>>) @@
  "blood_brothers" :> [Rule(<<<<"blood_brothers", 0>>>>) EXCEPT
      !.responses = <<D("can_play_card"), E("blood_brothers", 0, "player", {"notself"})>>] @@
  "the_judge" :> Rule(<<<<"judge", 0>>>>) @@
  "lasso" :> Rule(<<<<"lasso", 0>>>>) @@
  "law_of_the_west" :> Rule(<<<<"lawofthewest", 0>>>>) @@
  "hard_liquor" :> [Rule(<<>>) EXCEPT
      !.responses = <<D("skip_drawing"), D("no_cards_drawn"), D("heal_notfull")>>] @@
  "abandoned_mine" :> Rule(<<<<"abandonedmine", 0>>>>) @@
  "peyote" :> [Rule(<<<<"peyote", 0>>>>) EXCEPT !.modr = "card_choice", !.choice = 5,
                 !.responses = <<D("none")>>] @@
  "ranch" :> [Rule(<<<<"ranch", 0>>>>) EXCEPT !.mthr = <<"ranch", <<2>>>>,
                !.responses = <<D("ranch"), E("none", 0, "max_cards", Self)>>] @@
  "ricochet" :> Does("scenario", <<E("discard", 0, "card", Self \cup {"bang"}),
                                   E("ricochet", 0, "card", {"notself", "table"})>>, {}) @@
  "russian_roulette" :> Rule(<<<<"russianroulette", 0>>>>) @@
  "vendetta" :> Rule(<<<<"vendetta", 0>>>>) @@
  "fistful_of_cards" :> Rule(<<<<"fistfulofcards", 0>>>>) @@
  "peyote_red" :> Choice(5, <<>>, <<N("peyote", 1)>>) @@
  "peyote_black" :> Choice(5, <<>>, <<N("peyote", 2)>>)

BulletCharacters ==
  "claus_the_saint" :> [Character(<<<<"claus_the_saint", 0>>>>) EXCEPT !.hp = 3,
      !.responses = <<D("claus_the_saint"), E("none", 0, "card", {"selection"}),
                      E("none", 0, "player", {"target_set"})>>,
      !.mthr = <<"claus_the_saint", <<2, 3>>>>] @@
  "johnny_kisch" :> Character(<<<<"johnny_kisch", 0>>>>) @@
  "uncle_will" :> Acts(<<Once, Cost>> \o Store) @@
  "annie_versary" :> PlayAsBang(Character(<<<<"treat_as_bang", 2>>>>)) @@
  "emiliano" :> Character(<<<<"emiliano", 0>>>>)

WildWestCards ==
  "big_spencer" :> [Character(<<<<"big_spencer", 0>>>>) EXCEPT !.hp = 9] @@
  "flint_westwood" :> [Acts(<<Once, E("none", 0, "card", Self),
                              E("none", 0, "card", {"notself", "hand"})>>) EXCEPT
                         !.mth = <<"flint_westwood", <<2, 3>>>>] @@
  "gary_looter" :> [Character(<<<<"gary_looter", 0>>>>) EXCEPT !.hp = 5] @@
  "greygory_deck" :> [Character(<<<<"greygory_deck", 0>>>>) EXCEPT
      !.responses = <<D("can_play_card"), D("greygory_deck")>>] @@
  "john_pain" :> Character(<<<<"john_pain", 0>>>>) @@
  "lee_van_kliff" :> [Acts(<<E("discard", 0, "card", Self \cup {"used_bang"}), D("set_playing")>>)
                        EXCEPT !.modifier = "leevankliff"] @@
  "teren_kill" :> [Character(<<<<"teren_kill", 0>>>>) EXCEPT !.hp = 3] @@
  "youl_grinner" :> Character(<<<<"youl_grinner", 0>>>>) @@
  "bone_orchard" :> Rule(<<<<"bone_orchard", 0>>>>) @@
  "darling_valentine" :> Rule(<<<<"darling_valentine", 0>>>>) @@
  "lady_rosa" :> Does("scenario", <<Once, D("ladyrosaoftexas")>>, {}) @@
  "miss_susanna" :> Rule(<<<<"miss_susanna", 0>>>>) @@
  "showdown" :> [PlayAsBang(Rule(<<<<"showdown", 0>>>>)) EXCEPT
      !.responses = <<E("set_playing", 0, "card", Self \cup {"bangcard"})>>,
      !.mthr = <<"play_as_missed", <<1>>>>] @@
  "sacagaway" :> Rule(<<<<"sacagaway", 0>>>>) @@
  "wild_west_show" :> Rule(<<<<"wildwestshow", 0>>>>)

ShadowsMain ==
  "ghost" :> EquipOn("blue", "dead", <<<<"ghost", 1>>>>) @@
  "lemat" :> PlayAsBang(Weapon(1)) @@
  "rattlesnake" :> EquipOn("blue", "any", <<<<"predraw_check", 0>>, <<"snake", 0>>>>) @@
  "shotgun" :> [Weapon(1) EXCEPT !.equips = @ \o <<<<"shotgun", 0>>>>] @@
  "bounty" :> EquipOn("blue", "any", <<<<"bounty", 0>>>>) @@
  "bandidos" :> Brown(<<E("bandidos", 0, "players", {})>>) @@
  "escape" :> Response(<<D("escape")>>, {}) @@
  "aim" :> [BrownTag(<<D("aim")>>, {"bangmod"}) EXCEPT !.modifier = "bangmod"] @@
  "poker" :> Brown(<<E("poker", 0, "players", {"notself", "not_empty_hand"}), D("poker")>>) @@
  "backfire" :> Response(<<D("backfire")>>, {"missed"}) @@
  "saved" :> Response(<<D("saved")>>, {}) @@
  "fanning" :> BrownTag(<<D("banglimit"), E("bang", 1, "adjacent_players", Aimed)>>, {"banglimit"}) @@
  "tomahawk" :> Brown(<<Fired({"notself", "range_2"})>>) @@
  "tornado" :> Brown(<<E("tornado", 0, "players", {})>>) @@
  "last_call" :> Brown(<<N("heal", 1)>>)

ShadowsCharacters ==
  "black_flower" :> Acts(<<Once, E("discard", 0, "card", Self \cup {"clubs"}), Fired(Aimed)>>) @@
  "colorado_bill" :> Character(<<<<"colorado_bill", 0>>>>) @@
  "der_spot" :> [Acts(<<Once, E("set_playing", 0, "card", Self \cup {"used_bang"}),
                        E("none", 0, "players", {"notself"})>>) EXCEPT
                   !.mth = <<"play_as_gatling", <<2>>>>] @@
  "evelyn_shebang" :> Reacts(<<D("add_draw_card"), E("evelyn_shebang", 0, "player", Aimed)>>) @@
  "henry_block" :> Character(<<<<"henry_block", 0>>>>) @@
  "lemonade_jim" :> [Character(<<<<"lemonade_jim", 0>>>>) EXCEPT
      !.responses = <<D("can_play_card"), Cost, D("heal_notfull")>>] @@
  "mick_defender" :> [Character(<<<<"mick_defender", 0>>>>) EXCEPT
      !.responses = <<D("escape"), E("discard", 0, "card", Self \cup {"missed"})>>] @@
  "tuco_franziskaner" :> [Character(<<<<"tuco_franziskaner", 0>>>>) EXCEPT !.hp = 5]

CanyonMain ==
  "grave_robber" :> BrownTag(<<D("graverobber"), Play, E("generalstore", 0, "players", {})>>,
                             {"no_auto_discard"}) @@
  "card_sharper" :> [Brown(<<E("none", 0, "card", {"self", "table", "blue"}),
                             E("none", 0, "card", {"notself", "table", "blue"})>>) EXCEPT
                       !.mth = <<"switch_cards", <<1, 2>>>>] @@
  "mirage" :> Response(<<D("mirage")>>, {"missed"}) @@
  "blood_pact" :> Brown(<<E("blood_brothers", 0, "player", {"notself"})>>) @@
  "sacrifice" :> Response(<<D("sacrifice")>>, {}) @@
  "disarm" :> Response(<<D("disarm")>>, {"missed"}) @@
  "molotov" :> Brown(<<Fired(Aimed)>>) @@
  "bulldog" :> [Weapon(2) EXCEPT !.mth = <<"bulldog", <<2, 3>>>>,
      !.effects = <<Once, E("set_playing", 0, "card", Self \cup {"used_bang"}), Cost,
                    E("none", 0, "players", {"notself"})>>] @@
  "last_will" :> [EquipOn("blue", "any", <<<<"lastwill", 0>>>>) EXCEPT
      !.responses = <<D("lastwill"), E("none", 3, "max_cards", {"self"}),
                      E("none", 0, "player", {"notself"})>>,
      !.mthr = <<"lastwill", <<2, 3>>>>] @@
  "indian_guide" :> Equip("blue", <<<<"indianguide", 0>>>>) @@
  "taxman" :> EquipOn("blue", "any", <<<<"taxman", -2>>>>) @@
  "brothel" :> EquipOn("blue", "any", <<<<"predraw_check", -3>>, <<"brothel", 0>>>>) @@
  "bronco" :> [Horse(<<<<"mustang", 0>>>>) EXCEPT !.tags = {"horse", "bronco"}] @@
  "pack_mule" :> Horse(<<<<"packmule", 0>>>>) @@
  "war_path" :> [Green(<<E("indians", 0, "players", {"notself"})>>) EXCEPT !.tags = {"indians"}] @@
  "arson" :> Green(<<E("destroy", 0, "card_per_player", {"notself"})>>) @@
  "flying_bullet" :> Response(<<D("missed"), E("bang", 0, "conditional_player",
                                               {"notself", "range_1"})>>, {"missed"}) @@
  "on_the_house" :> Green(<<D("heal_notfull"), N("draw", 1)>>) @@
  "guitar" :> [Weapon(0) EXCEPT !.target = "any"] @@
  "scrapper" :> Green(<<E("steal", 0, "card", {"range_1"})>>) @@
  "shylock" :> Brown(<<N("damage", 1), N("queue_draw", 2)>>)

CanyonCharacters ==
  "annie_oakey" :> [Character(<<<<"annie_oakey", 0>>>>) EXCEPT !.modr = "card_choice",
                      !.choice = -1, !.responses = <<D("none")>>] @@
  "pat_barrett" :> Character(<<<<"pat_barrett", 0>>>>) @@
  "big_spencer_2" :> [Character(<<<<"update_max_hp", 6>>>>) EXCEPT !.hp = 3] @@
  "buffalo_bell" :> Reacts(<<E("buffalo_bell", 0, "card", Self)>>) @@
  "clash_the_stampede" :> Character(<<<<"clash_the_stampede", 0>>>>) @@
  "crazy_hog" :> Acts(<<Once, E("discard", 0, "card", Self \cup {"blue"}), N("draw", 2)>>) @@
  "eva_place" :> Acts(<<Once, Cost, D("eva_place")>>) @@
  "soundance_kid" :> Character(<<<<"soundance_kid", 0>>>>) @@
  "spike_spiezel" :> [Acts(<<Once, E("discard", 0, "card", Self \cup {"used_bang"}),
                             D("set_playing")>>) EXCEPT !.modifier = "spike_spiezel"] @@
  "wyatt_earl" :> Character(<<<<"wyatt_earl", 0>>>>) @@
  "annie_oakey_red" :> Choice(-1, <<>>, <<N("annie_oakey", 1)>>) @@
  "annie_oakey_hearts" :> Choice(-1, <<>>, <<N("annie_oakey", 2)>>)

\* The shop: forced_play is the response of a card that Josh McCloud must use.
Sold(n, sheet) == [sheet EXCEPT !.cost = n, !.tags = @ \cup {"goldrush"}]
Bought(n, effects) ==
  Sold(n, [Brown(effects) EXCEPT !.responses = <<D("forced_play")>> \o effects])
Choosing(n, choice) ==
  Sold(n, [BlankSheet("brown") EXCEPT !.effects = <<D("none")>>, !.responses = <<D("forced_play")>>,
             !.modifier = "card_choice", !.modr = "card_choice", !.choice = choice])
Black(n, equips) == Sold(n, Equip("black", equips))
BlackActs(n, effects) == Sold(n, Does("black", effects, {}))
Chosen(n, effects) == [Sold(0, Choice(n, effects, effects)) EXCEPT !.color = "brown"]
PaysFor(n, effects) == <<N("pay_gold", n)>> \o effects

GoldMain ==
  "shot" :> Bought(1, <<E("heal", 1, "player", {})>>) @@
  "bottle" :> Choosing(2, 1) @@
  "calumet" :> Black(3, <<<<"apache_kid", 0>>>>) @@
  "gun_belt" :> Black(2, <<<<"gunbelt", 8>>>>) @@
  "pardner" :> Choosing(2, 2) @@
  "gold_rush" :> Bought(5, <<D("goldrush"), D("pass_turn")>>) @@
  "horseshoe" :> Black(2, <<<<"lucky_duke", 0>>>>) @@
  "pickaxe" :> Black(4, <<<<"pickaxe", 0>>>>) @@
  "wanted" :> [Black(2, <<<<"wanted", 0>>>>) EXCEPT !.target = "any"] @@
  "rhum" :> Bought(3, <<D("rum")>>) @@
  "gold_pan" :> BlackActs(3, <<N("max_usages", 2)>> \o PaysFor(1, <<N("draw", 1)>>)) @@
  "boots" :> Black(3, <<<<"bart_cassidy", 0>>>>) @@
  "lucky_charm" :> Black(3, <<<<"luckycharm", 0>>>>) @@
  "union_pacific" :> Bought(4, <<N("draw", 4), D("changewws")>>) @@
  "rucksack" :> [BlackActs(3, PaysFor(2, <<N("heal", 1)>>)) EXCEPT
                   !.responses = <<D("deathsave")>> \o PaysFor(2, <<N("heal", 1)>>)]

GoldChosen ==
  "bottle_panic" :> Chosen(1, <<E("steal", 0, "card", {"range_1"})>>) @@
  "bottle_beer" :> Chosen(1, <<N("heal", 1)>>) @@
  "bottle_bang" :> Chosen(1, <<Fired(Aimed)>>) @@
  "pardner_general_store" :> Chosen(2, Store) @@
  "pardner_duel" :> Chosen(2, <<E("duel", 0, "player", {"notself"})>>) @@
  "pardner_cat_balou" :> Chosen(2, <<E("destroy", 0, "card", {})>>)

GoldCharacters ==
  "don_bell" :> Character(<<<<"don_bell", 0>>>>) @@
  "dutch_will" :> Character(<<<<"dutch_will", 0>>>>) @@
  "jacky_murieta" :> Acts(PaysFor(2, <<Fired(Aimed)>>)) @@
  "josh_mccloud" :> Acts(PaysFor(2, <<D("josh_mccloud")>>)) @@
  "madame_yto" :> Character(<<<<"madam_yto", 0>>>>) @@
  "pretty_luzena" :> [Acts(<<Once>>) EXCEPT !.modifier = "discount"] @@
  "raddie_snake" :> Acts(<<N("max_usages", 2)>> \o PaysFor(1, <<N("draw", 1)>>)) @@
  "simeon_picos" :> Character(<<<<"luckycharm", 0>>>>)

\* Armed & Dangerous: cubes paid from the card itself, or from any card that holds some.
SelfCubes(n) == E("none", n, "self_cubes", {})
CubesFor(type, n) == E("none", n, type, {})
Orange(effects) == Does("orange", effects, {})
Gun(n, modifier, do) ==
  [Equip("orange", <<<<"weapon", n>>>>) EXCEPT !.modifier = modifier, !.tags = {"weapon", "bangmod"},
     !.effects = <<SelfCubes(1), D(do)>>]

ArmedMain ==
  "caravan" :> Brown(<<CubesFor("select_cubes_repeat", 2), D("caravan"), D("changewws")>>) @@
  "a_little_nip" :> Brown(<<CubesFor("select_cubes_repeat", 3), D("a_little_nip")>>) @@
  "quick_shot" :> Brown(<<E("bang", 1, "player_per_cube", Aimed)>>) @@
  "flintlock" :> Brown(<<CubesFor("select_cubes_optional", 2), Fired(Aimed), D("flintlock")>>) @@
  "arrow" :> BrownTag(<<E("indians", 1, "player_per_cube", {"notself"})>>, {"indians"}) @@
  "duck" :> Response(<<CubesFor("select_cubes_optional", 2), D("missed"), D("duck")>>, {}) @@
  "reload" :> Brown(<<N("add_cube", 3)>>) @@
  "rust" :> Brown(<<E("rust", 0, "players", {"notself", "not_empty_cubes"})>>) @@
  "squaw" :> Brown(<<CubesFor("select_cubes_optional", 2), E("squaw", 0, "card", {"table"})>>) @@
  "ace_up_the_sleeve" :> Orange(<<SelfCubes(2), N("draw", 1)>>) @@
  "bandolier" :> [Orange(<<Once, SelfCubes(1)>>) EXCEPT !.modifier = "bandolier", !.tags = {"bangmod"}] @@
  "big_fifty" :> Gun(6, "bigfifty", "bigfifty") @@
  "bomb" :> EquipOn("orange", "any", <<<<"predraw_check", 0>>, <<"bomb", 0>>>>) @@
  "buntline_special" :> Gun(2, "bangmod", "buntline") @@
  "bell_tower" :> [Orange(<<SelfCubes(1)>>) EXCEPT !.modifier = "belltower"] @@
  "crate" :> [BlankSheet("orange") EXCEPT !.responses = <<SelfCubes(2), D("missed")>>] @@
  "tumbleweed" :> [Equip("orange", <<<<"tumbleweed", 0>>>>) EXCEPT !.responses = <<SelfCubes(1), D("tumbleweed")>>] @@
  "double_barrel" :> Gun(1, "bangmod", "doublebarrel") @@
  "whip" :> Orange(<<SelfCubes(3), E("destroy", 0, "card", {"table"})>>) @@
  "beer_keg" :> Orange(<<SelfCubes(3), N("heal", 1)>>) @@
  "lockpick" :> Orange(<<SelfCubes(3), E("steal", 0, "card", {"notself", "hand"})>>) @@
  "thunderer" :> Gun(3, "bangmod", "thunderer")

ArmedCharacters ==
  "al_preacher" :> [Character(<<<<"al_preacher", 0>>>>) EXCEPT
      !.responses = <<D("can_play_card"), CubesFor("select_cubes", 2), N("draw", 1)>>] @@
  "bass_greeves" :> Acts(<<Once, Cost, E("add_cube", 2, "card", {"self", "cube_slot", "can_target_self"})>>) @@
  "bloody_mary" :> Character(<<<<"bloody_mary", 0>>>>) @@
  "frankie_canton" :> Acts(<<Once, E("frankie_canton", 0, "card", {"cube_slot"})>>) @@
  "julie_cutter" :> Character(<<<<"julie_cutter", 0>>>>) @@
  "mexicali_kid" :> Acts(<<Once, CubesFor("select_cubes", 2), Fired(Aimed)>>) @@
  "ms_abigail" :> [Character(<<<<"ms_abigail", 0>>>>) EXCEPT !.responses = <<D("ms_abigail")>>] @@
  "red_ringo" :> [Character(<<<<"red_ringo", 0>>>>) EXCEPT !.hp = 5,
                    !.effects = <<Once, CubesFor("move_cube_slot", 2)>>]

\* The buttons every player has, but for the one that passes the turn.
Buttons ==
  "sell_beer" :> Does("button", <<E("sell_beer", 0, "card", {"self", "hand", "beer"})>>, {}) @@
  "discard_black" :> Does("button", <<E("discard_black", 0, "card", {"notself", "table", "black"})>>, {}) @@
  "discard_bronco" :> Does("button", <<E("discard", 2, "cards", Self),
                                       E("destroy", 0, "card", {"table", "bronco"})>>, {})

\* The sheet a configuration takes for Sheet; under its LET the cards are put together once.
AllCards ==
  BaseMain @@ BaseCharacters @@ DodgeCityMain @@ DodgeCityCharacters @@ HighNoonCards @@
  FistfulCards @@ BulletCharacters @@ WildWestCards @@ ShadowsMain @@ ShadowsCharacters @@
  CanyonMain @@ CanyonCharacters @@ GoldMain @@ GoldChosen @@ GoldCharacters @@
  ArmedMain @@ ArmedCharacters @@ Buttons
CardSheet == LET cards == AllCards IN cards
=============================================================================
