------------------------------ MODULE MCCardGame ------------------------------
(***************************************************************************)
(* Small tables for CardGame: two or three players, each with a character, *)
(* a few cards in the hand and on the table, and a deck of a few cards of  *)
(* different suits.  A run starts from any of a set of them.               *)
(***************************************************************************)
EXTENDS CardGame, Sheets

\* Cards numbered from n, from pairs of a name and a sign.
From(n, seq) == [i \in DOMAIN seq |-> <<seq[i][1], seq[i][2], n + i>>]
H(name) == <<name, "hearts">>
S(name) == <<name, "spades">>
M(name) == <<name, "diamonds">>
K(name) == <<name, "clubs">>

Deck == <<S("bang"), H("missed"), M("bang"), K("beer"), S("missed"), H("bang")>>

\* chars, hands, tables: a sequence for each player of 1 .. n
Dealt(chars, hands, tables, others, rules, hp, plays) ==
  LET n == Len(chars)
      Of(name, all, base) == [place \in {<<name, p>> : p \in 1 .. n} |->
                                From(base + 10 * place[2], all[place[2]])]
  IN  [seats |-> [i \in 1 .. n |-> i],
            pile |-> Of("character", [p \in 1 .. n |-> <<H(chars[p])>>], 100)
                     @@ Of("hand", hands, 200) @@ Of("table", tables, 300)
                     @@ [place \in DOMAIN others |-> From(others[place][1], others[place][2])]
                     @@ (Main :> From(0, Deck)),
            hp |-> hp, gold |-> [p \in 1 .. n |-> 0], rules |-> rules, left |-> 1, plays |-> plays,
            load |-> <<0, 0>>]
\* Two players of two lives, the first in turn and free to play one card.
TwoPlayers(c1, h1, t1, c2, h2, t2) ==
  Dealt(<<c1, c2>>, <<h1, h2>>, <<t1, t2>>, <<>>, {}, <<2, 2>>, 1)
\* Two players of one life in a turn with scenarios that come into force, and two more turns.
Scene(c1, h1, t1, c2, h2, t2, others) ==
  [Dealt(<<c1, c2>>, <<h1, h2>>, <<t1, t2>>, others, {"rules_ff"}, <<1, 1>>, 1) EXCEPT !.left = 2]
\* Three players of one life, so that the second sits between the others.
ThreePlayers(c, h1, t1, others) ==
  Dealt(<<c, "rose_doolan", "bart_cassidy">>, <<h1, <<H("missed")>>, <<K("bang")>>>>,
        <<t1, <<H("scope")>>, <<>>>>, others, {"rules_ff"}, <<1, 1, 1>>, 1)
\* One turn of two plays among players of one life.
Piece(chars, hands, tables, others) ==
  [Dealt(chars, hands, tables, others, {}, [p \in DOMAIN chars |-> 1], 2) EXCEPT !.left = 0]

Named(sheets, colors) == {n \in DOMAIN sheets : sheets[n].color \in colors}
Held == {"brown", "blue", "green"}
Blues == Named(Sheet, {"blue"})
Greens == Named(Sheet, {"green"})

\* Each card in the hand of the player in turn, or on its table.
HandDeals(names) ==
  {TwoPlayers("paul_regret", <<H(n), S("bang")>>, <<>>, "rose_doolan", <<H("missed"), K("bang")>>, <<>>) :
     n \in names}
TableDeals(names) ==
  {TwoPlayers("paul_regret", <<S("bang")>>, <<H(n)>>, "rose_doolan", <<H("missed")>>, <<>>) : n \in names}
\* Each character in turn, or against a player in turn with a bang.
CharacterDeals(names) ==
  {TwoPlayers(n, <<H("bang"), S("beer")>>, <<>>, "rose_doolan", <<M("missed")>>, <<>>) : n \in names}
  \cup {TwoPlayers("rose_doolan", <<S("bang")>>, <<>>, n, <<H("missed"), K("beer")>>, <<H("schofield")>>) :
          n \in names}

(***************************************************************************)
(* The base game, Dodge City and The Bullet.                               *)
(***************************************************************************)

Away3 == Away :> <<600, <<H("bart_cassidy"), H("paul_regret"), H("rose_doolan")>>>>
\* A player of one life under what may kill it at the start of its turn.
LastLife ==
  {[Dealt(<<"paul_regret", c, "rose_doolan">>, <<<<K("bang")>>, <<>>, <<>>>>,
          <<<<>>, <<S("dynamite"), H("jail")>>, <<>>>>, Main :> <<0, deck>>, {}, <<1, 1, 1>>, 0) EXCEPT !.left = 2] :
     c \in {"slab_the_killer", "lucky_duke", "vulture_sam"}, deck \in {Deck, Reverse(Deck)}}
BasePieces ==
  {Piece(<<"johnny_kisch", "rose_doolan">>, <<<<H("scope")>>, <<>>>>, <<<<>>, <<H("scope")>>>>, <<>>),
   Piece(<<"rose_doolan", "paul_regret", "herb_hunter">>, <<<<H("bang")>>, <<>>, <<>>>>, <<<<>>, <<>>, <<>>>>, <<>>),
   Piece(<<"rose_doolan", "paul_regret", "bart_cassidy">>, <<<<H("gatling")>>, <<K("beer")>>, <<>>>>,
         <<<<>>, <<H("barrel")>>, <<>>>>, <<>>),
   Piece(<<"rose_doolan", "sid_ketchum", "bart_cassidy">>, <<<<H("bang")>>, <<K("bang"), H("scope")>>, <<>>>>,
         <<<<>>, <<>>, <<>>>>, <<>>),
   Piece(<<"rose_doolan", "vera_custer", "vulture_sam">>, <<<<H("bang")>>, <<K("volcanic")>>, <<>>>>,
         <<<<>>, <<H("scope")>>, <<>>>>, <<>>)}
\* A shop of three cards, the first of them the card of a deal, with gold for it.
ShopRow(n) ==
  Shop :> <<900, <<H(n), S("gun_belt"), H("shot")>>>> @@ ShopDeck :> <<910, <<H("wanted"), S("rhum")>>>>
  @@ ButtonRow :> <<500, <<H("sell_beer"), H("discard_black")>>>>
GoldChoices ==
  Hidden :> <<520, <<H("bottle_panic"), H("bottle_beer"), H("bottle_bang"), H("pardner_general_store"),
                     H("pardner_duel"), H("pardner_cat_balou")>>>>
GoldDeal(c, n, h1, t1, t2, others) ==
  [Dealt(<<c, "rose_doolan">>, <<h1, <<H("missed")>>>>, <<t1, t2>>, others @@ ShopRow(n), {"rules_gr"}, <<1, 2>>, 1)
     EXCEPT !.gold = <<5, 0>>]
GoldTables ==
  {GoldDeal("paul_regret", n, <<>>, <<>>, <<>>, GoldChoices) : n \in Named(GoldMain, {"brown"})}
  \cup {GoldDeal("paul_regret", n, <<S("bang")>>, <<>>, <<>>, <<>>) : n \in {"wanted", "lucky_charm"}}
  \cup {GoldDeal("paul_regret", "pickaxe", <<K("beer")>>, <<H(n)>>, <<S(n)>>, <<>>) :
           n \in Named(GoldMain, {"black"})}
  \cup {GoldDeal(c, "pickaxe", <<S("bang"), K("beer")>>, <<>>, <<H("gun_belt")>>, <<>>) : c \in DOMAIN GoldCharacters}
  \cup {GoldDeal("josh_mccloud", "pickaxe", <<>>, <<>>, <<>>,
                 GoldChoices @@ ShopDeck :> <<910, <<H("boots"), S(n)>>>>) : n \in Named(GoldMain, {"brown", "black"})}

\* Three cubes on each character and on each orange card.
ArmedDeal(chars, hands, tables) ==
  [Dealt(chars, hands, tables, <<>>, {"rules_ad"}, [p \in DOMAIN chars |-> 2], 1) EXCEPT !.load = <<3, 3>>]
Oranges == Named(ArmedMain, {"orange"})
ArmedHand(n) == ArmedDeal(<<"paul_regret", "rose_doolan">>, <<<<H(n)>>, <<H("duck"), K("bang")>>>>, <<<<>>, <<H("bomb")>>>>)
ArmedTable(n) ==
  ArmedDeal(<<"paul_regret", "rose_doolan">>, <<<<S("bang")>>, <<H("missed")>>>>, <<<<H(n)>>, <<H("crate")>>>>)
ArmedCharacter(n) ==
  ArmedDeal(<<n, "rose_doolan">>, <<<<H("bang"), S("scope")>>, <<M("missed")>>>>, <<<<H("bell_tower")>>, <<>>>>)
\* Seven orange cards hold all cubes but one.
FewCubesLeft ==
  [ArmedDeal(<<"paul_regret", "rose_doolan", "bart_cassidy">>, <<<<H("bomb"), S("flintlock")>>, <<>>, <<>>>>,
             <<<<>>, <<>>, <<H("ace_up_the_sleeve"), S("bandolier"), M("bell_tower"), K("crate"), H("whip"),
                              S("beer_keg"), M("lockpick")>>>>) EXCEPT !.load = <<1, 4>>, !.left = 0]
ArmedTables ==
  {ArmedHand(n) : n \in DOMAIN ArmedMain} \cup {ArmedTable(n) : n \in Oranges}
  \cup {ArmedCharacter(n) : n \in DOMAIN ArmedCharacters}
  \cup {FewCubesLeft}

BaseTables ==
  HandDeals(Named(BaseMain, Held) \cup Named(DodgeCityMain, Held))
  \cup TableDeals((DOMAIN BaseMain \cap Blues) \cup (DOMAIN DodgeCityMain \cap Greens))
  \cup CharacterDeals(Named(BaseCharacters, {"character"})
                      \cup (Named(DodgeCityCharacters, {"character"}) \ {"vera_custer"})
                      \cup Named(BulletCharacters, {"character"})
                      \cup Named(WildWestCards, {"character"}))
  \cup {[ThreePlayers(c, <<H("bang"), S("missed")>>, <<H("volcanic")>>, Away3) EXCEPT !.left = 0, !.plays = 2] :
          c \in {"vera_custer", "vulture_sam", "greg_digger"}}
  \cup LastLife \cup BasePieces

(***************************************************************************)
(* The scenarios: High Noon, A Fistful of Cards, Wild West Show.           *)
(***************************************************************************)

Backups == <<"backup", 1>> :> <<800, <<H("slab_the_killer")>>>>
           @@ <<"backup", 2>> :> <<810, <<H("lucky_duke")>>>>
ChoiceCards == Hidden :> <<500, <<H("handcuffs_hearts"), H("handcuffs_spades"), H("peyote_red"),
                              H("peyote_black"), H("annie_oakey_red"), H("annie_oakey_hearts")>>>>
Beside(n) ==
  CASE n = "new_identity" -> Backups
    [] n = "greygory_deck" -> Away :> <<600, <<H("bart_cassidy"), H("paul_regret")>>>>
    [] n = "handcuffs" -> ChoiceCards
    [] n = "peyote" -> ChoiceCards @@ Main :> <<0, <<H("bang"), S("missed")>>>>
    [] OTHER -> <<>>
SceneDeal(n, deck) ==
  [Scene("paul_regret", <<H("bang")>>, <<S("volcanic")>>, "rose_doolan", <<H("missed")>>,
         <<H("scope")>>, Beside(n) @@ deck :> <<700, <<H(n)>>>>) EXCEPT !.left = 1]
\* One after another, with characters whose power or whose cards the scenario switches off.
FollowDeals ==
  {Scene(c, <<H("bang")>>, <<H("schofield")>>, "rose_doolan", <<K("bang")>>, <<H("scope"), S("bible")>>,
         Away3 @@ Scenario :> <<700, <<H(next[1])>>>>
         @@ <<"scenario_deck", 0>> :> <<710, <<H(next[2])>>>>) :
     c \in {"belle_star", "paul_regret"},
     next \in {<<"lasso", "hangover">>, <<"hangover", "lasso">>, <<"hangover", "sermon">>, <<"lasso", "ghost_town">>}}
ScenarioPieces ==
  {[Piece(<<"rose_doolan", "paul_regret", "slab_the_killer">>, <<<<H("bang")>>, <<>>, <<>>>>,
          <<<<>>, <<S("mustang")>>, <<H("mustang")>>>>, Scenario :> <<700, <<H("dead_man")>>>>)
     EXCEPT !.left = 2, !.plays = 1, !.rules = {"rules_ff"}],
   Piece(<<"rose_doolan", "paul_regret", "slab_the_killer">>, <<<<H("missed")>>, <<K("missed"), H("missed")>>, <<H("bang")>>>>,
         <<<<>>, <<>>, <<>>>>, Scenario :> <<700, <<H("russian_roulette")>>>>),
   Piece(<<"rose_doolan", "paul_regret">>, <<<<H("bang"), K("missed")>>, <<>>>>, <<<<>>, <<>>>>,
         WildWest :> <<700, <<H("darling_valentine")>>>>),
   [Piece(<<"rose_doolan", "paul_regret", "slab_the_killer">>, <<<<H("bang")>>, <<>>, <<H("bang")>>>>,
          <<<<>>, <<>>, <<>>>>, WildWest :> <<700, <<H("lady_rosa")>>>>) EXCEPT !.left = 1, !.plays = 1],
   [Piece(<<"rose_doolan", "greygory_deck", "vulture_sam">>, <<<<H("missed")>>, <<H("bang")>>, <<>>>>,
          <<<<H("scope")>>, <<>>, <<>>>>, Away :> <<600, <<H("bart_cassidy"), K("vulture_sam")>>>>)
     EXCEPT !.left = 1, !.plays = 1]}
ScenarioCardTables ==
  {SceneDeal(n, Scenario) : n \in Named(HighNoonCards, {"scenario"}) \cup Named(FistfulCards, {"scenario"})}
  \cup {SceneDeal(n, WildWest) : n \in Named(WildWestCards, {"scenario"})}
  \cup {ThreePlayers("paul_regret", <<H("bang")>>, <<S("volcanic")>>, Beside(n) @@ Scenario :> <<700, <<H(n)>>>>) :
          n \in {"ghost_town", "vendetta"}}
  \cup ScenarioPieces
  \cup FollowDeals

(***************************************************************************)
(* Valley of Shadows, Canyon Diablo, Wild West Show.                       *)
(***************************************************************************)

\* With the rules of an expansion, somebody may be saved from a damage or get away from a card.
Under(rule, deals) == {[d EXCEPT !.rules = @ \cup {rule}] : d \in deals}
ShadowPieces ==
  {[Piece(<<"rose_doolan", "paul_regret", "bart_cassidy">>, <<<<H("bang"), H("ghost")>>, <<>>, <<>>>>,
          <<<<>>, <<>>, <<>>>>, Main :> <<0, [i \in 1 .. 9 |-> S("missed")]>>) EXCEPT !.left = 2, !.hp = <<2, 1, 2>>],
   [Piece(<<"rose_doolan", "paul_regret", "bart_cassidy">>, <<<<H("bang"), H("ghost"), H("cat_balou")>>, <<>>, <<>>>>,
          <<<<>>, <<>>, <<>>>>, <<>>) EXCEPT !.plays = 3],
   Piece(<<"rose_doolan", "teren_kill">>, <<<<H("bang")>>, <<>>>>, <<<<>>, <<>>>>, <<>>),
   TwoPlayers("rose_doolan", <<H("bang")>>, <<>>, "john_pain", <<>>, <<H("barrel")>>),
   Piece(<<"rose_doolan", "henry_block">>, <<<<H("cat_balou")>>, <<H("bang"), S("missed")>>>>, <<<<>>, <<>>>>, <<>>),
   Piece(<<"rose_doolan", "paul_regret", "bart_cassidy">>, <<<<H("bang")>>, <<H("beer"), K("bang")>>, <<>>>>,
         <<<<>>, <<H("last_will")>>, <<>>>>, <<>>),
   Piece(<<"rose_doolan", "paul_regret", "bart_cassidy">>, <<<<H("duel")>>, <<H("bang")>>, <<>>>>,
         <<<<H("brothel")>>, <<>>, <<>>>>, Main :> <<0, [i \in 1 .. 5 |-> K("missed")]>>),
   Piece(<<"rose_doolan", "wyatt_earl">>, <<<<H("general_store")>>, <<>>>>, <<<<>>, <<>>>>, <<>>),
   Piece(<<"rose_doolan", "big_spencer">>, <<<<H("tornado"), K("bang")>>, <<H("missed")>>>>, <<<<>>, <<>>>>,
         Scenario :> <<700, <<H("sermon")>>>> @@ Main :> <<0, [i \in 1 .. 9 |-> H("bang")]>>),
   Piece(<<"rose_doolan", "paul_regret", "bart_cassidy", "suzy_lafayette">>,
         <<<<H("poker")>>, <<H("bang")>>, <<K("bang")>>, <<S("missed")>>>>, <<<<>>, <<>>, <<>>, <<>>>>, <<>>),
   Piece(<<"rose_doolan", "paul_regret">>, <<<<H("card_sharper")>>, <<>>>>, <<<<H("scope")>>, <<H("schofield")>>>>, <<>>),
   Piece(<<"annie_oakey", "rose_doolan">>, <<<<H("bang")>>, <<>>>>, <<<<>>, <<>>>>, ChoiceCards),
   Piece(<<"rose_doolan", "paul_regret">>, <<<<H("bang"), K("bang"), S("missed")>>, <<>>>>, <<<<H("bronco")>>, <<>>>>,
         ButtonRow :> <<500, <<H("discard_bronco")>>>>)}
ShadowTables ==
  Under("rules_vos", HandDeals(Named(ShadowsMain, Held)))
  \cup Under("rules_cd", HandDeals(Named(CanyonMain, Held)))
  \cup Under("rules_udo", HandDeals({"saved", "escape"}))
  \cup TableDeals({"guitar", "bronco", "pack_mule", "indian_guide", "taxman", "war_path", "arson",
                   "scrapper", "rattlesnake", "bounty", "shotgun", "lemat", "bulldog"})
  \cup CharacterDeals(Named(ShadowsCharacters, {"character"})
                      \cup (Named(CanyonCharacters, {"character"}) \ {"annie_oakey"}))
  \cup ShadowPieces

BaseDeals == {Deal(d) : d \in BaseTables \cup ArmedTables}
ScenarioCardDeals == {Deal(d) : d \in ScenarioCardTables \cup GoldTables \cup ArmedTables}
ShadowDeals == {Deal(d) : d \in ShadowTables \cup GoldTables}
===============================================================================
