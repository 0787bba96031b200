------------------------------- MODULE Targets -------------------------------
(***************************************************************************)
(* What an effect may take as its targets, and what it does to them:       *)
(* src/src/game/filters.cpp, src/src/target_types, and the can_play,       *)
(* get_error and on_play of each effect, which the files of src/src/effects*)
(* give under its name.                                                    *)
(*                                                                         *)
(* An effect is E(do, n, to, f) of Sheets.  Its targets are a sequence of  *)
(* players or of cards.  A random card of a hand is any card of it.        *)
(*                                                                         *)
(* x is the context of a play: the card it counts as, the card that is     *)
(* played again, the choice made first, whether bangs are not counted, the *)
(* gold taken off the price, how often the cubes of the card have been     *)
(* paid, whether the distance is ignored, and whether whoever was aimed at *)
(* before is not looked at.                                                *)
(***************************************************************************)
EXTENDS Armed

Context(c) == [playing |-> c, again |-> None, choice |-> None, free |-> FALSE, discount |-> 0,
               cubes |-> 0, far |-> FALSE, unchecked |-> FALSE]

Ranges == {"reachable", "range_1", "range_2"}
\* check_player_filter
PlayerOk(t, x, p, q, f) ==
  LET reach == CASE "reachable" \in f -> WeaponRange(t, p)
                 [] "range_1" \in f -> 1
                 [] OTHER -> 2
  IN  /\ Alive(t, q) # ("dead" \in f)
      /\ ("self" \in f => q = p)
      /\ ("notself" \in f => q # p)
      /\ ("not_empty_hand" \in f => Hand(t, q) # <<>>)
      /\ ("not_empty_cubes" \in f => CountCubes(t, q) # 0)
      /\ ("target_set" \in f => (ClausOk(t, p) /\ ClausTarget(t, Top(t), q)))
      /\ \/ f \cap Ranges = {}
         \/ x.far
         \/ reach # 0 /\ Distance(t, p, q) <= RangeMod(t, p) + reach

IsCubeSlot(t, c) ==
  \/ Pocket(t, c) = "character" /\ c = Head(Characters(t, Owner(t, c)))
  \/ Pocket(t, c) = "table" /\ Color(c) = "orange"
\* check_card_filter
CardOk(t, card, p, c, f) ==
  /\ c # card \/ "can_target_self" \in f
  /\ IF "cube_slot" \in f THEN IsCubeSlot(t, c)
     ELSE /\ ("selection" \in f) = IsSelected(t, c)
          /\ Pocket(t, c) \in {"hand", "table", "selection"}
  /\ \A place \in {"hand", "table"} \cap f : Pocket(t, c) = place
  /\ \A tag \in {"beer", "bangcard", "missed", "missedcard", "bronco"} \cap f : HasTag(c, tag)
  /\ ("bang" \in f => IsBangCard(t, p, c))
  /\ ("used_bang" \in f => (GameFlag(t, "showdown") \/ IsBangCard(t, p, c)))
  /\ ("not_bangcard" \in f => ~HasTag(c, "bangcard"))
  /\ ("not_missedcard" \in f => ~HasTag(c, "missedcard"))
  /\ ("blue" \in f => Color(c) = "blue")
  /\ ("black" \in f) = (Color(c) = "black")
  /\ ("clubs" \in f => Suit(Sign(c)) = "clubs")

\* get_play_card_error; the listeners of check_play_card
GreenInactive(t, c) == c \in t.tapped
CubesLeft(t, c) == ~(CubesRule(t) /\ Pocket(t, c) = "hand" /\ Color(c) = "orange" /\ t.bank < 3)
PlayCardOk(t, c) == ~Disabled(t, c) /\ ~GreenInactive(t, c) /\ SuitAllows(t, c) /\ CubesLeft(t, c)

(***************************************************************************)
(* Whether an effect may be played at all, and on each target.             *)
(***************************************************************************)

CardChoiceOk(t, x, card) ==
  \/ x.again # None
  \/ x.choice # None /\ Sheet[Name(x.choice)].choice = Sheet[Name(card)].choice
CanPlayCardOk(t, card, p) == TopIs(t, {"can_play"}) /\ Top(t).who = p /\ Top(t).card = card

EffectOk(t, x, card, p, e) ==
  CASE e.do \in {"missed", "missedcard", "barrel", "backfire", "mirage", "disarm", "buffalo_bell"} ->
         MissedOk(t, card, p)
    [] e.do = "deathsave" -> DeathsaveOk(t, p)
    [] e.do = "beer" -> BeerOk(t)
    [] e.do = "banglimit" -> x.free \/ BanglimitOk(t, p)
    [] e.do = "damage" -> DamageOk(t, p, e.n)
    [] e.do = "heal_notfull" -> HealNotFullOk(t, p)
    [] e.do = "max_usages" -> MaxUsagesOk(t, card, p, e.n)
    [] e.do \in {"add_draw_card", "skip_drawing"} -> WhileDrawing(t, p)
    [] e.do = "no_cards_drawn" -> NoCardsDrawn(t, p)
    [] e.do = "draw_discard" -> DrawDiscardOk(t)
    [] e.do = "can_play_card" -> CanPlayCardOk(t, card, p)
    [] e.do = "card_choice" -> CardChoiceOk(t, x, card)
    [] e.do = "pay_gold" -> PayGoldOk(t, p, e.n)
    [] e.do = "forced_play" -> ForcedPlayOk(t, card, p)
    [] e.do = "handcuffs" -> HandcuffsOk(t, p)
    [] e.do = "peyote" -> PeyoteOk(t, p)
    [] e.do = "annie_oakey" -> AnnieOakeyOk(t, p)
    [] e.do = "ranch" -> RanchOk(t, p)
    [] e.do = "claus_the_saint" -> ClausOk(t, p)
    [] e.do = "lastwill" -> LastWillOk(t, p)
    [] e.do = "escape" -> EscapeOk(t, p)
    [] e.do \in {"saved", "sacrifice"} -> SavedOk(t, p)
    [] e.do = "ladyrosaoftexas" -> LadyRosaOk(t)
    [] e.do = "tumbleweed" -> TumbleweedOk(t, p)
    [] e.do = "ms_abigail" -> MsAbigailOk(t, p)
    [] OTHER -> TRUE

\* get_error with a target: v is a player or a card.
TargetOk(t, x, card, p, e, v) ==
  CASE e.do = "bangcard" -> BangcardOk(t, x.unchecked, card, p, v)
    [] e.do = "frankie_canton" -> FrankieCantonOk(t, p, v)
    [] e.do = "evelyn_shebang" -> BangTargetOk(t, card, p, v)
    [] e.do = "blood_brothers" -> BloodBrothersOk(t, p, v)
    [] e.do = "discard" -> DiscardOk(t, v)
    [] e.do = "discard_black" -> DiscardBlackOk(t, p, v)
    [] OTHER -> TRUE

PlayerTarget(t, x, card, p, e, q) == PlayerOk(t, x, p, q, e.f) /\ TargetOk(t, x, card, p, e, q)
CardTarget(t, x, card, p, e, c) ==
  /\ (Owner(t, c) # 0 => PlayerOk(t, x, p, Owner(t, c), e.f))
  /\ CardOk(t, card, p, c, e.f)
  /\ TargetOk(t, x, card, p, e, c)

(***************************************************************************)
(* The targets of each type.                                               *)
(***************************************************************************)

Targetable(t) == {c \in Cards(t) : Pocket(t, c) \in {"hand", "table", "selection", "character"}}
CardTargets(t, x, card, p, e) == {c \in Targetable(t) : CardTarget(t, x, card, p, e, c)}
PlayerTargets(t, x, card, p, e) == {q \in Players(t) : PlayerTarget(t, x, card, p, e, q)}
\* From m to n elements of S, named in one order of the many a client may choose.
Picks(S, m, n) ==
  {SetToSortSeq(A, LAMBDA a, b : OrderOf(a) < OrderOf(b)) : A \in UNION {kSubset(k, S) : k \in m .. n}}

\* players: everybody the filter lets through, from the one that plays on, but none when the
\* effect refuses one of them
PlayersTargets(t, x, card, p, e) ==
  {s \in {SelectSeq(AliveFrom(t, p), LAMBDA q : PlayerOk(t, x, p, q, e.f))} :
     \A q \in ToSet(s) : TargetOk(t, x, card, p, e, q)}

\* adjacent_players: one in range, and another no more than n away from it
AdjacentPlayers(t, x, card, p, e) ==
  {<<q, r>> \in Players(t) \X Players(t) :
     PlayerOk(t, x, p, q, e.f) /\ Alive(t, r) /\ q # r /\ Distance(t, q, r) <= e.n}

\* card_per_player: one card of each that has any
CardsOfEach(t, x, card, p, e) ==
  LET Of(q) == {c \in ToSet(OnTable(t, q)) \cup ToSet(Hand(t, q)) : CardOk(t, card, p, c, e.f)}
      asked == SelectSeq(t.seats, LAMBDA q : PlayerOk(t, x, p, q, e.f) /\ Of(q) # {})
  IN  {s \in [DOMAIN asked -> Targetable(t)] : \A i \in DOMAIN asked : s[i] \in Of(asked[i])}

\* One of S, and nothing where there is none of them.
One(S) == {<<v>> : v \in S}
\* extra_card: a card, but none for one that is played again
ExtraCard(x, S) == IF x.again # None THEN {<<>>} ELSE One(S)
ConditionalPlayer(S) == IF S = {} THEN {<<>>} ELSE One(S)
CardsTargets(S, n) == Picks(S, Max({1, n}), Max({1, n}))
MaxCardsTargets(S, n) == Picks(S, 1, IF n = 0 THEN Cardinality(S) ELSE Min({n, Cardinality(S)}))

CubeTypes == {"select_cubes", "select_cubes_optional", "select_cubes_repeat"}
\* n cubes of these cards, most[c] of each at most, in the order of the cards
CubeLists(cards, most, n) ==
  LET Counts == {k \in [DOMAIN cards -> 0 .. n] :
                   /\ FoldFunction(+, 0, k) = n
                   /\ \A i \in DOMAIN cards : k[i] <= most[cards[i]]}
  IN  {FlattenSeq([i \in DOMAIN cards |-> [j \in 1 .. k[i] |-> cards[i]]]) : k \in Counts}
OwnCubes(t, p, n) == CubeLists(CubeSlots(t, p), t.cubes, n)
\* select_cubes_repeat: the price as many times as there are cubes for it
RepeatedCubes(t, p, n) == UNION {OwnCubes(t, p, n * k) : k \in 0 .. (CountCubes(t, p) \div n)}
\* player_per_cube: n players, and one more for each cube
PlayerPerCube(t, p, S, n) ==
  UNION {OwnCubes(t, p, k) \X {SetToSortSeq(A, <) : A \in kSubset(k + n, S)} :
           k \in 0 .. Min({CountCubes(t, p), Cardinality(S) - n})}
\* move_cube_slot: at most n, onto the orange cards with room for them
MoveCubeTargets(t, p, n) ==
  LET orange == SelectSeq(OnTable(t, p), LAMBDA c : Color(c) = "orange")
      room == [c \in ToSet(orange) |-> CubeRoom(t, c)]
      most == Min({n, t.cubes[Head(Characters(t, p))]})
  IN  UNION {CubeLists(orange, room, k) : k \in 1 .. most}

\* The lists of cubes that may be paid: none at all is also a price where it is optional.
CubeTargets(t, p, e) ==
  IF e.to = "select_cubes_repeat" THEN RepeatedCubes(t, p, e.n)
  ELSE OwnCubes(t, p, e.n) \cup (IF e.to = "select_cubes_optional" THEN {<<>>} ELSE {})

\* cards and players: those the filters and the effect let through
ListsOf(t, x, card, p, e, cards, players) ==
  CASE e.to = "card" -> One(cards)
    [] e.to = "extra_card" -> ExtraCard(x, cards)
    [] e.to = "player" -> One(players)
    [] e.to = "players" -> PlayersTargets(t, x, card, p, e)
    [] e.to = "adjacent_players" -> AdjacentPlayers(t, x, card, p, e)
    [] e.to = "card_per_player" -> CardsOfEach(t, x, card, p, e)
    [] e.to = "conditional_player" -> ConditionalPlayer(players)
    [] e.to = "cards" -> CardsTargets(cards, e.n)
    [] e.to = "max_cards" -> MaxCardsTargets(cards, e.n)
    [] e.to \in CubeTypes -> CubeTargets(t, p, e)
    [] e.to = "player_per_cube" -> PlayerPerCube(t, p, players, e.n)
    [] e.to = "move_cube_slot" -> MoveCubeTargets(t, p, e.n)
    [] OTHER -> {<<>>}
TargetsOf(t, x, card, p, e) ==
  IF EffectOk(t, x, card, p, e)
  THEN ListsOf(t, x, card, p, e, CardTargets(t, x, card, p, e), PlayerTargets(t, x, card, p, e))
  ELSE {}
=============================================================================
