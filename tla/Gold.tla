---------------------------------- MODULE Gold ----------------------------------
(***************************************************************************)
(* Gold Rush: the shop, whose cards are paid with gold, and the requests   *)
(* and effects of its cards that Events, Equips and Queries do not hold.   *)
(***************************************************************************)
EXTENDS Canyon

PayGoldOk(t, p, n) == t.gold[p] >= n
PayGold(t, p, n) == AddGold(t, p, -n)

\* A black card of another player, for one nugget more than it costs.
DiscardBlackOk(t, p, c) == t.gold[p] > Sheet[Name(c)].cost
DiscardBlack(t, p, c) == DiscardCard(AddGold(t, p, -Sheet[Name(c)].cost - 1), Owner(t, c), c)

SellBeer(t, p, c) == OnPlayBeer(AddGold(DiscardCard(t, p, c), p, 1), p)

\* Gold Rush: healed at the end of the turn, which is followed by another.
GoldRush(t, c, p) == [Listen(t, Listener("goldrush", c, p, 0)) EXCEPT !.extra[p] = @ + 1]

\* add_context of discount; get_card_cost, of a card that is not on a table
DiscountOk(t, c) == HasTag(c, "goldrush") /\ Pocket(t, c) # "table"
CardCost(t, x, c) ==
  LET bought == IF x.choice = None THEN c ELSE x.choice
  IN  IF x.again # None \/ Pocket(t, bought) = "table" THEN 0 ELSE Sheet[Name(bought)].cost - x.discount

\* discard_shop_selection_card
DiscardShopCard(t, c) == QueueAt(MoveTo(t, c, ShopDiscards, "shown"), Action("refill_shop", None, None, None), -1)
RefillShop(t) == IF Len(t.pile[Shop]) < 3 THEN DrawShopCard(t) ELSE t

(***************************************************************************)
(* Rum: a life for each suit among the cards drawn.                        *)
(***************************************************************************)

Rum(t, c, p) == Queue(t, Request("rum", c, None, p))
CountSuits(t) == Cardinality({ModSuit(t, c) : c \in ToSet(Selected(t))})
ResolveRum(t, r) ==
  Heal(ForEach(Pop(t), Selected(t), LAMBDA a, c : ToDiscards(OnDrawCheckResolve(a, r.who, c), c)),
       r.who, CountSuits(t))
StartRum(t, r) == Repeat(t, 3 + NumChecks(t, r.who), LAMBDA a : ShowTop(TopOfDeck(a)))
DrawRum(t, r) ==
  Then(StartRum(t, r), LAMBDA a :
    IF Tumbleweeds(a) = <<>> THEN ResolveRum(a, r)
    ELSE Then([r EXCEPT !.live = TRUE], LAMBDA s : AskTumbleweed(SetTop(a, s), s)))
UpdateRum(t, r) == IF r.live THEN Live(t) ELSE DrawRum(t, r)

(***************************************************************************)
(* Dutch Will: all cards but one are drawn, the last is sold.              *)
(***************************************************************************)

UpdateDutchWill(t, r) == IF r.live THEN Live(t) ELSE Live(ToSelection(t, r, r.m))
DutchWillPicked(t, r, c) ==
  Then(AddPhaseOne(t, r, c), LAMBDA x :
    IF Len(Selected(x.t)) # 1 THEN SetTop(x.t, x.r)
    ELSE AddGold(ToDiscards(Pop(x.t), Head(Selected(x.t))), r.who, 1))

(***************************************************************************)
(* Josh McCloud: the next card of the shop deck must be used.  c is it.    *)
(***************************************************************************)

JoshMcCloud(t, card, p) ==
  Then(DrawShopCard(t), LAMBDA a :
    IF Stopped(a) THEN a
    ELSE Queue(a, [Request(IF Color(Last(a.pile[Shop])) = "black" THEN "force_equip" ELSE "force_play",
                           card, None, p) EXCEPT !.c = Last(a.pile[Shop])]))

ForcedPlayOk(t, card, p) == TopIs(t, {"force_play"}) /\ Top(t).who = p /\ Top(t).c = card
ForcedPlay(t) == Pop(t)

\* equip_card: the event on_equip_card is for cards that are bought.
ForceEquipped(t, r, q) == EquipCard(Pop(t), q, r.c)
=============================================================================
