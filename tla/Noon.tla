--------------------------------- MODULE Noon ---------------------------------
(***************************************************************************)
(* High Noon, A Fistful of Cards, Dodge City and The Bullet: the requests  *)
(* and effects of their cards that Events and Equips do not hold.          *)
(***************************************************************************)
EXTENDS Draws

\* The Daltons: a blue card on the table of r.who.
DaltonsPick(t, r, c) == IsIn(t, c, TableOf(r.who)) /\ Color(c) = "blue"
DaltonsPicked(t, r, c) == DiscardCard(Pop(t), r.who, c)

Sniper(t, c, p, q) == Queue(t, [BangRequest(c, p, q, {}) EXCEPT !.n = 2])

\* A shot at a card on the table, which its owner may dodge.
Ricochet(t, c, p, target) == Targeting(t, "ricochet", c, p, target, {})

(***************************************************************************)
(* Peyote: the player guesses the color of each card instead of drawing.   *)
(***************************************************************************)

PeyoteOk(t, p) == TopIs(t, {"peyote"}) /\ Top(t).who = p
GuessPeyote(t, p, choice) ==
  Then(TopOfDeck(t), LAMBDA a :
    IF Stopped(a) THEN a
    ELSE Then(SetVisibility(a, DeckTop(a), "shown", 0), LAMBDA b :
           IF (choice = 1) = Red(Suit(Sign(DeckTop(b)))) THEN ToHand(b, p, DeckTop(b))
           ELSE ToDiscards(Pop(b), DeckTop(b))))

(***************************************************************************)
(* Ranch: any of the cards of the hand for as many from the deck.          *)
(***************************************************************************)

UpdateRanch(t, r) ==
  IF ~Alive(t, r.who) \/ Hand(t, r.who) = <<>> \/ t.turn # r.who THEN Pop(t) ELSE Live(t)
RanchOk(t, p) == TopIs(t, {"ranch"}) /\ Top(t).who = p
PlayRanch(t, p, cards) ==
  DrawTo(ForEach(Pop(t), cards, DiscardEffect), p, Len(cards))

(***************************************************************************)
(* Blood Brothers and Blood Pact.                                          *)
(***************************************************************************)

BloodBrothersOk(t, p, q) == t.hp[p] > 1 /\ t.hp[q] # t.max[q]
GiveBlood(t, c, p, q) ==
  Queue(Damage(t, c, p, p, 1, {}), Action("heal", c, p, q))

\* Doc Holyday shoots with two cards, unless his target is immune to both.
DocHolyday(t, c, p, cards, q) ==
  Then(ForEach(t, cards, DiscardEffect), LAMBDA a :
    IF \A i \in DOMAIN cards : Immune(a, cards[i], p, q, {}) THEN a ELSE Bang(a, c, p, q, {}))

(***************************************************************************)
(* Vera Custer: the characters of another player, until her next turn.     *)
(***************************************************************************)

UpdateVeraCuster(t, r) ==
  IF Alive(t, r.who) /\ t.turn = r.who /\ ~Disabled(t, r.card) THEN Live(t)
  ELSE RemoveExtraCharacters(Pop(t), r.who)
VeraPick(r, q) == q # r.who

\* The copies of the characters, made once and used again.
CopyOf(t, c) ==
  LET copies == SelectSeq(t.pile[Away], LAMBDA d : Name(d) = Name(c))
  IN  IF copies = <<>> THEN c ELSE Head(copies)
TakeCopy(t, p, c) == EnableEquip(MoveTo(t, c, CharactersOf(p), "shown"), c)
VeraPicked(t, r, q) ==
  LET copied == SubSeq(Characters(t, q), Max({1, Len(Characters(t, q)) - 1}), Len(Characters(t, q)))
      had == Tail(Characters(t, r.who))
      Same == Len(had) = Len(copied) /\ \A i \in DOMAIN had : Name(had[i]) = Name(copied[i])
  IN  IF Same THEN Pop(t)
      ELSE ForEach(RemoveExtraCharacters(Pop(t), r.who), copied,
                   LAMBDA a, c : IF CopyOf(a, c) = c THEN Lose(a)
                                 ELSE TakeCopy(a, r.who, CopyOf(a, c)))

(***************************************************************************)
(* Handcuffs: only cards of one suit may be played in the turn.            *)
(***************************************************************************)

HandcuffsOk(t, p) == TopIs(t, {"handcuffs"}) /\ Top(t).who = p
SuitOf(n) == IF n = 1 THEN "hearts" ELSE "spades"
ChooseSuit(t, p, n) == Listen(Pop(t), Listener("suit", Top(t).card, p, n))
\* check_play_card
SuitAllows(t, c) ==
  ~\E i \in DOMAIN t.lis : LET l == t.lis[i]
                           IN  l.kind = "suit" /\ IsIn(t, c, HandOf(l.who)) /\ Suit(Sign(c)) # SuitOf(l.n)

(***************************************************************************)
(* New Identity: the other character dealt to the player, with two lives.  *)
(***************************************************************************)

UpdateNewIdentity(t, r) ==
  IF ~Alive(t, r.who) \/ t.turn # r.who THEN Pop(t)
  ELSE IF r.live THEN Live(t)
  ELSE IF t.pile[BackupOf(r.who)] = <<>> THEN Lose(t)
  ELSE Live(MoveTo(t, Head(t.pile[BackupOf(r.who)]), Selection, "owner"))
IdentityPick(t, r, c) == IsSelected(t, c) \/ c = Head(Characters(t, r.who))

ChangeIdentity(t, p, new) ==
  LET old == Head(Characters(t, p))
      off == MoveTo(DisableEquip(RemoveExtraCharacters(t, p), old), old, BackupOf(p), "hidden")
      cubed == MoveCubes(MoveTo(off, new, CharactersOf(p), "shown"), old, new, t.cubes[old])
  IN  Then(EnableEquip([cubed EXCEPT !.max[p] = Sheet[Name(new)].hp], new), LAMBDA a :
        IF IsGhost(a, p) THEN a ELSE SetHp(a, p, 2))
IdentityPicked(t, r, c) ==
  IF IsSelected(t, c) THEN ChangeIdentity(Pop(t), r.who, c)
  ELSE MoveTo(Pop(t), Head(Selected(t)), BackupOf(r.who), "hidden")

(***************************************************************************)
(* Claus the Saint: a card for every other player, the rest for him.       *)
(***************************************************************************)

UpdateClaus(t, r) ==
  IF r.live THEN Live(t) ELSE Live(ToSelection(t, r, NumAlive(t) + r.m - 1))
\* c: the players that have been given theirs
ClausOk(t, p) == TopIs(t, {"claus_the_saint"}) /\ Top(t).who = p
ClausTarget(t, r, q) == Alive(t, q) /\ q # r.who /\ (r.c = None \/ q \notin r.c)
RECURSIVE KeepRest(_, _)
KeepRest(t, r) ==
  IF Selected(t) = <<>> THEN Pop(t)
  ELSE Then(AddPhaseOne(t, r, Head(Selected(t))), LAMBDA x : KeepRest(x.t, x.r))
GiveCard(t, c, q) ==
  LET r == [Top(t) EXCEPT !.c = IF @ = None THEN {q} ELSE @ \cup {q}]
  IN  Then(ToHand(SetTop(t, r), q, c), LAMBDA a :
        IF Len(Selected(a)) > r.m THEN a ELSE KeepRest(a, r))

\* on_equip_card: Johnny Kisch takes the same card away from everybody else.
JohnnyKisch(t, l, p, q, c) ==
  IF l.who # p THEN t
  ELSE ForEach(t, OthersFrom(t, q), LAMBDA a, o :
    LET same == SelectSeq(OnTable(a, o), LAMBDA d : Name(d) = Name(c))
    IN  IF same = <<>> THEN a ELSE DiscardCard(a, o, Head(same)))
\* ruleset_goldrush: another card for the one bought
ShopFilled(t, c) == IF GameFlag(t, "rules_gr") /\ Color(c) = "black" THEN DrawShopCard(t) ELSE t
\* ruleset_armedanddangerous: cubes on an orange card, one for whoever plays a blue one
CubesPlaced(t, p, c) ==
  CASE ~CubesRule(t) -> t
    [] Color(c) = "blue" -> AddCubeEffect(t, c, p, 1)
    [] Color(c) = "orange" -> AddCubes(t, c, 3)
    [] OTHER -> t
AlPreacher(t, l, p, c) ==
  IF p # l.who /\ Color(c) \in {"blue", "orange"} THEN Queue(t, Request("can_play", l.card, p, l.who)) ELSE t
OnEquipCard(t, p, q, c) ==
  CallEvent(CubesPlaced(GreenPlaced(ShopFilled(t, c), c), p, c), [johnny_kisch |-> 0, al_preacher |-> 0],
    LAMBDA a, l : IF l.kind = "al_preacher" THEN AlPreacher(a, l, p, c) ELSE JohnnyKisch(a, l, p, q, c))
=============================================================================
