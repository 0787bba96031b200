-------------------------------- MODULE Canyon --------------------------------
(***************************************************************************)
(* Canyon Diablo: the requests and effects of its cards that Events,       *)
(* Equips and Queries do not hold.                                         *)
(***************************************************************************)
EXTENDS Shadows

(***************************************************************************)
(* What answers a bang.                                                    *)
(***************************************************************************)

\* A sign that is no ace is a seven; the ranks of two cards are added up.
Rank(c) == IF Low(Sign(c)) THEN 7 ELSE 14
RankSum(t, c) == Rank(c) + (IF Top(t).card = None THEN 0 ELSE Rank(Top(t).card))
BuffaloBell(t, bell, p, c) ==
  LET sum == RankSum(t, c)
  IN  Then(DiscardEffect(t, c), LAMBDA a :
        IF sum < 13 THEN a
        ELSE Answered(IF sum \in 17 .. 19 THEN DrawTo(a, p, 1) ELSE a, bell, LAMBDA b, shooter :
               IF sum < 20 THEN b ELSE QueueAt(b, BangRequest(bell, p, shooter, {"single_target"}), 20)))

\* Whoever shot loses a card, or the turn.
Disarm(t, c, p) ==
  Answered(t, c, LAMBDA a, shooter : Queue(a, Action("disarm", c, None, shooter)))
Disarmed(t, r) ==
  IF Hand(t, r.who) = <<>> THEN {t} ELSE {DiscardCard(t, r.who, c) : c \in ToSet(Hand(t, r.who))}

Mirage(t, c, p) ==
  Answered(t, c, LAMBDA a, shooter :
    IF shooter # t.turn THEN a ELSE Queue(a, Action("mirage", c, None, shooter)))
MirageEnds(t, r) == SkipTurn(t, r.who)

Sacrifice(t, c, p) ==
  LET r == Top(t)
      fatal == t.hp[r.who] <= r.n
  IN  Queue(Damage(OneDamageLess(t, p), c, p, p, 1, {}),
            [Action("sacrifice", c, r.who, p) EXCEPT !.n = IF fatal THEN 3 ELSE 2])
Sacrificed(t, r) == IF Alive(t, r.who) /\ Alive(t, r.by) THEN DrawTo(t, r.who, r.n) ELSE t

(***************************************************************************)
(* The turn.                                                               *)
(***************************************************************************)

\* Bulldog: a bang at everybody, for one card more than the one that fires.
BulldogOk(chosen, discarded) == chosen # discarded
Bulldog(t, p, chosen) == PlayAsGatling(t, p, chosen)

\* Eva Place looks at a card each time the request is updated.
EvaPlace(t, c, p) == Queue(t, Request("eva_place", c, None, p))
UpdateEvaPlace(t, r) ==
  Then(TopOfDeck(t), LAMBDA a :
    IF Stopped(a) THEN a
    ELSE Live(SetTop(MoveTo(a, DeckTop(a), <<"selection", r.who>>, "owner"), [r EXCEPT !.c = DeckTop(a)])))
\* Shown, it is worth another one when it is of diamonds.
EvaPicked(t, r) ==
  DrawTo(ToHand(SetVisibility(Pop(t), r.c, "shown", 0), r.who, r.c), r.who,
         IF Suit(Sign(r.c)) = "diamonds" THEN 1 ELSE 0)
EvaResolved(t, r) == ToHand(Pop(t), r.who, r.c)

\* Annie Oakey: each card is shown, and more are drawn when its suit was guessed.
UpdateAnnieOakey(t, r) ==
  Then(SetTop(IF r.live THEN t ELSE CleanupSelection(t, r.s), [r EXCEPT !.s = <<>>]), LAMBDA a :
    IF ~Alive(t, r.who) \/ r.n >= r.m THEN Pop(a) ELSE Live(a))
AnnieOakeyOk(t, p) == TopIs(t, {"annie_oakey"}) /\ Top(t).who = p
AnnieResolved(t, r) == Then(DrawPhaseOne(t, r), LAMBDA x : SetTop(x.t, x.r))
Guessed(choice, c) ==
  CASE choice = 1 /\ Red(Suit(Sign(c))) -> 1
    [] choice = 2 /\ Hearts(Suit(Sign(c))) -> 2
    [] OTHER -> 0
GuessAnnie(t, choice) ==
  Then(PhaseOneReady(t, Top(t)), LAMBDA a :
    IF Stopped(a) THEN a
    ELSE Then(PhaseOneCard(a, Top(t)), LAMBDA c :
         Then(AddPhaseOne(SetVisibility(a, c, "shown", 0),
                          [PhaseOneTaken(a, Top(t)) EXCEPT !.m = @ + Guessed(choice, c)], c),
              LAMBDA x : SetTop(x.t, x.r))))

\* Grave Robber: a general store of the cards discarded last.
GraveRobber(t, skipped) ==
  Repeat(t, NumAlive(t) - (IF skipped = None THEN 0 ELSE 1), LAMBDA a :
    IF a.pile[Discards] = <<>> THEN ShowTop(TopOfDeck(a))
    ELSE MoveTo(a, Last(a.pile[Discards]), Selection, "shown"))

\* Last Will: up to three cards for another player, by one about to die.
UpdateLastWill(t, r) == IF t.hp[r.who] > 0 THEN Pop(t) ELSE Live(t)
LastWillOk(t, p) == TopIs(t, {"lastwill"}) /\ Top(t).who = p
Bequeath(t, cards, q) == ForEach(Pop(t), cards, LAMBDA a, c : StealCard(a, q, c))

(***************************************************************************)
(* Card Sharper: two blue cards on the table change owners.                *)
(***************************************************************************)

SwitchOk(t, p, chosen, target) ==
  ~SameOnTable(t, p, target) /\ ~SameOnTable(t, Owner(t, target), chosen)
\* s holds the card of r.by
SwitchCards(t, c, p, chosen, target) ==
  QueueAt(t, [Request("switch", c, p, Owner(t, target)) EXCEPT
                !.c = target, !.s = <<chosen>>, !.flags = {"escapable", "single_target"}], 40)
\* The cards are blue, as the filters of Card Sharper's targets ask: a green one
\* would come inactive when its new bearer had equipped it in the same turn.
SwitchResolved(t, r) ==
  LET q == Owner(t, r.c)
      mine == r.s[1]
      both == <<r.c, mine>>
      moved == MoveTo(SetInactive(MoveTo(ForEach(Pop(t), both, DisableEquip), r.c, TableOf(r.by), "shown"),
                                  mine, FALSE), mine, TableOf(q), "shown")
  IN  ForEach(moved, both, EnableEquip)
=============================================================================
