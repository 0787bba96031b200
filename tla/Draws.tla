-------------------------------- MODULE Draws --------------------------------
(***************************************************************************)
(* The requests of the base game that move cards: the draw that begins a   *)
(* turn, the cards drawn to see whether a player is lucky, the checks      *)
(* before the draw, and the discards that end a turn or a life.            *)
(*                                                                         *)
(* A draw, its record r, outlives its request: the characters that change  *)
(* how cards are drawn take it along in a request of their own.  Its       *)
(* fields: n the cards drawn, m the cards to draw, s those set aside.      *)
(***************************************************************************)
EXTENDS BaseCards

QueueDraw(t, c, p, n) == Queue(t, [Action("queue_draw", c, None, p) EXCEPT !.n = n])
DrawDiscardOk(t) == t.pile[Discards] # <<>> /\ ~GameFlag(t, "phase_one_draw_discard")
DrawDiscard(t, p) == ToHand(t, p, Last(t.pile[Discards]))

(***************************************************************************)
(* Phase one.                                                              *)
(***************************************************************************)

FromDiscards(t) == GameFlag(t, "phase_one_draw_discard") /\ t.pile[Discards] # <<>>
\* The deck is filled up when it is the deck that gives the card.
PhaseOneReady(t, r) == IF FromDiscards(t) \/ r.s # <<>> THEN t ELSE TopOfDeck(t)
PhaseOneCard(t, r) == CASE FromDiscards(t) -> Last(t.pile[Discards])
                        [] r.s # <<>> -> Head(r.s)
                        [] OTHER -> DeckTop(t)
PhaseOneTaken(t, r) == IF FromDiscards(t) \/ r.s = <<>> THEN r ELSE [r EXCEPT !.s = Tail(@)]

\* on_card_drawn, asked of the second card: x holds the table, the draw and the reveal.
BlackJack(x, l, c) ==
  IF l.who # x.r.who \/ x.r.n # 2 THEN x
  ELSE [x EXCEPT !.reveal = TRUE, !.r.m = IF Red(ModSuit(x.t, c)) THEN @ + 1 ELSE @]
LawOfTheWest(x, l, c) ==
  IF x.r.n # 2 THEN x
  ELSE [x EXCEPT !.reveal = TRUE, !.t = Listen(@, Listener("law_card", l.card, x.r.who, OrderOf(c)))]
OnCardDrawn(t, r, c) ==
  FoldLeft(LAMBDA x, l : IF l.kind = "black_jack" THEN BlackJack(x, l, c) ELSE LawOfTheWest(x, l, c),
           [t |-> t, r |-> r, reveal |-> FALSE],
           Listening(t, [black_jack |-> 0, lawofthewest |-> 0]))

AddPhaseOne(t, r, c) ==
  Then(OnCardDrawn(t, [r EXCEPT !.n = @ + 1], c), LAMBDA x :
    [t |-> ToHand(IF x.reveal /\ Pocket(t, c) # "discards" /\ ~HandsShown(t)
                  THEN SetVisibility(x.t, c, "shown", 0) ELSE x.t, r.who, c),
     r |-> x.r])

\* One card more, from wherever phase one takes it.
DrawPhaseOne(t, r) ==
  Then(PhaseOneReady(t, r), LAMBDA a :
    IF Stopped(a) THEN [t |-> a, r |-> r]
    ELSE AddPhaseOne(a, PhaseOneTaken(a, r), PhaseOneCard(a, r)))

CleanupSelection(t, cards) == ForEach(t, cards, LAMBDA a, c : ToDeck(a, c))
UpdateDraw(t, r) ==
  LET drawn == [r EXCEPT !.m = IF r.live THEN @ ELSE CardsToDraw(t, r.who), !.s = <<>>]
  IN  Then(CleanupSelection(SetTop(t, drawn), Selected(t)), LAMBDA a :
        IF /\ ~GameFlag(t, "phase_one_override") /\ Alive(t, r.who) /\ t.turn = r.who
           /\ drawn.n < drawn.m
        THEN Live(a) ELSE Pop(a))
DrawPick(t, c) ==
  Pocket(t, c) = IF t.pile[Main] = <<>> \/ FromDiscards(t) THEN "discards" ELSE "deck"

\* on_draw_from_deck: the first of these, of the player that draws, handles the draw.
DrawHandlers(t, r) ==
  SelectSeq(Listening(t, [kit_carlson |-> 0, claus_the_saint |-> 0, annie_oakey |-> 0, dutch_will |-> 0]),
            LAMBDA l : /\ l.who = r.who
                       /\ CASE l.kind = "claus_the_saint" -> TRUE
                            [] l.kind = "dutch_will" -> r.m > 1
                            [] OTHER -> r.m < 3)
Takeover(r, l) == [Request(l.kind, l.card, None, r.who) EXCEPT !.n = r.n, !.m = r.m, !.s = r.s]

RECURSIVE DrawAll(_, _)
DrawAll(t, r) ==
  IF r.n >= r.m \/ Stopped(t) THEN CleanupSelection(t, r.s)
  ELSE Then(DrawPhaseOne(t, r), LAMBDA x : DrawAll(x.t, x.r))
DrawPicked(t, r) ==
  IF DrawHandlers(t, r) # <<>> THEN Queue(Pop(t), Takeover(r, Head(DrawHandlers(t, r))))
  ELSE DrawAll(Pop(t), r)

\* What may be played instead of drawing.
WhileDrawing(t, p) == TopIs(t, {"draw"}) /\ Top(t).who = p
NoCardsDrawn(t, p) == WhileDrawing(t, p) /\ Top(t).n = 0
AddDrawCard(t) == SetTop(t, [Top(t) EXCEPT !.n = @ + 1])
SkipDrawing(t) == Pop(CleanupSelection(t, Top(t).s))

\* Cards put where only the player that draws sees them.
RECURSIVE ToSelection(_, _, _)
ToSelection(t, r, n) ==
  IF n = 0 \/ Stopped(t) THEN SetTop(t, r)
  ELSE Then(PhaseOneReady(t, r), LAMBDA a :
         IF Stopped(a) THEN a
         ELSE ToSelection(MoveTo(a, PhaseOneCard(a, r), <<"selection", r.who>>, "owner"),
                          PhaseOneTaken(a, r), n - 1))
UpdateKitCarlson(t, r) == IF r.live THEN Live(t) ELSE Live(ToSelection(t, r, 3))
KitCarlsonPicked(t, r, c) ==
  Then(AddPhaseOne(t, r, c), LAMBDA x :
    IF x.r.n >= x.r.m THEN CleanupSelection(Pop(x.t), Selected(x.t)) ELSE SetTop(x.t, x.r))

(***************************************************************************)
(* The draw of a card: request_check.                                      *)
(***************************************************************************)

\* on_draw_check_resolve: John Pain takes the card.
JohnPain(t, l, p, c) ==
  Queue(t, [Action("john_pain", l.card, p, l.who) EXCEPT !.c = c])
JohnPainTakesCard(t, r) ==
  IF /\ Alive(t, r.who) /\ Pocket(t, r.c) # "hand" /\ JohnPainTakes(t, r.who)
     /\ FirstTaker(t, r.by, r.who, LAMBDA p : JohnPainTakes(t, p))
  THEN ToHand(t, r.who, r.c) ELSE t
OnDrawCheckResolve(t, p, c) ==
  CallEvent(t, [john_pain |-> 0], LAMBDA a, l : JohnPain(a, l, p, c))

Hearts(suit) == suit = "hearts"
Lucky(t, what, c) ==
  LET suit == ModSuit(t, c)
  IN  CASE what \in {"barrel", "jail", "vendetta"} -> Hearts(suit)
        [] what = "dynamite" -> suit # "spades" \/ ~Low(Sign(c))
        [] what \in {"snake", "teren_kill"} -> suit # "spades"
        [] what = "colorado_bill" -> suit = "spades"
        [] OTHER -> Red(suit)

\* Dynamite explodes, or goes to the next player without one.
SameOnTable(t, p, c) == \E d \in ToSet(OnTable(t, p)) : Name(d) = Name(c)
Dynamite(t, c, p, lucky) ==
  LET free == SelectSeq(OthersFrom(t, p), LAMBDA q : ~SameOnTable(t, q, c))
  IN  IF ~lucky THEN Damage(DiscardCard(t, p, c), c, None, p, 3, {})
      ELSE IF free = <<>> THEN t ELSE EquipCard(DisableEquip(t, c), Head(free), c)
Jail(t, c, p, lucky) ==
  Then(DiscardCard(t, p, c), LAMBDA a : IF lucky THEN a ELSE SkipTurn(a, p))
Snake(t, c, p, lucky) == IF lucky THEN t ELSE Damage(t, c, None, p, 1, {})
\* The key of the disabler is new: a counter of the program that is never reset.
Brothel(t, c, p, lucky) ==
  LET n == Min({k \in 1 .. 20 : <<c, k>> \notin DisablersOf(t, c)})
  IN  Then(DiscardCard(t, p, c), LAMBDA a :
        IF lucky THEN a
        ELSE Listen(AddDisabler(a, Disabler(<<c, n>>, "brothel", p)), Listener("brothel_off", c, p, n)))
BombMoves(t, c, p, lucky) ==
  IF lucky THEN QueueAt(t, Request("move_bomb", c, None, p), 110) ELSE MoveCubes(t, c, None, 2)
\* Bomb stays, or goes to a player without one.
MoveBombOk(t, r, q) == Alive(t, q) /\ (q = r.who \/ ~SameOnTable(t, q, r.card))
BombMoved(t, r, q) ==
  IF q = r.who THEN Pop(t) ELSE EquipCard(DisableEquip(Pop(t), r.card), q, r.card)
JulieCutterHits(t, r, lucky) ==
  IF lucky THEN Queue(t, BangRequest(r.card, r.who, r.s[1], {})) ELSE t
Taxman(t, c, p, lucky) == IF lucky THEN t ELSE Listen(t, Listener("taxed", c, p, 0))
VendettaWon(t, p, lucky) == IF lucky THEN [t EXCEPT !.extra[p] = @ + 1] ELSE t
TerenKillSaved(t, p, lucky) == IF lucky THEN DrawTo(SetHp(t, p, 1), p, 1) ELSE t
BarrelHit(t, c, lucky) == IF lucky THEN Missed(t, c) ELSE t
Unavoidable(t, p, bang, lucky) ==
  [t EXCEPT !.queue = [i \in DOMAIN @ |->
     IF lucky /\ @[i].kind = "bang" /\ @[i].by = p /\ @[i].card = bang
     THEN [@[i] EXCEPT !.flags = @ \cup {"unavoidable"}] ELSE @[i]]]

CheckResult(t, r, lucky) ==
  CASE r.what = "barrel" -> BarrelHit(t, r.card, lucky)
    [] r.what = "dynamite" -> Dynamite(t, r.card, r.who, lucky)
    [] r.what = "jail" -> Jail(t, r.card, r.who, lucky)
    [] r.what = "snake" -> Snake(t, r.card, r.who, lucky)
    [] r.what = "brothel" -> Brothel(t, r.card, r.who, lucky)
    [] r.what = "taxman" -> Taxman(t, r.card, r.who, lucky)
    [] r.what \in {"vendetta", "don_bell"} -> VendettaWon(t, r.who, lucky)
    [] r.what = "teren_kill" -> TerenKillSaved(t, r.who, lucky)
    [] r.what = "bomb" -> BombMoves(t, r.card, r.who, lucky)
    [] r.what = "julie_cutter" -> JulieCutterHits(t, r, lucky)
    [] OTHER -> Unavoidable(t, r.who, r.s[1], lucky)

\* The card of the selection that is not taken from it goes to the discards.
ResolveCheck(t, r, drawn) ==
  Then(IF Selected(t) = <<>> THEN OnDrawCheckResolve(Pop(t), r.who, drawn)
       ELSE ForEach(Pop(t), Selected(t), LAMBDA a, c : ToDiscards(OnDrawCheckResolve(a, r.who, c), c)),
       LAMBDA a : CheckResult(a, r, Lucky(a, r.what, drawn)))

\* on_draw_check_select: Tumbleweed may have the cards drawn again, whatever they are for.
Tumbleweeds(t) == Listening(t, [tumbleweed |-> 0])
AskTumbleweed(t, r) ==
  ForEach(t, Tumbleweeds(t), LAMBDA a, l :
    QueueAt(a, [Request("tumbleweed", l.card, r.who, l.who) EXCEPT !.c = r], 120))

\* request_check::select: live, c the card drawn, while Tumbleweed is asked
SelectCheck(t, r, c) ==
  IF Tumbleweeds(t) = <<>> THEN ResolveCheck(t, r, c)
  ELSE Then([r EXCEPT !.live = TRUE, !.c = c], LAMBDA s : AskTumbleweed(SetTop(t, s), s))

\* request_check::start: several cards to choose from, or the one on top
StartCheck(t, r) ==
  IF NumChecks(t, r.who) > 1
  THEN Live(Repeat(t, NumChecks(t, r.who), LAMBDA a : ShowTop(TopOfDeck(a))))
  ELSE Then(TopOfDeck(t), LAMBDA a :
         IF Stopped(a) THEN a ELSE SelectCheck(ToDiscards(a, DeckTop(a)), r, DeckTop(a)))
UpdateCheck(t, r) == IF r.live THEN Live(t) ELSE StartCheck(t, r)

(***************************************************************************)
(* The checks before the draw: request_predraw.                            *)
(***************************************************************************)

\* s: the checks as <<priority, card>>, the highest first
UpdatePredraw(t, r) ==
  LET checks == IF r.live THEN r.s
                ELSE SetToSortSeq(PredrawChecks(t, r.who), LAMBDA x, y : x[1] > y[1])
  IN  IF ~Alive(t, r.who) \/ t.turn # r.who \/ checks = <<>> THEN Pop(t)
      ELSE Live(SetTop(t, [r EXCEPT !.s = checks]))
PredrawPick(t, r, c) ==
  Owner(t, c) = r.who /\ \E x \in ToSet(r.s) : x = <<r.s[1][1], c>>
PredrawPicked(t, r, c) ==
  OnPredrawCheck(SetTop([t EXCEPT !.rest = FALSE],
                        [r EXCEPT !.s = SelectSeq(@, LAMBDA x : x[2] # c)]), r.who, c)

(***************************************************************************)
(* Discards.                                                               *)
(***************************************************************************)

InHandOrTable(t, p, c) == t.at[c] \in {HandOf(p), TableOf(p)}

DiscardPick(t, r, c) == InHand(t, r, c) /\ ~UseDisabled(t, c)
\* A hand with no card to discard is shown to everybody and taken back.
RevealHand(t, p) ==
  IF HandsShown(t) THEN t
  ELSE ForEach(ForEach(t, Hand(t, p), LAMBDA a, c : SetVisibility(a, c, "shown", 0)),
               Hand(t, p), LAMBDA a, c : SetVisibility(a, c, "owner", p))
UpdateDiscard(t, r) ==
  IF ~Alive(t, r.who) THEN Pop(t)
  ELSE IF ~\E c \in ToSet(Hand(t, r.who)) : DiscardPick(t, r, c) THEN RevealHand(Pop(t), r.who)
  ELSE Live(t)
DiscardPicked(t, r, c) == DiscardUsed(Pop(t), r.who, c)

\* on_discard_pass: Gary Looter takes what another discards.
GaryLooter(t, l, p, c) ==
  IF p # l.who /\ FirstTaker(t, p, l.who, LAMBDA q : GaryLooterTakes(t, q))
  THEN ToHand(t, l.who, c) ELSE t
OnDiscardPass(t, p, c) ==
  CallEvent(t, [gary_looter |-> 0], LAMBDA a, l : GaryLooter(a, l, p, c))

\* A player that may keep no card discards them all, or one after the other.
UpdateDiscardPass(t, r) ==
  IF MaxCards(t, r.who) = 0
  THEN QueueAt(Pop(t), Request("discard_hand_pass", None, None, r.who), 200) ELSE Live(t)
\* post_discard_pass: ruleset_armedanddangerous, a cube for each card
PostDiscardPass(t, p, n) == IF CubesRule(t) THEN AddCubeEffect(t, None, p, n) ELSE t
\* n counts them.
DiscardPassPicked(t, r, c) ==
  Then(OnDiscardPass(IF GameFlag(t, "phase_one_draw_discard") THEN ToDeck(t, c)
                     ELSE DiscardCard(t, r.who, c), r.who, c),
       LAMBDA a : IF Len(Hand(a, r.who)) > MaxCards(a, r.who)
                  THEN [SetTop(a, [r EXCEPT !.n = @ + 1]) EXCEPT !.rest = FALSE]
                  ELSE QueueAt(PostDiscardPass(Pop(a), r.who, r.n + 1), Action("pass_turn", None, None, r.who), 1))
DiscardHandPassResolved(t, r) ==
  ForEach(t, Hand(t, r.who), LAMBDA a, c : DiscardPassPicked(a, Top(a), c))
UpdateDiscardHandPass(t, r) ==
  IF Len(Hand(t, r.who)) <= 1 THEN DiscardHandPassResolved(t, r) ELSE Live(t)

ValidDiscard(c) == Color(c) # "black"
DiscardAllPick(t, r, c) == InHandOrTable(t, r.who, c) /\ ValidDiscard(c)
DiscardAllPicked(t, r, c) == DiscardCard([t EXCEPT !.rest = FALSE], r.who, c)
DiscardAllResolved(t, r) ==
  LET cards == OnTable(t, r.who) \o Hand(t, r.who)
      sorted == SelectSeq(cards, ValidDiscard) \o SelectSeq(cards, LAMBDA c : ~ValidDiscard(c))
  IN  Then(ForEach(Pop(t), sorted, LAMBDA a, c : DiscardCard(a, r.who, c)), LAMBDA a :
        [DropCubes(a, Head(Characters(a, r.who))) EXCEPT
           !.gold[r.who] = IF r.what = "sheriff_killed_deputy" THEN @ ELSE 0])

UpdateDiscardAll(t, r) ==
  Then(IF r.live THEN t ELSE [t EXCEPT !.tapped = @ \ ToSet(OnTable(t, r.who))], LAMBDA a :
    IF Len(SelectSeq(OnTable(t, r.who), ValidDiscard) \o Hand(t, r.who)) <= 1
    THEN DiscardAllResolved(a, r) ELSE Live(a))

DiscardHandPicked(t, r, c) == DiscardCard([t EXCEPT !.rest = FALSE], r.who, c)
DiscardHandResolved(t, r) ==
  ForEach(Pop(t), Hand(t, r.who), LAMBDA a, c : DiscardCard(a, r.who, c))

(***************************************************************************)
(* Death: the three actions of handle_player_death but the last.           *)
(***************************************************************************)

\* No hit points left, or a ghost whose card is gone: the player is eliminated.
Die(t, r) ==
  Then(IF t.hp[r.who] <= 0 THEN SetHp(AddFlag(t, r.who, "dead"), r.who, 0) ELSE t, LAMBDA a :
    IF Alive(a, r.who) THEN a
    ELSE OnPlayerEliminated(DisableEquip(RemoveExtraCharacters(a, r.who), Head(Characters(a, r.who))),
                            r.by, r.who))
DiscardDead(t, r) ==
  IF Alive(t, r.who) THEN t ELSE Queue(t, Request("discard_all", None, None, r.who))

(***************************************************************************)
(* Cards taken from the dead and from those who hit.                       *)
(***************************************************************************)

\* A card of the hand is taken at random: every card of it is a pick that may be made.
MultiSamPick(t, r, c) == InHandOrTable(t, r.by, c) /\ ValidDiscard(c)
\* The next player that takes the cards of the dead, after r.who.
NextSam(t, r) == SelectSeq(OthersFrom(t, r.who), LAMBDA q : q # r.by /\ VultureSamTakes(t, q))
SamCard(t, p) == CHOOSE c \in ToSet(OnTable(t, p)) \cup ToSet(Characters(t, p)) :
  t.on[c] > 0 /\ \E e \in ToSet(Equips(c)) : e[1] = "vulture_sam"
MultiSamPicked(t, r, c) ==
  Then(StealCard(Pop(t), r.who, c), LAMBDA a :
    IF (Hand(a, r.by) = <<>> /\ OnTable(a, r.by) = <<>>) \/ NextSam(a, r) = <<>> THEN a
    ELSE Then(Head(NextSam(a, r)), LAMBDA next :
           QueueAt(a, Request("multi_vulture_sam", SamCard(a, next), r.by, next), 200)))

\* Any n cards of the hand of q, one after the other: the tables that may result.
RECURSIVE StealRandom(_, _, _, _)
StealRandom(t, p, q, n) ==
  IF n = 0 \/ Hand(t, q) = <<>> THEN {t}
  ELSE UNION {StealRandom(StealCard(t, p, c), p, q, n - 1) : c \in ToSet(Hand(t, q))}
ElGringoSteals(t, r) ==
  IF ~Alive(t, r.who) \/ t.turn = r.who THEN {t} ELSE StealRandom(t, r.who, r.by, r.n)
=============================================================================
