------------------------------- MODULE Shadows -------------------------------
(***************************************************************************)
(* Wild West Show and Valley of Shadows: the requests and effects of their *)
(* cards that Events, Equips and Queries do not hold.  Where a card of a   *)
(* hand is taken at random, the operator gives every table that may result.*)
(***************************************************************************)
EXTENDS Noon

(***************************************************************************)
(* Wild West Show.                                                         *)
(***************************************************************************)

\* Two cards of the hand of another player for one.
FlintWestwood(t, p, chosen, target) ==
  LET q == Owner(t, target)
  IN  {StealCard(u, q, chosen) : u \in StealRandom(t, p, q, 2)}

LadyRosaOk(t) == NumAlive(t) > 2
Neighbour(t, p) == IF GameFlag(t, "invert_rotation") THEN NextPlayer(t, p) ELSE PrevPlayer(t, p)
\* The two change seats, and the one that comes next is passed over.
LadyRosa(t, p) ==
  LET q == Neighbour(t, p)
      Swapped(r) == CASE r = p -> q [] r = q -> p [] OTHER -> r
  IN  [AddFlag(t, q, "skip_turn") EXCEPT !.seats = [i \in DOMAIN @ |-> Swapped(@[i])]]

\* add_context of leevankliff, spike_spiezel: the brown card played last, played again
LeeVanKliff(t) == t.last[1]
SpikeSpiezel(t) == t.last[2]
RepeatOk(t, c, again) == again # None /\ c = again /\ Color(c) = "brown"

ChangeWws(t) ==
  LET deck == t.pile[<<"wws_deck", 0>>]
  IN  IF deck = <<>> THEN t ELSE ReplaceScenario(t, WildWest, Last(deck))

\* Darling Valentine: the hand for as many cards from the deck.
DarlingResolved(t, r) == DrawTo(DiscardHandResolved(t, r), r.who, r.n)
UpdateDarling(t, r) ==
  LET counted == [r EXCEPT !.n = IF r.live THEN @ ELSE Len(Hand(t, r.who))]
  IN  Then(SetTop(t, counted), LAMBDA a :
        IF Len(Hand(t, r.who)) <= 1 THEN DarlingResolved(a, counted) ELSE Live(a))

\* Youl Grinner and Clash the Stampede: a card of the hand of r.who for r.by.
YoulPicked(t, r, c) == StealCard(Pop(t), r.by, c)

\* New characters for Greygory.
Greygory(t, c, p) == AddCharacters(RemoveExtraCharacters(t, p), c, p)

(***************************************************************************)
(* Valley of Shadows.                                                      *)
(***************************************************************************)

AimPlayed(t, c, p) == Listen(t, Listener("aim", c, p, 0))

\* Missed, and something for whoever shot.
Answered(t, c, Op(_, _)) ==
  LET shooter == Top(t).by
  IN  Then(Missed(t, c), LAMBDA a : IF shooter = None THEN a ELSE Op(a, shooter))
\* Whoever shot is shot at.
Backfire(t, c, p) ==
  Answered(t, c, LAMBDA a, shooter :
    QueueAt(a, BangRequest(c, p, shooter, {"escapable", "single_target"}), 20))

Bandidos(t, c, p, q, flags) == Queue(t, [Request("bandidos", c, p, q) EXCEPT !.flags = flags])
UpdateBandidos(t, r) == IF Immune(t, r.card, r.by, r.who, r.flags) THEN Pop(t) ELSE Live(t)
\* A card discarded, and a second one if another may be.
BandidosPicked(t, r, c) ==
  Then(DiscardUsed(SetTop(t, [r EXCEPT !.n = @ + 1]), r.who, c), LAMBDA a :
    IF Hand(a, r.who) = <<>> THEN Pop(a)
    ELSE IF \E d \in ToSet(Hand(a, r.who)) : DiscardPick(a, r, d)
    THEN QueueAt(Pop(a), Request("discard", r.card, r.by, r.who), 110)
    ELSE a)
BandidosResolved(t, r) ==
  Damage(IF r.n > 0 THEN RevealHand(Pop(t), r.who) ELSE Pop(t), r.card, r.by, r.who, 1, {})

\* The request is dropped, whatever it is.
EscapeOk(t, p) == Pending(t) /\ Top(t).who = p /\ "escapable" \in Top(t).flags
Escape(t) == Pop(t)

EvelynShebang(t, c, p, q) == Bang(Listen(t, Listener("bang_target", c, p, q)), c, p, q, {})

PlayAsGatling(t, p, chosen) ==
  LET targets == OthersFrom(t, p)
      flags == {"play_as_bang", "multi_target"} \cup
               (IF Len(targets) = 1 THEN {"single_target"} ELSE {})
  IN  QueueAll(DiscardUsed(t, p, chosen), targets, LAMBDA q : BangRequest(chosen, p, q, flags))

Poker(t, c, p, q, flags) == Queue(t, [Request("poker", c, p, q) EXCEPT !.flags = flags])
PokerPicked(t, r, c) ==
  IF Immune(t, r.card, r.by, r.who, r.flags) THEN Pop(t)
  ELSE OnDiscardHandCard(MoveTo(Pop(t), c, <<"selection", r.by>>, "owner"), r.who, c, TRUE)

PokerDraw(t, c, p) == Queue(t, [Request("poker_draw", c, None, p) EXCEPT !.n = 2])
Ace(c) == Sign(c) \in {"hearts_A", "spades_A"}
DiscardSelected(t) == ForEach(t, Selected(t), LAMBDA a, c : ToDiscards(a, c))
\* An ace spoils the game; two cards or fewer are all taken.
UpdatePokerDraw(t, r) ==
  LET shown == ForEach(t, Selected(t), LAMBDA a, c : SetVisibility(a, c, "shown", 0))
  IN  IF r.live THEN Live(t)
      ELSE IF \E c \in ToSet(Selected(t)) : Ace(c) THEN DiscardSelected(Pop(shown))
      ELSE IF Len(Selected(t)) > 2 THEN Live(shown)
      ELSE ForEach(Pop(shown), Selected(t), LAMBDA a, c : ToHand(a, r.who, c))
PokerDrawn(t, r, c) ==
  Then(ToHand(SetTop(t, [r EXCEPT !.n = @ - 1]), r.who, c), LAMBDA a :
    IF r.n > 1 THEN a ELSE DiscardSelected(Pop(a)))

(***************************************************************************)
(* A damage taken from another player: c holds the savior.                 *)
(***************************************************************************)

SavedOk(t, p) == TopIs(t, {"damage"}) /\ Top(t).who # p /\ Top(t).c \in {None, p}
OneDamageLess(t, p) ==
  IF Top(t).n = 1 THEN Pop(t) ELSE SetTop(t, [Top(t) EXCEPT !.n = @ - 1, !.c = p])
Saved(t, c, p) ==
  QueueAt(OneDamageLess(t, p), [Request("saved", c, None, p) EXCEPT !.c = Top(t).who], 0)
UpdateSaved(t, r) == IF Alive(t, r.who) /\ Alive(t, r.c) THEN Live(t) ELSE Pop(t)
SavedPick(t, r, c) ==
  \/ IsIn(t, c, HandOf(r.c))
  \/ Pocket(t, c) = "deck"
  \/ Pocket(t, c) = "discards" /\ t.pile[Main] = <<>>
SavedPicked(t, r, c) ==
  IF Pocket(t, c) # "hand" THEN {DrawTo(Pop(t), r.who, 2)} ELSE StealRandom(Pop(t), r.who, r.c, 2)

Tornado(t, c, p, q, flags) == Queue(t, [Request("tornado", c, p, q) EXCEPT !.flags = flags])
UpdateTornado(t, r) ==
  IF Immune(t, r.card, r.by, r.who, r.flags) THEN Pop(t)
  ELSE IF ~\E c \in ToSet(Hand(t, r.who)) : DiscardPick(t, r, c)
  THEN DrawTo(RevealHand(Pop(t), r.who), r.who, 2)
  ELSE Live(t)
TornadoPicked(t, r, c) == DrawTo(DiscardUsed(Pop(t), r.who, c), r.who, 2)
=============================================================================
