------------------------------ MODULE BaseCards ------------------------------
(***************************************************************************)
(* The cards and requests of the base game: src/src/effects/base.          *)
(* For each effect, what it does when played (its on_play); for each       *)
(* request, its on_update where it has one, what may be picked, and what   *)
(* follows a pick, a resolution or the end of its timer.                   *)
(*                                                                         *)
(* An on_update either leaves the request where it is, which is then       *)
(* marked live and waits, or pops it.                                      *)
(***************************************************************************)
EXTENDS Events

\* The request is still the top one after its on_update: the engine waits for an answer.
Live(t) == [t EXCEPT !.queue[1].live = TRUE, !.rest = TRUE]
InHand(t, r, c) == IsIn(t, c, HandOf(r.who))
IsSelected(t, c) == Pocket(t, c) = "selection"

(***************************************************************************)
(* Bang and what answers it.                                               *)
(***************************************************************************)

Bang(t, c, p, q, flags) == Queue(t, BangRequest(c, p, q, flags))

\* apply_bang_modifier.  What a bang modifier has left behind comes first, and but for Buntline
\* Special changes one bang only: x holds the table and the request.
BigFifty(x, l) ==
  LET key == <<l.card, 1>>
      silenced == AddDisabler(Unlisten(x.t, l.card, {"bigfifty"}), Disabler(key, "bigfifty", x.r.who))
  IN  [x EXCEPT !.t = QueueAt(silenced, Action("bigfifty_ends", l.card, None, x.r.who), 90)]
BigFiftyEnds(t, r) == RemoveDisablers(t, {<<r.card, 1>>})
BuntlineSpecial(x, l) ==
  [x EXCEPT !.t = QueueAt(Listen(@, Listener("buntline_missed", l.card, l.who, 0)),
                          Action("buntline_ends", l.card, None, l.who), 90)]
BuntlineEnds(t, r) == Unlisten(t, r.card, {"buntline", "buntline_missed"})
DoubleBarrel(x, l) ==
  [x EXCEPT !.t = Unlisten(@, l.card, {"doublebarrel"}),
            !.r.flags = IF ModSuit(x.t, x.r.card) = "diamonds" THEN @ \cup {"unavoidable"} ELSE @]
Thunderer(x, l) == [x EXCEPT !.t = Unlisten(ToHand(@, l.who, x.r.card), l.card, {"thunderer"})]
BangModified(t, p, r) ==
  FoldLeft(LAMBDA x, l :
      CASE l.who # p -> x
        [] l.kind = "bigfifty" -> BigFifty(x, l)
        [] l.kind = "buntline" -> BuntlineSpecial(x, l)
        [] l.kind = "doublebarrel" -> DoubleBarrel(x, l)
        [] OTHER -> Thunderer(x, l),
    [t |-> t, r |-> r],
    Listening(t, [bigfifty |-> 1, buntline |-> 1, doublebarrel |-> 1, thunderer |-> 1]))

\* Then the characters; the check of Colorado Bill changes the request just queued.
SlabTheKiller(t, p, r) == [r EXCEPT !.n = @ + HowMany(t, p, "slab_the_killer")]
Aims(t, p) == SelectSeq(t.lis, LAMBDA l : l.kind = "aim" /\ l.who = p)
Aim(t, p, r) == [r EXCEPT !.m = @ + Len(Aims(t, p))]
AimSpent(t, p) == ForEach(t, Aims(t, p), LAMBDA a, l : Unlisten(a, l.card, {"aim"}))
ColoradoBill(t, p, r) ==
  LET bills == SelectSeq(Characters(t, p), LAMBDA c : t.on[c] > 0 /\ Name(c) = "colorado_bill")
  IN  ForEach(t, bills, LAMBDA a, c :
        Queue(a, [CheckRequest(c, p, "colorado_bill") EXCEPT !.s = <<r.card>>]))

QueueRequestBang(t, c, p, q, flags) ==
  Then(BangModified(t, p, BangRequest(c, p, q, flags \cup {"is_bang", "single_target"})), LAMBDA x :
    Queue(ColoradoBill(AimSpent(x.t, p), p, x.r), Aim(x.t, p, SlabTheKiller(x.t, p, x.r))))

\* Big Fifty: unchecked, whoever was aimed at before
BangcardOk(t, unchecked, c, p, q) ==
  /\ ~(HasTag(c, "bangcard") /\ GameFlag(t, "showdown"))
  /\ unchecked \/ BangTargetOk(t, c, p, q)
PlayAsBangPlayed(t, p, chosen, q) ==
  QueueRequestBang(DiscardUsed(t, p, chosen), chosen, p, q, {"play_as_bang"})

BanglimitOk(t, p) == BangsPlayed(t, p) < 1
Banglimit(t, c, p) == Listen(t, Listener("bang_played", c, p, 0))

CanMiss(r, c) == "unavoidable" \notin r.flags /\ c \notin ToSet(r.s)
\* A bang is missed once for each point of its strength; a ricochet at once.
OnMiss(t, c, missedFlags) ==
  LET r == Top(t)
  IN  IF r.kind = "ricochet" THEN Pop(t)
      ELSE IF r.n > 1 \/ r.n <= 0 THEN SetTop(t, [r EXCEPT !.n = @ - 1])
      ELSE Pop(OnMissed(SetTop(t, [r EXCEPT !.n = 0]), r.card, r.by, r.who, c,
                        missedFlags \cup r.flags))

UpdateBang(t, r) ==
  IF ~Alive(t, r.who) \/ Immune(t, r.card, r.by, r.who, r.flags) THEN Pop(t) ELSE Live(t)
ResolveBang(t, r) == Damage(Pop(t), r.card, r.by, r.who, r.m, r.flags)

Missable == {"bang", "ricochet"}
Missed(t, c) == IF TopIs(t, Missable) THEN OnMiss(t, c, {}) ELSE Lose(t)
MissedCard(t, c) == OnMiss(t, c, {"is_missed"})
MissedOk(t, c, p) == TopIs(t, Missable) /\ Top(t).who = p /\ CanMiss(Top(t), c)
PlayAsMissed(t, p, chosen) == MissedCard(DiscardUsed(t, p, chosen), chosen)

\* The card that is drawn decides whether the barrel counts as a missed.
Barrel(t, c, p) ==
  Queue(SetTop(t, [Top(t) EXCEPT !.s = Append(@, c)]), CheckRequest(c, p, "barrel"))

(***************************************************************************)
(* Damage and death.                                                       *)
(***************************************************************************)

DamageOk(t, p, n) == t.hp[p] > n

\* Mutant: the request is not popped.
DamageDoneAgain(t, r) ==
  OnHit(QueueAt(SetHp(t, r.who, t.hp[r.who] - r.n), Request("death", r.card, r.by, r.who), 50),
        r.card, r.by, r.who, r.n, r.flags)
\* on_finished: the damage is done.
DamageDone(t, r) ==
  OnHit(QueueAt(SetHp(Pop(t), r.who, t.hp[r.who] - r.n), Request("death", r.card, r.by, r.who), 50),
        r.card, r.by, r.who, r.n, r.flags)
\* request_damage waits for the timer when somebody may answer it.
UpdateDamage(t, r) ==
  IF IsGhost(t, r.who) THEN Pop(t)
  ELSE IF DamageResponse(t, r.who) THEN Live(t) ELSE DamageDone(t, r)

DeathsaveOk(t, p) == TopIs(t, {"death"}) /\ Top(t).who = p
Deathsave(t) == SetTop(t, [Top(t) EXCEPT !.what = "tried"])
\* Mutant: only a player left with no life exactly is asked to die.
UpdateDeathAtZero(t, r) == IF t.hp[r.who] = 0 /\ ~HasFlag(t, r.who, "dead") THEN Live(t) ELSE Pop(t)
UpdateDeath(t, r) == IF t.hp[r.who] <= 0 /\ ~HasFlag(t, r.who, "dead") THEN Live(t) ELSE Pop(t)
ResolveDeath(t, r) ==
  HandlePlayerDeath(OnPlayerDeath(Pop(t), r.who, r.what = "tried"), r.by, r.who, "death")

LemonadeJim(t, l, p) ==
  IF l.who # p THEN Queue(t, Request("can_play", l.card, p, l.who)) ELSE t
MadamYto(t, l) == DrawTo(t, l.who, 1)
OnPlayBeer(t, p) ==
  CallEvent(t, [madam_yto |-> 1, lemonade_jim |-> 0],
    LAMBDA a, l : IF l.kind = "madam_yto" THEN MadamYto(a, l) ELSE LemonadeJim(a, l, p))
BeerOk(t) == ~Pending(t) \/ NumAlive(t) > 2
Beer(t, p) ==
  OnPlayBeer(IF NumAlive(t) > 2 THEN Heal(t, p, TequilaJoe(t, p, 1)) ELSE t, p)

HealEffect(t, c, p, q, n, flags) == IF Immune(t, c, p, q, flags) THEN t ELSE Heal(t, q, n)
HealNotFullOk(t, q) == t.hp[q] # t.max[q]

(***************************************************************************)
(* Duel and Indians: answered with a bang from the hand.                   *)
(***************************************************************************)

Duel(t, c, p, q, flags) ==
  Queue(t, [Request("duel", c, p, q) EXCEPT !.c = p, !.flags = flags])
UpdateDuel(t, r) == IF Immune(t, r.card, r.by, r.who, r.flags) THEN Pop(t) ELSE Live(t)
DuelPick(t, r, c) == InHand(t, r, c) /\ IsBangCard(t, r.who, c) /\ ~UseDisabled(t, c)
\* The other one is asked in turn.
DuelPicked(t, r, c) ==
  Queue(Pop(DiscardUsed(t, r.who, c)), [Request("duel", r.card, r.by, r.c) EXCEPT !.c = r.who])
DuelLost(t, r) == Damage(Pop(t), r.card, r.by, r.who, 1, {})

Indians(t, c, p, q, flags) == Queue(t, [Request("indians", c, p, q) EXCEPT !.flags = flags])
UpdateIndians(t, r) == IF Immune(t, r.card, r.by, r.who, r.flags) THEN Pop(t) ELSE Live(t)
IndiansPick(t, r, c) == InHand(t, r, c) /\ IsBangCard(t, r.who, c)
IndiansPicked(t, r, c) == Pop(DiscardUsed(t, r.who, c))

(***************************************************************************)
(* General store.                                                          *)
(***************************************************************************)

\* Mutant: no card for the one that plays it.
DealStoreFew(t, skipped) == Repeat(t, NumAlive(t) - 1, LAMBDA a : ShowTop(TopOfDeck(a)))
DealStore(t, skipped) ==
  Repeat(t, NumAlive(t) - (IF skipped = None THEN 0 ELSE 1), LAMBDA a :
    ShowTop(TopOfDeck(a)))
GeneralStore(t, c, p, q, flags) ==
  Queue(t, [Request("generalstore", c, p, q) EXCEPT !.flags = flags \ {"escapable", "single_target"}])
\* The share of a player that is spared goes to the discards, if any is left.
UpdateGeneralStore(t, r) ==
  IF Immune(t, r.card, r.by, r.who, r.flags)
  THEN Queue(Pop(t), Action("discard_share", r.card, r.by, r.who)) ELSE Live(t)
DiscardShare(t) == IF Selected(t) = <<>> THEN Lose(t) ELSE ToDiscards(t, Head(Selected(t)))
GeneralStorePicked(t, r, c) == ToHand(Pop(t), r.who, c)

(***************************************************************************)
(* A card of another player stolen or destroyed.                           *)
(***************************************************************************)

Targeting(t, kind, c, p, target, flags) ==
  QueueAt(t, [Request(kind, c, p, Owner(t, target)) EXCEPT !.c = target, !.flags = flags], 40)
Steal(t, c, p, target, flags) == Targeting(t, "steal", c, p, target, flags)
Destroy(t, c, p, target, flags) == Targeting(t, "destroy", c, p, target, flags)

\* The timer is taken away from a player that can always escape.
UpdateTargeting(t, r) ==
  IF Immune(t, r.card, r.by, r.who, r.flags) THEN Pop(t)
  ELSE IF CanEscape(t, r.card, r.by, r.who, r.flags) = 2 THEN Live(SetTop(t, [r EXCEPT !.what = "untimed"]))
  ELSE Live(t)

\* on_destroy_card: Henry Block fires back, and then only one alive gets the card.
HenryBlock(t, l, by, c) ==
  IF l.who = Owner(t, c) /\ l.who # by THEN Queue(t, BangRequest(l.card, l.who, by, {})) ELSE t
OnDestroyCard(t, by, c) ==
  CallEvent(t, [henry_block |-> 0], LAMBDA a, l : HenryBlock(a, l, by, c))
DestroyHandled(t, by, c) == Owner(t, c) # by /\ Owner(t, c) # 0 /\ Has(t, Owner(t, c), "henry_block")

TargetingResolved(t, r, kind) ==
  QueueAt(OnDestroyCard(Pop(t), r.by, r.c),
          [Action(kind, r.card, r.by, r.who) EXCEPT
             !.c = r.c, !.what = IF DestroyHandled(t, r.by, r.c) THEN "handled" ELSE "none"], 42)
StealResolved(t, r) == TargetingResolved(t, r, "do_steal")
DestroyResolved(t, r) == TargetingResolved(t, r, "do_destroy")
DoSteal(t, r) ==
  IF (r.what = "handled" => Alive(t, r.by)) /\ Owner(t, r.c) # 0 THEN StealCard(t, r.by, r.c) ELSE t
DoDestroy(t, r) ==
  IF (r.what = "handled" => Alive(t, r.by)) /\ Owner(t, r.c) # 0
  THEN DiscardCard(t, Owner(t, r.c), r.c) ELSE t

DiscardOk(t, c) == ~UseDisabled(t, c)
DiscardEffect(t, target) == DiscardCard(t, Owner(t, target), target)

(***************************************************************************)
(* Turns: start_of_turn, pass_turn, skip_turn, start_next_turn.            *)
(***************************************************************************)

StartOfTurn(t, p) ==
  QueueAt(QueueAt([t EXCEPT !.turn = p, !.used[p] = 0, !.last = <<None, None>>],
                  Action("before_turn", None, None, p), -10),
          Action("begin_turn", None, None, p), -10)
BeforeTurn(t, r) ==
  QueueAt(PreTurnStart(t, r.who), Request("predraw", None, None, r.who), -7)
BeginTurn(t, r) ==
  IF Alive(t, r.who) /\ t.turn = r.who
  THEN QueueAt(OnTurnStart(t, r.who), [Request("draw", None, None, r.who) EXCEPT !.m = 2], -7)
  ELSE t

PassOn(a, p) ==
  IF a.next # None THEN a
  ELSE IF HasFlag(a.t, p, "skip_turn") THEN [a EXCEPT !.t = RemoveFlag(a.t, p, "skip_turn")]
  ELSE Then(CheckRevivers(a.t, p), LAMBDA u : [t |-> u, next |-> IF Alive(u, p) THEN p ELSE None])
\* The players after the one in turn: skipped, revived or passed over, and the first alive.
StartNextTurn(t) ==
  LET after == Tail(Around(t, t.turn))
      once == (IF GameFlag(t, "invert_rotation") THEN Reverse(after) ELSE after) \o <<t.turn>>
  IN  IF NumAlive(t) = 0 THEN t
      ELSE Then(FoldLeft(LAMBDA a, p : PassOn(a, p), [t |-> t, next |-> None], once \o once),
                LAMBDA end : OnTurnSwitch(StartOfTurn(end.t, end.next), end.next))

PassTurn(t, p) ==
  IF Len(Hand(t, p)) > MaxCards(t, p) THEN QueueAt(t, Request("discard_pass", None, None, p), 200)
  ELSE QueueAt(OnTurnEnd(t, p, FALSE), Action("end_turn", None, None, p), -5)
EndTurn(t, r) ==
  IF t.extra[r.who] = 0 THEN StartNextTurn(RemoveFlag(t, r.who, "extra_turn"))
  ELSE StartOfTurn(AddFlag([t EXCEPT !.extra[r.who] = @ - 1], r.who, "extra_turn"), r.who)
SkipTurn(t, p) == StartNextTurn(OnTurnEnd(RemoveFlag(t, p, "extra_turn"), p, TRUE))

\* The mandatory cards p still has: LawOfTheWest.
Mandatory(t, p) ==
  {c \in Cards(t) : /\ Owner(t, c) = p
                    /\ \E i \in DOMAIN t.lis : /\ t.lis[i].kind = "law_card" /\ t.lis[i].who = p
                                              /\ t.lis[i].n = OrderOf(c)}

MaxUsagesOk(t, c, p, n) == Usages(t, p, c) < n
CountUsage(t, c, p) == Listen(t, Listener("usage", c, p, 0))
=============================================================================
