------------------------------- MODULE Equips -------------------------------
(***************************************************************************)
(* What lies on the table: equips that are enabled and disabled, the       *)
(* disablers that silence them, cubes, and how a card leaves its owner.    *)
(* src/src/game/player.cpp, disabler_map.cpp, card.cpp.                    *)
(***************************************************************************)
EXTENDS Table

(***************************************************************************)
(* event on_discard_hand_card                                              *)
(***************************************************************************)

\* check_empty_hand queues the card for a hand left empty; the action checks again.
CheckEmptyHand(t, card, who) == Queue(t, Action("suzy_lafayette", card, None, who))
SuzyLafayette(t, r) ==
  IF Alive(t, r.who) /\ Hand(t, r.who) = <<>> THEN DrawTo(t, r.who, 1) ELSE t

MollyStark(t, l, who, used) ==
  IF l.who = who /\ used /\ t.turn # who
  THEN QueueAt(t, Action("molly_stark", l.card, None, who), -1) ELSE t
MollyStarkDraws(t, r) == IF Alive(t, r.who) THEN DrawTo(t, r.who, 1) ELSE t

\* The card that must be played has left the hand: no longer.
LawDiscarded(t, l, who, c) ==
  IF l.who = who /\ l.n = OrderOf(c) THEN Unlisten(t, l.card, {"law_card"}) ELSE t

OnDiscardHandCard(t, who, c, used) ==
  CallEvent(t, [suzy_lafayette |-> 0, molly_stark |-> 0, law_card |-> 0],
    LAMBDA a, l :
      CASE l.kind = "suzy_lafayette" -> IF l.who = who THEN CheckEmptyHand(a, l.card, who) ELSE a
        [] l.kind = "molly_stark" -> MollyStark(a, l, who, used)
        [] OTHER -> LawDiscarded(a, l, who, c))

(***************************************************************************)
(* Which cards each disabler covers.                                       *)
(***************************************************************************)

Disabler(key, kind, who) == [key |-> key, kind |-> kind, who |-> who]

LassoCovers(t, c) == Pocket(t, c) = "table"
HangoverCovers(t, c) == Pocket(t, c) = "character"
ReverendCovers(t, c) == Pocket(t, c) = "hand" /\ HasTag(c, "beer")
SermonCovers(t, p, c) ==
  /\ Owner(t, c) \in {0, p}
  /\ HasTag(c, IF Pocket(t, c) = "hand" THEN "bangcard" ELSE "play_as_bang")
BelleStarCovers(t, p, c) == Pocket(t, c) = "table" /\ Owner(t, c) # p
BigSpencerCovers(t, p, c) == IsIn(t, c, HandOf(p)) /\ HasTag(c, "missedcard")
BrothelCovers(t, p, c) == IsIn(t, c, CharactersOf(p))
BigFiftyCovers(t, p, c) == t.at[c] \in {TableOf(p), CharactersOf(p)}

Covers(t, d, c) ==
  CASE d.kind = "lasso" -> LassoCovers(t, c)
    [] d.kind = "hangover" -> HangoverCovers(t, c)
    [] d.kind = "reverend" -> ReverendCovers(t, c)
    [] d.kind = "sermon" -> SermonCovers(t, d.who, c)
    [] d.kind = "bellestar" -> BelleStarCovers(t, d.who, c)
    [] d.kind = "big_spencer" -> BigSpencerCovers(t, d.who, c)
    [] d.kind = "bigfifty" -> BigFiftyCovers(t, d.who, c)
    [] OTHER -> BrothelCovers(t, d.who, c)

\* get_disabler; get_usage_disabler asks only those that forbid the use.
Disabled(t, c) == \E d \in t.dis : Covers(t, d, c)
UseDisabled(t, c) == \E d \in t.dis : d.kind = "sermon" /\ Covers(t, d, c)

\* disableable_cards: the scenario cards in force, the tables and characters of the living
Disableable(t) ==
  LET Topmost(place) == IF t.pile[place] = <<>> THEN <<>> ELSE <<Last(t.pile[place])>>
  IN  Topmost(Scenario) \o Topmost(WildWest) \o
        FlattenSeq([i \in DOMAIN t.seats |->
          LET p == t.seats[i]
          IN  IF Alive(t, p) THEN OnTable(t, p) \o Characters(t, p) ELSE <<>>])
Bearer(t, c) == IF Owner(t, c) = 0 THEN t.first ELSE Owner(t, c)

(***************************************************************************)
(* Cubes.                                                                  *)
(***************************************************************************)

MaxCubes == 4

\* cube_slots: the first character and the orange cards on the table
CubeSlots(t, p) ==
  <<Head(Characters(t, p))>> \o SelectSeq(OnTable(t, p), LAMBDA c : Color(c) = "orange")
SumOver(seq, N(_)) == FoldLeft(LAMBDA n, c : n + N(c), 0, seq)
CountCubes(t, p) == SumOver(CubeSlots(t, p), LAMBDA c : t.cubes[c])
CubeRoom(t, c) == MaxCubes - t.cubes[c]

AddCubes(t, c, n) ==
  LET k == Min({n, t.bank, CubeRoom(t, c)})
  IN  [t EXCEPT !.bank = @ - k, !.cubes[c] = @ + k]
DropCubes(t, c) == [t EXCEPT !.bank = @ + t.cubes[c], !.cubes[c] = 0]

(***************************************************************************)
(* Enabling and disabling.  A disabler that comes into force disables the  *)
(* equips of the cards it covers, and those may hold disablers themselves. *)
(***************************************************************************)

\* Equips that are enabled whatever disables their card (nodisable).
NoDisable == {"weapon", "horse", "ghost"}
Equips(c) == Sheet[Name(c)].equips
Yields(c) == \E i \in DOMAIN Equips(c) : Equips(c)[i][1] \notin NoDisable

FlagOf ==
  "showdown" :> "showdown" @@ "wildwestshow" :> "free_for_all" @@
  "judge" :> "disable_equipping" @@ "ambush" :> "disable_player_distances" @@
  "abandonedmine" :> "phase_one_draw_discard" @@ "peyote" :> "phase_one_override" @@
  "invert_rotation" :> "invert_rotation"
TreatAsBang(n) == IF n = 1 THEN "treat_missed_as_bang" ELSE "treat_any_as_bang"
GhostFlag(n) == IF n = 1 THEN "ghost_1" ELSE "ghost_2"

\* Listens until somebody is hit.
RussianRoulette(t, c, p) ==
  Listen(Queue(t, [BangRequest(c, None, p, {}) EXCEPT !.m = 2]), Listener("roulette", c, None, 0))

RECURSIVE EnableKind(_, _, _), DisableKind(_, _, _)

\* The equips that a disabler silences, and those that it does not.
Soft(c) == SelectSeq(Equips(c), LAMBDA e : e[1] \notin NoDisable)
Hard(c) == SelectSeq(Equips(c), LAMBDA e : e[1] \in NoDisable)

EnableSoft(t, c) ==
  FoldLeft(LAMBDA a, e : EnableKind(a, c, e), [t EXCEPT !.on[c] = IF Yields(c) THEN @ + 1 ELSE @], Soft(c))
DisableSoft(t, c) ==
  FoldLeft(LAMBDA a, e : DisableKind(a, c, e), [t EXCEPT !.on[c] = IF Yields(c) THEN @ - 1 ELSE @],
           Reverse(Soft(c)))

\* enable_equip, of a card without hard equips such as a character
EnableCharacter(t, c) ==
  IF Yields(c) THEN IF Disabled(t, c) THEN t ELSE EnableSoft(t, c)
  ELSE [t EXCEPT !.on[c] = @ + 1]

AddDisabler(t, d) ==
  Then(ForEach(t, Disableable(t), LAMBDA a, c :
                 IF ~Disabled(a, c) /\ Covers(a, d, c) THEN DisableSoft(a, c) ELSE a),
       LAMBDA a : [a EXCEPT !.dis = @ \cup {d}])

\* do_remove_disablers: enabled again is what one of these covers and no other.
CoveredBy(t, ds, c) == \E d \in ds : Covers(t, d, c)
\* Mutant: a card is enabled again though another disabler still covers it.
FreedAll(t, gone, c) == CoveredBy(t, gone, c)
Freed(t, gone, c) == CoveredBy(t, gone, c) /\ ~CoveredBy(t, t.dis \ gone, c)
RemoveDisablers(t, keys) ==
  LET gone == {d \in t.dis : d.key \in keys}
  IN  Then(ForEach(t, Disableable(t), LAMBDA a, c : IF Freed(a, gone, c) THEN EnableSoft(a, c) ELSE a),
           LAMBDA a : [a EXCEPT !.dis = @ \ gone])

\* remove_disablers(card_ptr): whatever the priority of the key
DisablersOf(t, c) == {d.key : d \in {e \in t.dis : e.key[1] = c}}

(***************************************************************************)
(* What each kind of equip does when it is enabled and disabled.           *)
(***************************************************************************)

TheDoctor(t) ==
  LET least == Min({t.hp[p] : p \in {q \in Players(t) : Alive(t, q)}})
  IN  ForEach(t, AliveFrom(t, t.first), LAMBDA a, p : IF a.hp[p] = least THEN Heal(a, p, 1) ELSE a)

TheDaltons(t, c) ==
  LET Struck(p) == \E d \in ToSet(OnTable(t, p)) : Color(d) = "blue"
  IN  ForEach(t, SelectSeq(AliveFrom(t, t.first), Struck),
              LAMBDA a, p : Queue(a, Request("thedaltons", c, None, p)))

SacagawayShows(t, vis) ==
  ForEach(t, AliveFrom(t, t.first), LAMBDA a, p :
    ForEach(a, Hand(a, p), LAMBDA b, c : SetVisibility(b, c, vis, IF vis = "shown" THEN 0 ELSE p)))

\* greygory_deck_add_characters: of those the game has not dealt
AddCharacters(t, card, p) ==
  LET free == SelectSeq(t.pile[Away], LAMBDA c : c # card /\ Color(c) = "character")
      two == SubSeq(free, 1, Min({2, Len(free)}))
  IN  ForEach(t, two, LAMBDA a, c : EnableCharacter(MoveTo(a, c, CharactersOf(p), "shown"), c))

Unheard(t, c) == [t EXCEPT !.lis = SelectSeq(@, LAMBDA l : l.card # c)]

EnableKind(t, c, e) ==
  LET p == Bearer(t, c)
      kind == e[1]
  IN  CASE kind \in DOMAIN FlagOf -> GameFlags(t, {FlagOf[kind]}, TRUE)
        [] kind = "sacagaway" -> SacagawayShows(GameFlags(t, {"hands_shown"}, TRUE), "shown")
        [] kind = "treat_as_bang" -> AddFlag(t, p, TreatAsBang(e[2]))
        [] kind = "update_max_hp" -> [t EXCEPT !.max[p] = e[2]]
        [] kind \in {"lasso", "hangover", "reverend", "big_spencer"} ->
             AddDisabler(t, Disabler(<<c, 0>>, kind, p))
        [] kind = "suzy_lafayette" -> IF t.turn = None THEN t ELSE CheckEmptyHand(t, c, p)
        [] kind = "thedoctor" -> TheDoctor(t)
        [] kind = "thedaltons" -> TheDaltons(t, c)
        [] kind = "russianroulette" -> RussianRoulette(t, c, p)
        [] kind = "greygory_deck" ->
             IF Len(Characters(t, p)) = 1 THEN AddCharacters(t, c, p) ELSE t
        [] kind = "deadman" -> Listen(t, Listener("dead_man", c, None, 0))
        [] OTHER -> t

\* event_equip::on_disable removes the listeners of the card, of every priority.
DisableKind(t, c, e) ==
  LET p == Bearer(t, c)
      kind == e[1]
  IN  CASE kind \in {"thedoctor", "thedaltons"} -> t
        [] kind \in DOMAIN FlagOf ->
             GameFlags(IF kind = "peyote" THEN Unheard(t, c) ELSE t, {FlagOf[kind]}, FALSE)
        [] kind = "sacagaway" -> GameFlags(SacagawayShows(t, "owner"), {"hands_shown"}, FALSE)
        [] kind = "treat_as_bang" -> RemoveFlag(t, p, TreatAsBang(e[2]))
        [] kind = "update_max_hp" ->
             LET max == Sheet[Name(Head(Characters(t, p)))].hp
             IN  [t EXCEPT !.max[p] = max,
                           !.hp[p] = IF @ > max /\ ~IsGhost(t, p) THEN max ELSE @]
        [] kind \in {"lasso", "hangover", "reverend", "big_spencer", "bellestar", "sermon"} ->
             RemoveDisablers(IF kind \in {"bellestar", "sermon"} THEN Unheard(t, c) ELSE t, DisablersOf(t, c))
        [] kind = "brothel" -> [t EXCEPT !.lis = SelectSeq(@, LAMBDA l : l.card # c \/ l.n # 0)]
        [] OTHER -> Unheard(t, c)

(***************************************************************************)
(* Death: game::handle_player_death.  The roles are left out: whether they *)
(* give a reward to the killer, or end the game, may go either way.        *)
(***************************************************************************)

HandlePlayerDeath(t, by, who, reason) ==
  LET killer == IF by = t.turn THEN by ELSE None
      Paid == killer # None /\ reason # "discard_ghost"
      Forgotten == ~\E c \in Cards(t) : Name(c) \in {"ghost", "ghost_town", "dead_man", "bone_orchard"}
      steps == <<<<"die", 50>>>> \o (IF Paid THEN <<<<"reward", 50>>>> ELSE <<>>) \o <<<<"discard_dead", 50>>>>
               \o (IF Forgotten THEN <<<<"remove_dead", -3>>>> ELSE <<>>) \o <<<<"victory", -4>>>>
  IN  ForEach(t, steps, LAMBDA a, x :
                Queue(a, [Action(x[1], None, killer, who) EXCEPT !.pr = x[2], !.flags = {reason}]))

DisableGhost(t, p, n) ==
  Then(RemoveFlag(t, p, GhostFlag(n)), LAMBDA a :
         IF Alive(a, p) THEN a ELSE HandlePlayerDeath(a, None, p, "discard_ghost"))

DisableHard(t, c, e) ==
  CASE e[1] = "weapon" -> Unheard(t, c)
    [] e[1] = "ghost" -> DisableGhost(t, Bearer(t, c), e[2])
    [] OTHER -> t
DisableEquip(t, c) ==
  ForEach(IF ~Yields(c) THEN [t EXCEPT !.on[c] = @ - 1]
          ELSE IF Disabled(t, c) THEN t ELSE DisableSoft(t, c),
          Reverse(Hard(c)), LAMBDA a, e : DisableHard(a, c, e))

(***************************************************************************)
(* A card leaves its owner: player::discard_card, steal_card.              *)
(***************************************************************************)

\* Mutant: the equips of a card that leaves the table are not disabled.
MoveOwnedCardOn(t, p, c, used) ==
  IF t.at[c] = TableOf(p) THEN DropCubes(SetInactive(t, c, FALSE), c)
  ELSE OnDiscardHandCard(t, p, c, used)

\* move_owned_card, of a card that is on the table or in the hand of p
MoveOwnedCard(t, p, c, used) ==
  IF t.at[c] = TableOf(p) THEN DropCubes(DisableEquip(SetInactive(t, c, FALSE), c), c)
  ELSE OnDiscardHandCard(t, p, c, used)

Owned(t, p, c) == t.at[c] \in {TableOf(p), HandOf(p)}

Discard(t, p, c, used) ==
  IF ~Owned(t, p, c) THEN t
  ELSE MoveTo(MoveOwnedCard(t, p, c, used), c,
              IF Color(c) = "black" THEN ShopDiscards ELSE Discards, "shown")
DiscardCard(t, p, c) == Discard(t, p, c, FALSE)
DiscardUsed(t, p, c) == Discard(t, p, c, TRUE)

StealCard(t, p, c) ==
  LET q == Owner(t, c)
  IN  IF q = 0 \/ ~Owned(t, q, c) THEN t ELSE ToHand(MoveOwnedCard(t, q, c, FALSE), p, c)

\* A second weapon, or horse, takes the place of the first.
Replace(t, c, p, tag) ==
  LET same == SelectSeq(OnTable(t, p), LAMBDA d : d # c /\ HasTag(d, tag))
  IN  IF same = <<>> THEN t ELSE DiscardCard(t, p, Head(same))

\* A ghost is given back its characters.
EnableGhost(t, p, n) ==
  AddFlag(IF Alive(t, p) THEN t
          ELSE ForEach(t, Characters(t, p), LAMBDA a, c : EnableCharacter(a, c)), p, GhostFlag(n))
EnableEquip(t, c) ==
  EnableCharacter(ForEach(t, Hard(c), LAMBDA a, e :
                    IF e[1] = "ghost" THEN EnableGhost(a, Bearer(a, c), e[2])
                    ELSE Replace(a, c, Bearer(a, c), e[1])), c)
EquipCard(t, p, c) == EnableEquip(MoveTo(t, c, TableOf(p), "shown"), c)

\* remove_extra_characters: the copies are gone but for the first character
RemoveExtraCharacters(t, p) ==
  LET extra == Tail(Characters(t, p))
      gone == ToSet(extra)
  IN  Then(ForEach(t, extra, DisableEquip), LAMBDA a :
        [a EXCEPT !.pile[CharactersOf(p)] = <<Head(@)>>,
                  !.pile[Away] = @ \o extra,
                  !.at = [c \in Cards(t) |-> IF c \in gone THEN Away ELSE @[c]],
                  !.vis = [c \in Cards(t) |-> IF c \in gone THEN "hidden" ELSE @[c]],
                  !.seen = [v \in Clients(t) |-> @[v] \ gone]])

RemoveDead(t) ==
  [t EXCEPT !.flags = [p \in Players(t) |-> IF Alive(t, p) THEN @[p] ELSE @[p] \cup {"removed"}]]

\* Three cards for an outlaw; the sheriff who kills a deputy loses its own.
Reward(t, killer, who) ==
  IF ~Alive(t, killer) \/ Alive(t, who) \/ Len(t.seats) < 3 THEN {t}
  ELSE {t, DrawTo(t, killer, 3)} \cup
         (IF Len(t.seats) = 3 THEN {}
          ELSE {QueueAt(t, [Request("discard_all", None, None, killer) EXCEPT
                              !.what = "sheriff_killed_deputy"], -2)})

\* The first player moves on; the last one alive wins.
Victory(t, killer, who) ==
  LET moved == IF who = t.first /\ ~Alive(t, who) /\ NumAlive(t) > 1
               THEN [t EXCEPT !.first = NextPlayer(t, who)] ELSE t
      Over == IF NumAlive(t) <= 1 THEN {TRUE}
              ELSE IF GameFlag(t, "free_for_all") \/ (Len(t.seats) <= 3 /\ (killer = None \/ Alive(t, who)))
              THEN {FALSE} ELSE BOOLEAN
  IN  {IF over THEN GameFlags(moved, {"game_over"}, TRUE) ELSE moved : over \in Over}

\* A scenario takes the place of the one in force.
ReplaceScenario(t, place, c) ==
  EnableEquip(MoveTo(IF t.pile[place] = <<>> THEN t ELSE DisableEquip(t, Last(t.pile[place])),
                     c, place, "shown"), c)

\* A card of the scenario in force, put on the table by draw_scenario_card.
DrawScenarioCard(t) ==
  LET deck == t.pile[<<"scenario_deck", 0>>]
      n == Len(deck)
  IN  IF t.vis[deck[n]] = "hidden" THEN SetVisibility(t, deck[n], "shown", 0)
      ELSE ReplaceScenario(IF n > 1 THEN SetVisibility(t, deck[n - 1], "shown", 0) ELSE t, Scenario, deck[n])
=============================================================================
