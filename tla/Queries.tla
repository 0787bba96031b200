------------------------------ MODULE Queries ------------------------------
(***************************************************************************)
(* The questions the rules ask of the cards on the table, and how the      *)
(* listeners of each card change the answer: the events of                 *)
(* src/src/effects that are called with a reference to a value.            *)
(***************************************************************************)
EXTENDS Equips

\* The equips of a kind that player p has in force; those of no owner.
HowMany(t, p, kind) ==
  Quantify(ToSet(OnTable(t, p)) \cup ToSet(Characters(t, p)),
           LAMBDA c : t.on[c] > 0 /\ \E e \in ToSet(Equips(c)) : e[1] = kind)
EquipsOf(t, p, kind) ==
  UNION {{e \in ToSet(Equips(c)) : e[1] = kind} :
           c \in {d \in ToSet(OnTable(t, p)) \cup ToSet(Characters(t, p)) : t.on[d] > 0}}
InForce(t, kind) ==
  \E c \in Cards(t) : t.on[c] > 0 /\ \E e \in ToSet(Equips(c)) : e[1] = kind
Heard(t, kind, who) == Len(SelectSeq(t.lis, LAMBDA l : l.kind = kind /\ l.who = who))

\* card::get_modified_sign
Blessing(t, suit) == IF InForce(t, "blessing") THEN "hearts" ELSE suit
Curse(t, suit) == IF InForce(t, "curse") THEN "spades" ELSE suit
ModSuit(t, c) == Blessing(t, Curse(t, Suit(Sign(c))))
Red(suit) == suit \in {"hearts", "diamonds"}

\* player::max_cards_end_of_turn
\* A smaller belt is heard before a larger one.
Gunbelt(t, p, v) ==
  LET belts == {e[2] : e \in EquipsOf(t, p, "gunbelt")}
  IN  IF belts = {} THEN v ELSE Max(belts)
PackMule(t, p, v) == v + HowMany(t, p, "packmule")
MaxCards(t, p) == PackMule(t, p, Gunbelt(t, p, t.hp[p]))

\* player::get_num_checks
LuckyDuke(t, p, v) == v + HowMany(t, p, "lucky_duke")
NumChecks(t, p) == LuckyDuke(t, p, 1)

\* player::get_bangs_played; effect_banglimit counts with a listener.
Shootout(t, v) == IF InForce(t, "shootout") THEN v - 1 ELSE v
Volcanic(t, p, v) == IF Has(t, p, "volcanic") THEN 0 ELSE v
BangsPlayed(t, p) == Volcanic(t, p, Shootout(t, Heard(t, "bang_played", p)))

\* event count_usages
Usages(t, p, c) == Len(SelectSeq(t.lis, LAMBDA l : l.kind = "usage" /\ l.who = p /\ l.card = c))

(***************************************************************************)
(* Distances.                                                              *)
(***************************************************************************)

Scope(t, p, v) == v + HowMany(t, p, "scope")
RangeMod(t, p) == Scope(t, p, 0)

WeaponRange(t, p) ==
  LET inUse == SelectSeq(OnTable(t, p), LAMBDA c : HasTag(c, "weapon") /\ ~Disabled(t, c))
  IN  IF inUse = <<>> THEN 1 ELSE Equips(Last(inUse))[1][2]

Mustang(t, p, v) == v + HowMany(t, p, "mustang")
PatBarrett(t, p, v) == IF Has(t, p, "pat_barrett") THEN v + t.max[p] - t.hp[p] ELSE v
DistanceMod(t, p) == PatBarrett(t, p, Mustang(t, p, 0))

\* game_table::calc_distance: around the table either way, over the living
Distance(t, p, q) ==
  IF p = q \/ ~Alive(t, p) THEN 0
  ELSE IF GameFlag(t, "disable_player_distances") THEN 1 + DistanceMod(t, q)
  ELSE LET seats == Around(t, p)
           at == CHOOSE i \in DOMAIN seats : seats[i] = q
           Living(part) == Len(SelectSeq(part, LAMBDA r : Alive(t, r)))
       IN  Min({Living(SubSeq(seats, 1, at - 1)),
                Living(SubSeq(seats, at + 1, Len(seats))) + 1}) + DistanceMod(t, q)

(***************************************************************************)
(* event count_cards_to_draw, in the order of the priorities.              *)
(***************************************************************************)

BillNoface(t, p, v) == IF Has(t, p, "bill_noface") THEN 1 + t.max[p] - t.hp[p] ELSE v
PixiePete(t, p, v) == IF Has(t, p, "pixie_pete") /\ v = 2 THEN 3 ELSE v
GhostTownDraws(t, p, v) ==
  IF InForce(t, "ghosttown") /\ HasFlag(t, p, "temp_ghost") /\ v = 2 THEN 3 ELSE v
TrainArrival(t, v) == IF InForce(t, "trainarrival") THEN v + 1 ELSE v
Pickaxe(t, p, v) == v + HowMany(t, p, "pickaxe")
Tuco(t, p, v) ==
  IF Has(t, p, "tuco_franziskaner") /\ ~\E c \in ToSet(OnTable(t, p)) : Color(c) = "blue"
  THEN v + 2 ELSE v
Thirst(t, v) == IF InForce(t, "thirst") THEN v - 1 ELSE v
Taxed(t, p, v) == v - Heard(t, "taxed", p)

CardsToDraw(t, p) ==
  LET most == GhostTownDraws(t, p, PixiePete(t, p, BillNoface(t, p, 2)))
  IN  Taxed(t, p, Thirst(t, Tuco(t, p, TrainArrival(t, Pickaxe(t, p, most)))))

(***************************************************************************)
(* What a player is spared.                                                *)
(***************************************************************************)

\* apply_immunity_modifier
ApacheKid(t, c, by, who) == by # who /\ Has(t, who, "apache_kid") /\ ModSuit(t, c) = "diamonds"
WyattEarl(t, who, flags) == Has(t, who, "wyatt_earl") /\ "multi_target" \in flags
IndianGuide(t, c, who) == Has(t, who, "indianguide") /\ HasTag(c, "indians")
Immune(t, c, by, who, flags) ==
  c # None /\ (ApacheKid(t, c, by, who) \/ WyattEarl(t, who, flags) \/ IndianGuide(t, c, who))

InDiscards(t, name) == \E c \in ToSet(t.pile[Discards]) : Name(c) = name

\* apply_escapable_modifier: 1 for a player who may hold Escape, 2 for one who may
\* always get away.
ShadowsEscape(t, who, flags) ==
  /\ GameFlag(t, "rules_vos")
  /\ Hand(t, who) # <<>> /\ "escapable" \in flags /\ ~InDiscards(t, "escape")
UdoListinuEscape(t, who, flags) ==
  /\ GameFlag(t, "rules_udo")
  /\ Hand(t, who) # <<>> /\ {"escapable", "single_target"} \subseteq flags
  /\ "multi_target" \notin flags /\ ~InDiscards(t, "escape")
MickDefender(t, who, flags) ==
  Has(t, who, "mick_defender") /\ Hand(t, who) # <<>> /\ "escapable" \in flags
MsAbigailEscape(card, by, flags) ==
  by # None /\ "single_target" \in flags /\ card # None /\ Color(card) = "brown" /\ ~Low(Sign(card))
CanEscape(t, card, by, who, flags) ==
  IF MickDefender(t, who, flags) \/ (Has(t, who, "ms_abigail") /\ MsAbigailEscape(card, by, flags)) THEN 2
  ELSE IF ShadowsEscape(t, who, flags) \/ UdoListinuEscape(t, who, flags) THEN 1 ELSE 0

\* check_damage_response: somebody may hold the card that answers a damage.
SomeoneHolds(t, but) == \E p \in Players(t) \ but : Alive(t, p) /\ Hand(t, p) # <<>>
ShadowsResponse(t, who) ==
  GameFlag(t, "rules_vos") /\ SomeoneHolds(t, {who}) /\ ~InDiscards(t, "saved")
UdoListinuResponse(t, who) ==
  GameFlag(t, "rules_udo") /\ SomeoneHolds(t, {who, t.turn}) /\ ~InDiscards(t, "saved")
CanyonResponse(t, who) ==
  GameFlag(t, "rules_cd") /\ SomeoneHolds(t, {who}) /\ ~InDiscards(t, "sacrifice")
DamageResponse(t, who) ==
  ShadowsResponse(t, who) \/ UdoListinuResponse(t, who) \/ CanyonResponse(t, who)

\* check_bang_target: Evelyn Shebang may aim at nobody twice in a turn.
BangTargetOk(t, c, p, q) ==
  ~\E i \in DOMAIN t.lis : LET l == t.lis[i]
                           IN  l.kind = "bang_target" /\ l.card = c /\ l.who = p /\ l.n = q

\* event check_card_taker
VultureSamTakes(t, p) == Has(t, p, "vulture_sam")
GaryLooterTakes(t, p) == Has(t, p, "gary_looter")
JohnPainTakes(t, p) == Has(t, p, "john_pain") /\ Len(Hand(t, p)) < 6
\* No player that takes them sits between p, with p, and q.
FirstTaker(t, p, q, Takes(_)) ==
  LET seats == Around(t, p)
      at == CHOOSE i \in DOMAIN seats : seats[i] = q
  IN  ~\E i \in 1 .. at - 1 : Alive(t, seats[i]) /\ Takes(seats[i])

\* event apply_beer_modifier
TequilaJoe(t, p, v) == v + HowMany(t, p, "tequila_joe")

\* card::is_bang_card, effect_context left aside
IsBangCard(t, p, c) ==
  \/ HasTag(c, "bangcard")
  \/ HasFlag(t, p, "treat_any_as_bang")
  \/ HasFlag(t, p, "treat_missed_as_bang") /\ HasTag(c, "missed")
=============================================================================
