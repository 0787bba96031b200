------------------------------- MODULE Table -------------------------------
(***************************************************************************)
(* The table of a game and the operations the effects of cards are written *)
(* with: src/src/game/card.cpp, player.cpp, game_table.cpp, disabler_map.cpp*)
(*                                                                         *)
(* A handler of the code calls many of these in a row, so they are         *)
(* operators from a table to the table after the call.  The table is one   *)
(* record:                                                                 *)
(*   pile    the cards in each pocket, in order; a pocket is a pair        *)
(*           <<name, owner>>, with owner 0 where nobody owns it            *)
(*   vis     the visibility of each card: "hidden", "owner" or "shown"     *)
(*   seen    the cards whose face each client has been sent; client 0 is a *)
(*           spectator                                                     *)
(*   at      the pocket each card is in (its pocket and owner)             *)
(*   tapped  the inactive cards                                            *)
(*   seats   the players in the order of m_players                         *)
(*   hp, max, gold, flags     of each player                               *)
(*   gflags  the flags of the game                                         *)
(*   cubes   the cubes on each card; bank the cubes on the table           *)
(*   on      how many times the equips of a card have been enabled and not *)
(*           disabled since: its listeners are in place when it is 1       *)
(*   dis     m_disablers; lis the listeners that are not those of an equip *)
(*   queue   m_requests, the top first; rest whether the engine waits for  *)
(*           an answer to the top                                          *)
(*   turn    m_playing; first m_first_player; extra m_extra_turns; last    *)
(*           of m_played_cards, the last card played from the hand or      *)
(*           again, and the last brown one; used how many                  *)
(*           playing cards each player has played since its turn began     *)
(*   left, plays   turns and plays that may still begin: bounds of the     *)
(*           model                                                         *)
(*   lost    "null" when the code has followed a null pointer or taken the *)
(*           front of an empty list, "dry" when a handler was left in the  *)
(*           middle because the deck had no card to give, else "no"        *)
(*   steps   the updates since a player could last do anything             *)
(*                                                                         *)
(* A card is a tuple <<name, sign, order>>: the order it was made in.      *)
(***************************************************************************)
EXTENDS Integers, Sequences, FiniteSets, SequencesExt, FiniteSetsExt, TLC

CONSTANTS
  None,
  Sheet   \* what is written on the card of a name, as in Sheets

Name(c) == c[1]
Sign(c) == c[2]
Color(c) == Sheet[Name(c)].color
HasTag(c, tag) == tag \in Sheet[Name(c)].tags

Suit(s) == CASE s \in {"hearts", "hearts_A"} -> "hearts"
             [] s \in {"spades", "spades_A"} -> "spades"
             [] OTHER -> s
Low(s) == s \notin {"hearts_A", "spades_A"}

Players(t) == DOMAIN t.hp
Cards(t) == DOMAIN t.on

\* m_players in the order of the seats, from p on.
Around(t, p) ==
  LET n == Len(t.seats)
      at == CHOOSE i \in 1 .. n : t.seats[i] = p
  IN  [i \in 1 .. n |-> t.seats[((at + i - 2) % n) + 1]]

(***************************************************************************)
(* Pockets.                                                                *)
(***************************************************************************)

Main == <<"deck", 0>>
Discards == <<"discards", 0>>
Selection == <<"selection", 0>>
Shop == <<"shop", 0>>
ShopDeck == <<"shop_deck", 0>>
ShopDiscards == <<"shop_discards", 0>>
Train == <<"train", 0>>
TrainDeck == <<"train_deck", 0>>
Stations == <<"stations", 0>>
Scenario == <<"scenario", 0>>
WildWest == <<"wws", 0>>
Hidden == <<"hidden_deck", 0>>
ButtonRow == <<"button_row", 0>>
\* The cards that are in no pocket: characters not dealt, copies given back.
Away == <<"none", 0>>
HandOf(p) == <<"hand", p>>
TableOf(p) == <<"table", p>>
CharactersOf(p) == <<"character", p>>
BackupOf(p) == <<"backup", p>>

PublicPockets == {Main, Discards, Selection, Shop, ShopDeck, ShopDiscards, Train,
                  TrainDeck, Stations, Scenario, WildWest, Hidden,
                  ButtonRow, Away, <<"scenario_deck", 0>>, <<"wws_deck", 0>>}

Hand(t, p) == t.pile[HandOf(p)]
OnTable(t, p) == t.pile[TableOf(p)]
Characters(t, p) == t.pile[CharactersOf(p)]
Selected(t) == t.pile[Selection]

Pocket(t, c) == t.at[c][1]
Owner(t, c) == t.at[c][2]
IsIn(t, c, place) == t.at[c] = place

(***************************************************************************)
(* What each client is told of a card: card::set_visibility.               *)
(***************************************************************************)

Clients(t) == Players(t) \cup {0}

\* add_update<"show_card"> and <"hide_card">: the clients that are told
Told(t, old, was, new, owner) ==
  CASE new = "shown" /\ old = "owner" -> Clients(t) \ {was}
    [] new = "shown" /\ old = "hidden" -> Clients(t)
    [] new = "owner" /\ old # "shown" /\ (old # "owner" \/ was # owner) -> {owner}
    [] OTHER -> {}
Untold(t, old, was, new, owner) ==
  CASE new = "hidden" -> IF old = "owner" THEN {was} ELSE Clients(t)
    [] new = "owner" /\ old = "shown" -> Clients(t) \ {owner}
    [] new = "owner" /\ old = "owner" /\ was # owner -> {was}
    [] OTHER -> {}

Tell(t, c, vis, told, untold) ==
  [t EXCEPT !.vis[c] = vis,
            !.seen = [v \in Clients(t) |-> CASE v \in told -> @[v] \cup {c}
                                            [] v \in untold -> @[v] \ {c}
                                            [] OTHER -> @[v]]]
Shown(vis, owner) == IF vis = "owner" /\ owner = 0 THEN "shown" ELSE vis

\* Mutant: a card that changes hands stays known to its last owner.
SetVisibilityKept(t, c, vis, owner) ==
  Tell(t, c, Shown(vis, owner), Told(t, t.vis[c], Owner(t, c), Shown(vis, owner), owner),
       IF t.vis[c] = "owner" THEN {} ELSE Untold(t, t.vis[c], Owner(t, c), Shown(vis, owner), owner))

SetVisibility(t, c, vis, owner) ==
  Tell(t, c, Shown(vis, owner), Told(t, t.vis[c], Owner(t, c), Shown(vis, owner), owner),
       Untold(t, t.vis[c], Owner(t, c), Shown(vis, owner), owner))

\* get_spectator_join_updates: the cards whose face a client is sent that begins to watch now.
Removed(t, c) == Owner(t, c) # 0 /\ "removed" \in t.flags[Owner(t, c)]
InJoinUpdates(t, c) == Pocket(t, c) # "none" /\ ~Removed(t, c)
JoinUpdates(t) == {c \in Cards(t) : InJoinUpdates(t, c) /\ t.vis[c] = "shown"}
\* get_rejoin_updates: those that a player is sent besides who comes back.
RejoinUpdates(t, p) == ToSet(Hand(t, p)) \cup {c \in ToSet(Selected(t)) : Owner(t, c) = p}
Snapshot(t, v) == JoinUpdates(t) \cup (IF v = 0 THEN {} ELSE RejoinUpdates(t, v))

\* game_table::get_pocket: the selection is one, whoever sees what lies in it.
PileOf(place) == IF place[1] = "selection" THEN Selection ELSE place

\* Each card lies in the one pocket that card::pocket and card::owner name, and nothing else does.
InPlace(t) ==
  /\ \A c \in Cards(t) : c \in ToSet(t.pile[PileOf(t.at[c])])
  /\ \A place \in DOMAIN t.pile :
       IsInjective(t.pile[place]) /\ \A c \in ToSet(t.pile[place]) : PileOf(t.at[c]) = place

\* card::move_to
Put(t, c, place) ==
  [t EXCEPT !.pile[PileOf(t.at[c])] = RemoveFirst(@, c), !.at[c] = place,
            !.pile[PileOf(place)] = Append(@, c)]
MoveTo(t, c, place, vis) ==
  IF IsIn(t, c, place) THEN t ELSE Put(SetVisibility(t, c, vis, place[2]), c, place)
ToDiscards(t, c) == MoveTo(t, c, Discards, "shown")
ToDeck(t, c) == MoveTo(t, c, Main, "hidden")
SetInactive(t, c, b) == [t EXCEPT !.tapped = IF b THEN @ \cup {c} ELSE @ \ {c}]

\* What is done next, to the table that t is.
Then(t, Op(_)) == Op(t)
\* A handler run on each card or player of a sequence.
ForEach(t, seq, Op(_, _)) == FoldLeft(Op, t, seq)
\* A handler run n times.
Repeat(t, n, Op(_)) == FoldLeft(LAMBDA a, i : Op(a), t, [i \in 1 .. n |-> i])

\* A null pointer followed, the front of an empty list; a deck without a card.
Lose(t) == [t EXCEPT !.lost = "null"]
Dry(t) == [t EXCEPT !.lost = "dry"]
Stopped(t) == t.lost # "no"

(***************************************************************************)
(* Flags.                                                                  *)
(***************************************************************************)

HasFlag(t, p, f) == f \in t.flags[p]
AddFlag(t, p, f) == [t EXCEPT !.flags[p] = @ \cup {f}]
RemoveFlag(t, p, f) == [t EXCEPT !.flags[p] = @ \ {f}]
GameFlag(t, f) == f \in t.gflags
GameFlags(t, fs, b) == [t EXCEPT !.gflags = IF b THEN @ \cup fs ELSE @ \ fs]

HasGhostTag(t, p) == t.flags[p] \cap {"ghost_1", "ghost_2", "temp_ghost"} # {}
IsGhost(t, p) == HasFlag(t, p, "dead") /\ HasGhostTag(t, p)
Alive(t, p) == ~HasFlag(t, p, "dead") \/ HasGhostTag(t, p)
NumAlive(t) == Quantify(Players(t), LAMBDA p : Alive(t, p))

\* range_alive_players(p), range_other_players(p)
AliveFrom(t, p) == SelectSeq(Around(t, p), LAMBDA q : Alive(t, q))
OthersFrom(t, p) == SelectSeq(AliveFrom(t, p), LAMBDA q : q # p)

\* player::get_next_player
NextPlayer(t, p) == LET others == OthersFrom(t, p)
                    IN  IF others = <<>> THEN p ELSE Head(others)
PrevPlayer(t, p) == LET others == OthersFrom(t, p)
                    IN  IF others = <<>> THEN p ELSE Last(others)

(***************************************************************************)
(* The queue of requests: RequestQueue says how the engine runs it.        *)
(***************************************************************************)

Blank == [kind |-> "none", card |-> None, by |-> None, who |-> None, pr |-> 100,
          flags |-> {}, c |-> None, n |-> 0, m |-> 0, s |-> <<>>, what |-> "none",
          live |-> FALSE]

Request(kind, card, by, who) ==
  [Blank EXCEPT !.kind = kind, !.card = card, !.by = by, !.who = who]

\* stable_priority_queue::emplace: behind everything of the same priority
Ahead(q, r) == Cardinality({i \in DOMAIN q : q[i].pr >= r.pr})
Queue(t, r) == [t EXCEPT !.queue = InsertAt(@, Ahead(@, r) + 1, r), !.rest = FALSE]

QueueAt(t, r, pr) == Queue(t, [r EXCEPT !.pr = pr])

\* queue_action: a request that pops itself and runs a function
Action(kind, card, by, who) == [Request(kind, card, by, who) EXCEPT !.pr = 0]

Pending(t) == t.queue # <<>>
Top(t) == Head(t.queue)
TopIs(t, kinds) == Pending(t) /\ Top(t).kind \in kinds
\* queue_request<request_check>: what names the function given the result
CheckRequest(card, who, what) ==
  [Request("check", card, None, who) EXCEPT !.pr = 110, !.what = what]
\* queue_request<request_bang>
BangRequest(card, by, who, flags) ==
  [Request("bang", card, by, who) EXCEPT !.n = 1, !.m = 1, !.flags = flags]

Pop(t) == [t EXCEPT !.queue = Tail(@), !.rest = FALSE]
SetTop(t, r) == [t EXCEPT !.queue = <<r>> \o Tail(@)]

(***************************************************************************)
(* The decks.                                                              *)
(***************************************************************************)

\* Mutant: the pile of the discards is not emptied.
ReshuffleKept(t, deck, discards) ==
  LET cards == ToSet(t.pile[discards])
  IN  [t EXCEPT !.seen = [v \in Clients(t) |-> @[v] \ cards],
                !.vis = [c \in Cards(t) |-> IF c \in cards THEN "hidden" ELSE @[c]],
                !.at = [c \in Cards(t) |-> IF c \in cards THEN deck ELSE @[c]],
                !.pile[deck] = t.pile[discards]]

\* The discards become the deck, face down; in the order they lay.
Reshuffle(t, deck, discards) ==
  LET cards == ToSet(t.pile[discards])
  IN  [t EXCEPT !.seen = [v \in Clients(t) |-> @[v] \ cards],
                !.vis = [c \in Cards(t) |-> IF c \in cards THEN "hidden" ELSE @[c]],
                !.at = [c \in Cards(t) |-> IF c \in cards THEN deck ELSE @[c]],
                !.pile[deck] = t.pile[discards], !.pile[discards] = <<>>]

\* top_of_deck runs on Top(TopOfDeck(t)); with nothing left it throws.
TopOfDeck(t) ==
  IF t.pile[Main] # <<>> THEN t
  ELSE IF t.pile[Discards] = <<>> THEN Dry(t)
  ELSE Reshuffle(t, Main, Discards)
DeckTop(t) == Last(t.pile[Main])
ShowTop(t) == IF Stopped(t) THEN t ELSE MoveTo(t, DeckTop(t), Selection, "shown")

\* draw_shop_card, of the deck that ShopReady fills up; with nothing left it throws.
ShopReady(t) ==
  IF t.pile[ShopDeck] # <<>> THEN t
  ELSE IF t.pile[ShopDiscards] = <<>> THEN Dry(t)
  ELSE Reshuffle(t, ShopDeck, ShopDiscards)
ShopTop(t) == Last(t.pile[ShopDeck])
DrawShopCard(t) ==
  Then(ShopReady(t), LAMBDA a : IF Stopped(a) THEN a ELSE MoveTo(a, ShopTop(a), Shop, "shown"))

(***************************************************************************)
(* Listeners.  Those of an equip are in place while t.on says so.          *)
(***************************************************************************)

Listener(kind, card, who, n) == [kind |-> kind, card |-> card, who |-> who, n |-> n]
Listen(t, l) == [t EXCEPT !.lis = Append(@, l)]
Unlisten(t, card, kinds) ==
  [t EXCEPT !.lis = SelectSeq(@, LAMBDA l : ~(l.card = card /\ l.kind \in kinds))]

\* get_card_order
OrderOf(c) == IF c = None THEN 0 ELSE c[3]

EquipListeners(t, c) == {<<Listener(e[1], c, Owner(t, c), e[2]), 0>> : e \in ToSet(Sheet[Name(c)].equips)}
Listeners(t, pr) ==
  {x \in UNION {EquipListeners(t, c) : c \in {d \in Cards(t) : t.on[d] > 0}}
           \cup {<<t.lis[i], i>> : i \in DOMAIN t.lis} : x[1].kind \in DOMAIN pr}
\* listener_map: by priority, by the order of the card, and as they were added
RunsBefore(x, y, pr) ==
  \/ pr[x[1].kind] > pr[y[1].kind]
  \/ /\ pr[x[1].kind] = pr[y[1].kind]
     /\ \/ OrderOf(x[1].card) < OrderOf(y[1].card)
        \/ OrderOf(x[1].card) = OrderOf(y[1].card) /\ x[2] < y[2]
Firsts(seq) == [i \in DOMAIN seq |-> seq[i][1]]

\* Those of the kinds that pr gives a priority, in the order call_event runs them.
Listening(t, pr) == Firsts(SetToSortSeq(Listeners(t, pr), LAMBDA x, y : RunsBefore(x, y, pr)))

\* call_event: each of them is run on what the one before it left.
CallEvent(t, pr, Run(_, _)) == FoldLeft(Run, t, Listening(t, pr))

\* Whether player p has an equip of this kind in force.
Has(t, p, kind) ==
  \E c \in ToSet(OnTable(t, p)) \cup ToSet(Characters(t, p)) :
    t.on[c] > 0 /\ \E e \in ToSet(Sheet[Name(c)].equips) : e[1] = kind

(***************************************************************************)
(* Drawing, healing, gold.                                                 *)
(***************************************************************************)

HandsShown(t) == GameFlag(t, "hands_shown")
ToHand(t, p, c) == MoveTo(t, c, HandOf(p), IF HandsShown(t) THEN "shown" ELSE "owner")

\* player::draw_card: a card of the main deck is no train card
DrawOne(t, p) == IF Stopped(t) THEN t ELSE ToHand(t, p, DeckTop(t))
DrawTo(t, p, n) == Repeat(t, n, LAMBDA a : DrawOne(TopOfDeck(a), p))

AddGold(t, p, n) == [t EXCEPT !.gold[p] = @ + n]
SetHp(t, p, n) == [t EXCEPT !.hp[p] = n]
Heal(t, p, n) ==
  IF IsGhost(t, p) \/ t.hp[p] = t.max[p] THEN t
  ELSE SetHp(t, p, Min({t.hp[p] + n, t.max[p]}))
Damage(t, card, by, who, n, flags) ==
  QueueAt(t, [Request("damage", card, by, who) EXCEPT !.n = n, !.flags = flags \ {"escapable", "single_target"}], 200)
===========================================================================
