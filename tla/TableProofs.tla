----------------------------- MODULE TableProofs -----------------------------
(***************************************************************************)
(* What card::move_to, game_table::top_of_deck, player::draw_card and the  *)
(* queue of requests keep true, for every table: a client was sent the     *)
(* face of the cards that it may see, and of no others; a card lies in the *)
(* one pocket that it names; who joins or comes back is told the same; the *)
(* queue is in order.  The handlers of the cards are made of these         *)
(* operators; CardGame's runs check them put together (TypeOK, ViewsAgree).*)
(***************************************************************************)
EXTENDS Table, FiniteSetTheorems, WellFoundedInduction, TLAPS

Visibility == {"hidden", "owner", "shown"}
PocketNames == {"deck", "discards", "selection", "shop", "shop_deck", "shop_discards", "train",
                "train_deck", "stations", "scenario", "scenario_deck", "wws", "wws_deck",
                "hidden_deck", "button_row", "none", "hand", "table", "character", "backup"}
Places(t) == PocketNames \X Clients(t)

\* A record with what the operators below read and write.
IsTable(t) ==
  /\ t = [f \in DOMAIN t |-> t[f]]
  /\ {"pile", "vis", "seen", "at", "hp", "on", "flags", "gflags", "lost"} \subseteq DOMAIN t
  /\ t.vis \in [Cards(t) -> Visibility]
  /\ t.seen \in [Clients(t) -> SUBSET Cards(t)]
  /\ t.at \in [Cards(t) -> Places(t)]
  /\ t.pile = [place \in DOMAIN t.pile |-> t.pile[place]]
  /\ 0 \notin Players(t)

\* Whether client v may see card c.
MaySee(t, v, c) ==
  \/ t.vis[c] = "shown"
  \/ t.vis[c] = "owner" /\ Owner(t, c) = v

\* Each client was sent the faces of the cards it may see, and a card that its owner sees has one.
Informed(t) ==
  /\ \A v \in Clients(t), c \in Cards(t) : c \in t.seen[v] <=> MaySee(t, v, c)
  /\ \A c \in Cards(t) : t.vis[c] = "owner" => Owner(t, c) # 0

-----------------------------------------------------------------------------

\* Telling clients of a card changes what they know of it and nothing else.
LEMMA TellFields ==
  ASSUME NEW t, IsTable(t), NEW c \in Cards(t), NEW vis \in Visibility, NEW told, NEW untold
  PROVE  LET a == Tell(t, c, vis, told, untold)
         IN  /\ a = [f \in DOMAIN t |-> a[f]]
             /\ \A f \in DOMAIN t \ {"vis", "seen"} : a[f] = t[f]
             /\ a.vis = [t.vis EXCEPT ![c] = vis]
             /\ a.seen = [v \in Clients(t) |-> CASE v \in told -> t.seen[v] \cup {c}
                                                  [] v \in untold -> t.seen[v] \ {c}
                                                  [] OTHER -> t.seen[v]]
BY DEF Tell, IsTable

\* Who sees a card once its visibility and owner have changed: those who are told, and those
\* who saw it before and are not told to hide it; nobody is told both.
LEMMA ToldRight ==
  ASSUME NEW t, NEW c \in Cards(t), NEW old \in Visibility, NEW was \in Clients(t),
         NEW new \in Visibility, NEW owner \in Clients(t), NEW v \in Clients(t),
         old = "owner" => was # 0, new = "owner" => owner # 0
  PROVE  LET told == Told(t, old, was, new, owner)
             untold == Untold(t, old, was, new, owner)
             saw == old = "shown" \/ (old = "owner" /\ was = v)
             sees == new = "shown" \/ (new = "owner" /\ owner = v)
         IN  /\ sees <=> (v \in told \/ (saw /\ v \notin untold))
             /\ ~(v \in told /\ v \in untold)
<1>1. CASE new = "shown"
  BY <1>1 DEF Told, Untold, Visibility, Clients
<1>2. CASE new = "hidden"
  BY <1>2 DEF Told, Untold, Visibility, Clients
<1>3. CASE new = "owner"
  BY <1>3 DEF Told, Untold, Visibility, Clients
<1> QED BY <1>1, <1>2, <1>3 DEF Visibility

\* set_visibility: who saw the other cards sees them still, and this one is seen by those who may
\* see it with its new visibility and owner.
LEMMA SetVisibilityFields ==
  ASSUME NEW t, IsTable(t), Informed(t), NEW c \in Cards(t), NEW vis \in Visibility,
         NEW owner \in Clients(t)
  PROVE  LET a == SetVisibility(t, c, vis, owner)
             new == Shown(vis, owner)
         IN  /\ IsTable(a)
             /\ Clients(a) = Clients(t) /\ Cards(a) = Cards(t)
             /\ new \in Visibility
             /\ \A f \in DOMAIN t \ {"vis", "seen"} : a[f] = t[f]
             /\ DOMAIN a = DOMAIN t
             /\ a.vis = [t.vis EXCEPT ![c] = new]
             /\ \A v \in Clients(t) :
                  /\ c \in a.seen[v] <=> (new = "shown" \/ (new = "owner" /\ owner = v))
                  /\ \A d \in Cards(t) \ {c} : d \in a.seen[v] <=> d \in t.seen[v]
<1> DEFINE new == Shown(vis, owner)
           told == Told(t, t.vis[c], Owner(t, c), new, owner)
           untold == Untold(t, t.vis[c], Owner(t, c), new, owner)
           a == SetVisibility(t, c, vis, owner)
<1>1. a = Tell(t, c, new, told, untold)
  BY DEF SetVisibility
<1>2. new \in Visibility /\ (new = "owner" => owner # 0)
  BY DEF Shown, Visibility
<1>3. /\ t.vis[c] \in Visibility
      /\ Owner(t, c) \in Clients(t)
      /\ t.vis[c] = "owner" => Owner(t, c) # 0
  BY DEF IsTable, Informed, Owner, Places
<1> HIDE DEF a, new, told, untold
<1>4. /\ a = [f \in DOMAIN t |-> a[f]]
      /\ \A f \in DOMAIN t \ {"vis", "seen"} : a[f] = t[f]
      /\ a.vis = [t.vis EXCEPT ![c] = new]
      /\ a.seen = [v \in Clients(t) |-> CASE v \in told -> t.seen[v] \cup {c}
                                           [] v \in untold -> t.seen[v] \ {c}
                                           [] OTHER -> t.seen[v]]
  BY <1>1, <1>2, TellFields
<1>5. DOMAIN a = DOMAIN t
  BY <1>4
<1>6. a.hp = t.hp /\ a.on = t.on /\ a.at = t.at /\ a.pile = t.pile
  BY <1>4 DEF IsTable
<1>7. Clients(a) = Clients(t) /\ Cards(a) = Cards(t) /\ Players(a) = Players(t)
  BY <1>6 DEF Clients, Cards, Players
<1>8. ASSUME NEW v \in Clients(t)
      PROVE  /\ a.seen[v] \subseteq Cards(t)
             /\ c \in a.seen[v] <=> (new = "shown" \/ (new = "owner" /\ owner = v))
             /\ \A d \in Cards(t) \ {c} : d \in a.seen[v] <=> d \in t.seen[v]
  <2>1. c \in t.seen[v] <=> (t.vis[c] = "shown" \/ (t.vis[c] = "owner" /\ Owner(t, c) = v))
    BY DEF Informed, MaySee
  <2>2. /\ (new = "shown" \/ (new = "owner" /\ owner = v))
             <=> (v \in told \/ (c \in t.seen[v] /\ v \notin untold))
        /\ ~(v \in told /\ v \in untold)
    BY <1>2, <1>3, <2>1, ToldRight DEF told, untold
  <2>3. t.seen[v] \subseteq Cards(t)
    BY DEF IsTable
  <2>4. a.seen[v] = CASE v \in told -> t.seen[v] \cup {c}
                      [] v \in untold -> t.seen[v] \ {c}
                      [] OTHER -> t.seen[v]
    BY <1>4
  <2>5. CASE v \in told
    BY <2>2, <2>3, <2>4, <2>5
  <2>6. CASE v \notin told /\ v \in untold
    BY <2>2, <2>3, <2>4, <2>6
  <2>7. CASE v \notin told /\ v \notin untold
    BY <2>2, <2>3, <2>4, <2>7
  <2> QED BY <2>5, <2>6, <2>7
<1>9. a.seen \in [Clients(t) -> SUBSET Cards(t)]
  BY <1>4, <1>8
<1>10. a.vis \in [Cards(t) -> Visibility]
  BY <1>2, <1>4 DEF IsTable
<1>11. IsTable(a)
  BY <1>4, <1>5, <1>6, <1>7, <1>9, <1>10 DEF IsTable, Places
<1> QED BY <1>2, <1>4, <1>5, <1>7, <1>8, <1>11 DEF a, new

\* Turning a card over where it lies leaves every client with what it may see: a check, the deck's
\* top under The Law of the West, hands that are shown or hidden again.
THEOREM ShowInforms ==
  ASSUME NEW t, IsTable(t), Informed(t), NEW c \in Cards(t), NEW vis \in Visibility,
         NEW owner \in Clients(t), vis = "owner" => owner \in {0, Owner(t, c)}
  PROVE  LET a == SetVisibility(t, c, vis, owner) IN IsTable(a) /\ Informed(a)
<1> DEFINE a == SetVisibility(t, c, vis, owner)
           new == Shown(vis, owner)
<1>1. /\ IsTable(a) /\ Clients(a) = Clients(t) /\ Cards(a) = Cards(t)
      /\ a.vis = [t.vis EXCEPT ![c] = new]
      /\ \A f \in DOMAIN t \ {"vis", "seen"} : a[f] = t[f]
      /\ \A v \in Clients(t) :
           /\ c \in a.seen[v] <=> (new = "shown" \/ (new = "owner" /\ owner = v))
           /\ \A d \in Cards(t) \ {c} : d \in a.seen[v] <=> d \in t.seen[v]
  BY SetVisibilityFields
<1>2. new = "owner" => owner # 0 /\ owner = Owner(t, c)
  BY DEF Shown
<1> HIDE DEF a, new
<1>3. \A d \in Cards(t) : Owner(a, d) = Owner(t, d)
  BY <1>1 DEF IsTable, Owner
<1>4. a.vis[c] = new /\ \A d \in Cards(t) \ {c} : a.vis[d] = t.vis[d]
  BY <1>1 DEF IsTable
<1>5. Informed(a)
  BY <1>1, <1>2, <1>3, <1>4 DEF Informed, MaySee
<1> QED BY <1>1, <1>5 DEF a

\* Only the pile and the place of the card change when it is put into a pocket.
LEMMA PutFields ==
  ASSUME NEW t, IsTable(t), NEW c \in Cards(t), NEW place \in Places(t)
  PROVE  LET a == Put(t, c, place)
         IN  /\ IsTable(a)
             /\ Clients(a) = Clients(t) /\ Cards(a) = Cards(t)
             /\ a.vis = t.vis /\ a.seen = t.seen
             /\ a.at = [t.at EXCEPT ![c] = place]
<1> DEFINE a == Put(t, c, place)
<1>1. /\ a = [f \in DOMAIN t |-> a[f]] /\ DOMAIN a = DOMAIN t
      /\ \A f \in DOMAIN t \ {"pile", "at"} : a[f] = t[f]
      /\ a.at = [t.at EXCEPT ![c] = place]
      /\ a.pile = [q \in DOMAIN t.pile |-> a.pile[q]]
  BY DEF Put, IsTable
<1> HIDE DEF a
<1>2. a.hp = t.hp /\ a.on = t.on /\ a.vis = t.vis /\ a.seen = t.seen
  BY <1>1 DEF IsTable
<1>3. Clients(a) = Clients(t) /\ Cards(a) = Cards(t) /\ Players(a) = Players(t)
  BY <1>2 DEF Clients, Cards, Players
<1>4. a.at \in [Cards(t) -> Places(t)]
  BY <1>1 DEF IsTable
<1>5. DOMAIN a.pile = DOMAIN t.pile
  BY <1>1
<1>6. IsTable(a)
  BY <1>1, <1>2, <1>3, <1>4, <1>5 DEF IsTable, Places
<1> QED BY <1>1, <1>2, <1>3, <1>6 DEF a

\* card::move_to, from any pocket to any other and with any visibility, leaves every client with
\* the faces of the cards it may see: what a card was to its last owner and what it is to the next
\* meet in one call.
THEOREM MoveInforms ==
  ASSUME NEW t, IsTable(t), Informed(t), NEW c \in Cards(t), NEW place \in Places(t),
         NEW vis \in Visibility
  PROVE  LET a == MoveTo(t, c, place, vis)
         IN  /\ IsTable(a) /\ Informed(a)
             /\ Clients(a) = Clients(t) /\ Cards(a) = Cards(t)
             /\ a.at = [t.at EXCEPT ![c] = place]
             /\ ~IsIn(t, c, place) => a.vis[c] = Shown(vis, place[2])
<1> DEFINE s == SetVisibility(t, c, vis, place[2])
           a == Put(s, c, place)
           new == Shown(vis, place[2])
<1>1. CASE IsIn(t, c, place)
  BY <1>1 DEF MoveTo, IsIn, IsTable
<1>2. CASE ~IsIn(t, c, place)
  <2>1. place[2] \in Clients(t)
    BY DEF Places
  <2>2. /\ IsTable(s) /\ Clients(s) = Clients(t) /\ Cards(s) = Cards(t)
        /\ s.vis = [t.vis EXCEPT ![c] = new]
        /\ \A f \in DOMAIN t \ {"vis", "seen"} : s[f] = t[f]
        /\ \A v \in Clients(t) :
             /\ c \in s.seen[v] <=> (new = "shown" \/ (new = "owner" /\ place[2] = v))
             /\ \A d \in Cards(t) \ {c} : d \in s.seen[v] <=> d \in t.seen[v]
    BY <2>1, SetVisibilityFields
  <2>3. new = "owner" => place[2] # 0
    BY DEF Shown
  <2> HIDE DEF s, new
  <2>4. Places(s) = Places(t) /\ s.at = t.at
    BY <2>2 DEF Places, IsTable
  <2>5. /\ IsTable(a) /\ Clients(a) = Clients(t) /\ Cards(a) = Cards(t)
        /\ a.vis = s.vis /\ a.seen = s.seen
        /\ a.at = [t.at EXCEPT ![c] = place]
    BY <2>2, <2>4, PutFields
  <2> HIDE DEF a
  <2>6. Owner(a, c) = place[2] /\ \A d \in Cards(t) \ {c} : Owner(a, d) = Owner(t, d)
    BY <2>5 DEF Owner, IsTable
  <2>7. a.vis[c] = new /\ \A d \in Cards(t) \ {c} : a.vis[d] = t.vis[d]
    BY <2>2, <2>5 DEF IsTable
  <2>8. Informed(a)
    BY <2>2, <2>3, <2>5, <2>6, <2>7 DEF Informed, MaySee
  <2>9. MoveTo(t, c, place, vis) = a
    BY <1>2 DEF MoveTo, a, s
  <2> QED BY <2>5, <2>7, <2>8, <2>9 DEF new
<1> QED BY <1>1, <1>2

\* A card that comes into a hand, drawn, stolen or given, is seen by the player and by nobody else,
\* the player who had it before and those who watched it in the selection included, unless hands
\* are played open.
THEOREM HandsPrivate ==
  ASSUME NEW t, IsTable(t), Informed(t), NEW c \in Cards(t), NEW p \in Players(t),
         ~IsIn(t, c, HandOf(p)), ~HandsShown(t)
  PROVE  \A v \in Clients(t) : c \in ToHand(t, p, c).seen[v] <=> v = p
<1> DEFINE place == HandOf(p)
           vis == "owner"
           a == MoveTo(t, c, place, vis)
<1>1. vis \in Visibility /\ place \in Places(t) /\ place[2] = p
  BY DEF Visibility, HandOf, Places, PocketNames, Clients
<1>2. ToHand(t, p, c) = a /\ ~IsIn(t, c, place)
  BY DEF ToHand
<1>3. Shown(vis, place[2]) = "owner"
  BY <1>1 DEF Shown, IsTable
<1> HIDE DEF place, vis
<1>4. /\ Informed(a) /\ Clients(a) = Clients(t) /\ Cards(a) = Cards(t)
      /\ a.at = [t.at EXCEPT ![c] = place] /\ a.vis[c] = "owner"
  BY <1>1, <1>2, <1>3, MoveInforms
<1> HIDE DEF a
<1>5. Owner(a, c) = p
  BY <1>1, <1>4 DEF Owner, IsTable
<1> QED BY <1>2, <1>4, <1>5 DEF Informed, MaySee

\* Turning the discards over hides each of them from everyone and nothing else from anyone.
THEOREM ReshuffleInforms ==
  ASSUME NEW t, IsTable(t), Informed(t), NEW deck \in Places(t), NEW discards \in Places(t),
         deck \in DOMAIN t.pile, discards \in DOMAIN t.pile
  PROVE  LET a == Reshuffle(t, deck, discards) IN IsTable(a) /\ Informed(a)
<1> DEFINE a == Reshuffle(t, deck, discards)
           cards == ToSet(t.pile[discards])
<1>1. /\ a = [f \in DOMAIN t |-> a[f]] /\ DOMAIN a = DOMAIN t
      /\ a.hp = t.hp /\ a.on = t.on
      /\ a.seen = [v \in Clients(t) |-> t.seen[v] \ cards]
      /\ a.vis = [c \in Cards(t) |-> IF c \in cards THEN "hidden" ELSE t.vis[c]]
      /\ a.at = [c \in Cards(t) |-> IF c \in cards THEN deck ELSE t.at[c]]
      /\ a.pile = [q \in DOMAIN t.pile |-> a.pile[q]]
      /\ DOMAIN a.pile = DOMAIN t.pile
  BY DEF Reshuffle, IsTable, Clients, Cards
<1> HIDE DEF a, cards
<1>2. Clients(a) = Clients(t) /\ Cards(a) = Cards(t) /\ Players(a) = Players(t) /\ Places(a) = Places(t)
  BY <1>1 DEF Clients, Cards, Players, Places
<1>3. a.seen \in [Clients(t) -> SUBSET Cards(t)]
  BY <1>1 DEF IsTable
<1>4. a.vis \in [Cards(t) -> Visibility]
  BY <1>1 DEF IsTable, Visibility
<1>5. a.at \in [Cards(t) -> Places(t)]
  BY <1>1 DEF IsTable
<1>6. IsTable(a)
  BY <1>1, <1>2, <1>3, <1>4, <1>5 DEF IsTable
<1>7. Informed(a)
  BY <1>1, <1>2 DEF IsTable, Informed, MaySee, Owner
<1> QED BY <1>6, <1>7 DEF a
-----------------------------------------------------------------------------

(***************************************************************************)
(* Each card in its pocket.                                                *)
(***************************************************************************)

\* The piles are sequences of cards; the main deck, its discards and each hand have one, and so has
\* each pocket that a card names.
IsPiled(t) ==
  /\ \A place \in DOMAIN t.pile : t.pile[place] \in Seq(Cards(t))
  /\ \A c \in Cards(t) : PileOf(t.at[c]) \in DOMAIN t.pile
  /\ {Main, Discards} \cup {HandOf(p) : p \in Players(t)} \subseteq DOMAIN t.pile

\* Where a card may be put: a pocket that has a pile.
IsPocket(t, place) == place \in Places(t) /\ PileOf(place) \in DOMAIN t.pile

\* Taking a card out of a pile that has it once leaves the others.
LEMMA TakenOut ==
  ASSUME NEW S, NEW s \in Seq(S), IsInjective(s), NEW c \in ToSet(s)
  PROVE  /\ RemoveFirst(s, c) \in Seq(S)
         /\ IsInjective(RemoveFirst(s, c))
         /\ ToSet(RemoveFirst(s, c)) = ToSet(s) \ {c}
         /\ Len(RemoveFirst(s, c)) = Len(s) - 1
<1> DEFINE I == {i \in 1 .. Len(s) : s[i] = c}
<1>1. PICK k \in 1 .. Len(s) : s[k] = c
  BY DEF ToSet
<1>2. I = {k}
  BY <1>1 DEF IsInjective
<1>3. Min(I) = k
  BY <1>2 DEF Min
<1>4. RemoveFirst(s, c) = SubSeq(s, 1, k - 1) \o SubSeq(s, k + 1, Len(s))
  <2>1. SelectInSeq(s, LAMBDA v : v = c) = k
    BY <1>2, <1>3 DEF SelectInSeq
  <2> QED BY <1>1, <2>1 DEF RemoveFirst, RemoveAt
<1> DEFINE r == SubSeq(s, 1, k - 1) \o SubSeq(s, k + 1, Len(s))
<1>5. /\ r \in Seq(S) /\ Len(r) = Len(s) - 1
      /\ \A i \in 1 .. Len(r) : r[i] = IF i < k THEN s[i] ELSE s[i + 1]
  <2> DEFINE a == SubSeq(s, 1, k - 1)
             b == SubSeq(s, k + 1, Len(s))
  <2>1. a \in Seq(S) /\ Len(a) = k - 1 /\ \A i \in 1 .. k - 1 : a[i] = s[i]
    OBVIOUS
  <2>2. b \in Seq(S) /\ Len(b) = Len(s) - k /\ \A i \in 1 .. Len(s) - k : b[i] = s[i + k]
    OBVIOUS
  <2> HIDE DEF a, b
  <2>3. /\ a \o b \in Seq(S) /\ Len(a \o b) = Len(s) - 1
        /\ \A i \in 1 .. Len(s) - 1 : (a \o b)[i] = IF i <= k - 1 THEN a[i] ELSE b[i - (k - 1)]
    <3>1. /\ a \o b \in Seq(S) /\ Len(a \o b) = Len(a) + Len(b)
          /\ \A i \in 1 .. Len(a) + Len(b) :
               (a \o b)[i] = IF i <= Len(a) THEN a[i] ELSE b[i - Len(a)]
      <4>1. a \in Seq(S) /\ b \in Seq(S)
        BY <2>1, <2>2
      <4> QED BY <4>1
    <3>3. Len(a) + Len(b) = Len(s) - 1
      BY <2>1, <2>2
    <3> QED BY <2>1, <3>1, <3>3
  <2>4. ASSUME NEW i \in 1 .. Len(s) - 1
        PROVE  (a \o b)[i] = IF i < k THEN s[i] ELSE s[i + 1]
    BY <2>1, <2>2, <2>3
  <2>5. r = a \o b
    BY DEF a, b
  <2> QED BY <2>3, <2>4, <2>5
<1> HIDE DEF r
<1>6. IsInjective(r)
  <2>1. SUFFICES ASSUME NEW i \in 1 .. Len(r), NEW j \in 1 .. Len(r), r[i] = r[j]
                 PROVE  i = j
    BY <1>5 DEF IsInjective
  <2> DEFINE At(n) == IF n < k THEN n ELSE n + 1
  <2>2. At(i) \in 1 .. Len(s) /\ At(j) \in 1 .. Len(s) /\ s[At(i)] = s[At(j)]
    BY <1>5, <2>1
  <2>3. At(i) = At(j)
    BY <2>2 DEF IsInjective
  <2> QED BY <2>3
<1>7. ToSet(r) \subseteq ToSet(s) \ {c}
  BY <1>1, <1>5 DEF IsInjective, ToSet
<1>8. ASSUME NEW d \in ToSet(s) \ {c}
      PROVE  d \in ToSet(r)
  <2>1. PICK i \in 1 .. Len(s) : s[i] = d
    BY DEF ToSet
  <2>2. i # k
    BY <1>1, <2>1
  <2>3. CASE i < k
    BY <1>5, <2>1, <2>3 DEF ToSet
  <2>4. CASE i > k
    <3>1. i - 1 \in 1 .. Len(r) /\ r[i - 1] = d
      BY <1>5, <2>1, <2>4
    <3> QED BY <1>5, <3>1 DEF ToSet
  <2> QED BY <2>2, <2>3, <2>4
<1> QED BY <1>4, <1>5, <1>6, <1>7, <1>8 DEF r

\* Laying a card on a pile that does not have it.
LEMMA LaidOn ==
  ASSUME NEW S, NEW s \in Seq(S), IsInjective(s), NEW c \in S, c \notin ToSet(s)
  PROVE  /\ Append(s, c) \in Seq(S)
         /\ IsInjective(Append(s, c))
         /\ ToSet(Append(s, c)) = ToSet(s) \cup {c}
         /\ Len(Append(s, c)) = Len(s) + 1
<1> DEFINE r == Append(s, c)
<1>1. /\ r \in Seq(S) /\ Len(r) = Len(s) + 1 /\ r[Len(r)] = c
      /\ \A i \in 1 .. Len(s) : r[i] = s[i]
  OBVIOUS
<1> HIDE DEF r
<1>2. IsInjective(r)
  BY <1>1 DEF IsInjective, ToSet
<1>3. ToSet(r) = ToSet(s) \cup {c}
  <2>1. ToSet(s) \subseteq ToSet(r)
    BY <1>1 DEF ToSet
  <2>2. c \in ToSet(r)
    BY <1>1 DEF ToSet
  <2>3. ToSet(r) \subseteq ToSet(s) \cup {c}
    BY <1>1 DEF ToSet
  <2> QED BY <2>1, <2>2, <2>3
<1> QED BY <1>1, <1>2, <1>3 DEF r

\* What putting a card into a pocket does to the piles.
LEMMA PutPiles ==
  ASSUME NEW t, IsTable(t), IsPiled(t), InPlace(t), NEW c \in Cards(t), NEW place, IsPocket(t, place)
  PROVE  LET a == Put(t, c, place)
             from == PileOf(t.at[c])
             to == PileOf(place)
         IN  /\ DOMAIN a.pile = DOMAIN t.pile
             /\ \A q \in DOMAIN t.pile \ {from, to} : a.pile[q] = t.pile[q]
             /\ from # to => /\ a.pile[from] = RemoveFirst(t.pile[from], c)
                             /\ a.pile[to] = Append(t.pile[to], c)
             /\ from = to => a.pile[to] = Append(RemoveFirst(t.pile[to], c), c)
             /\ from \in DOMAIN t.pile /\ c \in ToSet(t.pile[from])
<1> DEFINE a == Put(t, c, place)
           from == PileOf(t.at[c])
           to == PileOf(place)
<1>1. c \in ToSet(t.pile[from])
  BY DEF InPlace
<1>2. a.pile = [[t.pile EXCEPT ![from] = RemoveFirst(@, c)] EXCEPT ![to] = Append(@, c)]
  <2>1. t = [f \in DOMAIN t |-> t[f]] /\ "pile" \in DOMAIN t
    BY DEF IsTable
  <2> QED BY <2>1 DEF Put
<1>3. from \in DOMAIN t.pile /\ to \in DOMAIN t.pile
  BY DEF IsPiled, IsPocket
<1>4. t.pile = [q \in DOMAIN t.pile |-> t.pile[q]]
  BY DEF IsTable
<1> HIDE DEF a, from, to
<1>5. /\ DOMAIN a.pile = DOMAIN t.pile
      /\ \A q \in DOMAIN t.pile \ {from, to} : a.pile[q] = t.pile[q]
  BY <1>2, <1>4
<1>6. from # to => a.pile[from] = RemoveFirst(t.pile[from], c) /\ a.pile[to] = Append(t.pile[to], c)
  BY <1>2, <1>3, <1>4
<1>7. from = to => a.pile[to] = Append(RemoveFirst(t.pile[to], c), c)
  BY <1>2, <1>3, <1>4
<1> QED BY <1>1, <1>3, <1>5, <1>6, <1>7 DEF a, from, to

\* Where the cards are is not touched when one is shown or hidden.
LEMMA SetVisibilityFrame ==
  ASSUME NEW t, IsTable(t), Informed(t), NEW c \in Cards(t), NEW vis \in Visibility,
         NEW owner \in Clients(t)
  PROVE  LET a == SetVisibility(t, c, vis, owner)
         IN  /\ IsTable(a) /\ Clients(a) = Clients(t) /\ Cards(a) = Cards(t)
             /\ a.pile = t.pile /\ a.at = t.at /\ a.hp = t.hp
<1> DEFINE a == SetVisibility(t, c, vis, owner)
           new == Shown(vis, owner)
<1>1. /\ IsTable(a)
      /\ Clients(a) = Clients(t) /\ Cards(a) = Cards(t)
      /\ new \in Visibility
      /\ \A f \in DOMAIN t \ {"vis", "seen"} : a[f] = t[f]
      /\ DOMAIN a = DOMAIN t
      /\ a.vis = [t.vis EXCEPT ![c] = new]
      /\ \A v \in Clients(t) :
           /\ c \in a.seen[v] <=> (new = "shown" \/ (new = "owner" /\ owner = v))
           /\ \A d \in Cards(t) \ {c} : d \in a.seen[v] <=> d \in t.seen[v]
  BY SetVisibilityFields
<1> HIDE DEF a
<1> QED BY <1>1 DEF IsTable, a


\* card::move_to leaves each card in the one pocket that it names: the pile of the pocket the card
\* was in is found from the card before the move, that of the new one from its arguments, and a
\* card that goes from one player's selection to another's comes back to the same list.
THEOREM MoveKeepsPlaces ==
  ASSUME NEW t, IsTable(t), Informed(t), IsPiled(t), InPlace(t), NEW c \in Cards(t),
         NEW place, IsPocket(t, place), NEW vis \in Visibility
  PROVE  LET a == MoveTo(t, c, place, vis)
         IN  IsPiled(a) /\ InPlace(a) /\ DOMAIN a.pile = DOMAIN t.pile
<1> DEFINE s == SetVisibility(t, c, vis, place[2])
           a == Put(s, c, place)
           from == PileOf(t.at[c])
           to == PileOf(place)
           S == Cards(t)
<1>1. CASE IsIn(t, c, place)
  BY <1>1 DEF MoveTo
<1>2. CASE ~IsIn(t, c, place)
  <2>1. place[2] \in Clients(t) /\ place \in Places(t)
    BY DEF IsPocket, Places
  <2>2. /\ IsTable(s) /\ Clients(s) = Clients(t) /\ Cards(s) = S
        /\ s.pile = t.pile /\ s.at = t.at /\ s.hp = t.hp
    BY <2>1, SetVisibilityFrame
  <2> HIDE DEF s
  <2>4. IsPiled(s) /\ InPlace(s) /\ IsPocket(s, place)
    BY <2>2 DEF IsPiled, InPlace, IsPocket, Places, Players
  <2>5. /\ IsTable(a) /\ Cards(a) = S
        /\ a.at = [t.at EXCEPT ![c] = place]
        /\ Clients(a) = Clients(t)
    BY <2>1, <2>2, <2>4, PutFields DEF IsPocket
  <2>6. /\ DOMAIN a.pile = DOMAIN t.pile
        /\ \A q \in DOMAIN t.pile \ {from, to} : a.pile[q] = t.pile[q]
        /\ from # to => /\ a.pile[from] = RemoveFirst(t.pile[from], c)
                        /\ a.pile[to] = Append(t.pile[to], c)
        /\ from = to => a.pile[to] = Append(RemoveFirst(t.pile[to], c), c)
        /\ from \in DOMAIN t.pile /\ c \in ToSet(t.pile[from])
    BY <2>2, <2>4, PutPiles
  <2>7. to \in DOMAIN t.pile
    BY DEF IsPocket
  <2> HIDE DEF a, from, to
  <2>8. ASSUME NEW q \in DOMAIN t.pile
        PROVE  /\ a.pile[q] \in Seq(S) /\ IsInjective(a.pile[q])
               /\ ToSet(a.pile[q]) = (ToSet(t.pile[q]) \ {c}) \cup (IF q = to THEN {c} ELSE {})
    <3>1. t.pile[q] \in Seq(S) /\ IsInjective(t.pile[q])
      BY DEF IsPiled, InPlace
    <3>2. q # from => c \notin ToSet(t.pile[q])
      BY DEF InPlace, from
    <3> DEFINE r == RemoveFirst(t.pile[q], c)
    <3>3. q = from => /\ r \in Seq(S) /\ IsInjective(r) /\ ToSet(r) = ToSet(t.pile[q]) \ {c}
      BY <2>6, <3>1, TakenOut
    <3> HIDE DEF r
    <3>4. CASE q = from /\ q # to
      BY <2>6, <3>3, <3>4 DEF r
    <3>5. CASE q = from /\ q = to
      <4>1. a.pile[q] = Append(r, c) /\ c \notin ToSet(r)
        BY <2>6, <3>3, <3>5 DEF r
      <4> QED BY <3>3, <3>5, <4>1, LaidOn
    <3>6. CASE q # from /\ q = to
      <4>1. a.pile[q] = Append(t.pile[q], c)
        BY <2>6, <3>6
      <4> QED BY <3>1, <3>2, <3>6, <4>1, LaidOn
    <3>7. CASE q # from /\ q # to
      BY <2>6, <3>1, <3>2, <3>7
    <3> QED BY <3>4, <3>5, <3>6, <3>7
  <2>9. /\ a.at[c] = place
        /\ \A d \in S \ {c} : a.at[d] = t.at[d]
    BY <2>5 DEF IsTable
  <2>10. Players(a) = Players(t)
    <3>1. 0 \notin Players(a) /\ 0 \notin Players(t)
      BY <2>5 DEF IsTable
    <3> QED BY <2>5, <3>1 DEF Clients
  <2>11. IsPiled(a)
    BY <2>5, <2>6, <2>7, <2>8, <2>9, <2>10 DEF IsPiled, to
  <2>12. InPlace(a)
    <3>1. ASSUME NEW d \in S
          PROVE  d \in ToSet(a.pile[PileOf(a.at[d])])
      <4>1. CASE d = c
        BY <2>7, <2>8, <2>9, <4>1 DEF to
      <4>2. CASE d # c
        <5>1. a.at[d] = t.at[d] /\ PileOf(t.at[d]) \in DOMAIN t.pile /\ d \in ToSet(t.pile[PileOf(t.at[d])])
          BY <2>9, <4>2 DEF IsPiled, InPlace
        <5> QED BY <2>8, <4>2, <5>1
      <4> QED BY <4>1, <4>2
    <3>2. ASSUME NEW q \in DOMAIN t.pile, NEW d \in ToSet(a.pile[q])
          PROVE  PileOf(a.at[d]) = q
      <4>1. d \in S
        BY <2>8 DEF ToSet
      <4>2. CASE d = c
        <5>1. q = to
          BY <2>8, <4>2
        <5> QED BY <2>9, <4>2, <5>1 DEF to
      <4>3. CASE d # c
        <5>1. d \in ToSet(t.pile[q]) /\ a.at[d] = t.at[d]
          BY <2>8, <2>9, <4>1, <4>3
        <5> QED BY <5>1 DEF InPlace
      <4> QED BY <4>2, <4>3
    <3> QED BY <2>5, <2>6, <2>8, <3>1, <3>2 DEF InPlace
  <2>13. MoveTo(t, c, place, vis) = a
    BY <1>2 DEF MoveTo, a, s
  <2> QED BY <2>6, <2>11, <2>12, <2>13
<1> QED BY <1>1, <1>2
-----------------------------------------------------------------------------

(***************************************************************************)
(* What a client knows, and what it would be sent if it came back.         *)
(***************************************************************************)

\* The pockets whose cards their owner alone may see.
Private(place) == place[2] # 0 /\ place[1] \in {"hand", "selection"}

\* A card that only its owner sees is in a hand or was dealt to a selection; no such card is face
\* down to its owner, and its owner is in the game.
Fits(t) ==
  \A c \in Cards(t) :
    /\ t.vis[c] = "owner" => Private(t.at[c])
    /\ Private(t.at[c]) => t.vis[c] # "hidden" /\ ~Removed(t, c)

\* What a caller of card::move_to has to ask for so that it stays so.
MayPut(t, place, vis) ==
  /\ vis = "owner" /\ place[2] # 0 => Private(place)
  /\ Private(place) => vis # "hidden" /\ "removed" \notin t.flags[place[2]]

\* The fields that moving a card changes.
LEMMA MoveFrame ==
  ASSUME NEW t, IsTable(t), NEW c \in Cards(t), NEW place \in Places(t), NEW vis \in Visibility
  PROVE  LET a == MoveTo(t, c, place, vis)
         IN  /\ DOMAIN a = DOMAIN t
             /\ \A f \in DOMAIN t \ {"vis", "seen", "pile", "at"} : a[f] = t[f]
             /\ ~IsIn(t, c, place) => a.vis = [t.vis EXCEPT ![c] = Shown(vis, place[2])]
<1> DEFINE new == Shown(vis, place[2])
           told == Told(t, t.vis[c], Owner(t, c), new, place[2])
           untold == Untold(t, t.vis[c], Owner(t, c), new, place[2])
           s == SetVisibility(t, c, vis, place[2])
           a == Put(s, c, place)
<1>1. CASE IsIn(t, c, place)
  BY <1>1 DEF MoveTo
<1>2. CASE ~IsIn(t, c, place)
  <2>1. new \in Visibility
    BY DEF Shown, Visibility
  <2>2. s = Tell(t, c, new, told, untold)
    BY DEF SetVisibility
  <2> HIDE DEF s, new, told, untold
  <2>3. /\ s = [f \in DOMAIN t |-> s[f]]
        /\ \A f \in DOMAIN t \ {"vis", "seen"} : s[f] = t[f]
        /\ s.vis = [t.vis EXCEPT ![c] = new]
        /\ s.seen = [v \in Clients(t) |-> CASE v \in told -> t.seen[v] \cup {c}
                                             [] v \in untold -> t.seen[v] \ {c}
                                             [] OTHER -> t.seen[v]]
    BY <2>1, <2>2, TellFields
  <2>7. DOMAIN s = DOMAIN t
    BY <2>3
  <2>4. /\ DOMAIN a = DOMAIN s
        /\ \A f \in DOMAIN s \ {"pile", "at"} : a[f] = s[f]
    BY <2>3 DEF Put
  <2> HIDE DEF a
  <2>5. a.vis = s.vis
    BY <2>3, <2>4 DEF IsTable
  <2>6. MoveTo(t, c, place, vis) = a
    BY <1>2 DEF MoveTo, a, s
  <2> QED BY <2>3, <2>4, <2>5, <2>6, <2>7 DEF new
<1> QED BY <1>1, <1>2

\* A card that comes into a hand or is dealt to somebody's selection is not face down there, and one
\* that leaves is not left for its last owner alone to see.
LEMMA MoveKeepsFits ==
  ASSUME NEW t, IsTable(t), Informed(t), Fits(t), NEW c \in Cards(t), NEW place \in Places(t),
         NEW vis \in Visibility, MayPut(t, place, vis)
  PROVE  Fits(MoveTo(t, c, place, vis))
<1> DEFINE a == MoveTo(t, c, place, vis)
<1>1. CASE IsIn(t, c, place)
  BY <1>1 DEF MoveTo
<1>2. CASE ~IsIn(t, c, place)
  <2>1. /\ Cards(a) = Cards(t) /\ a.at = [t.at EXCEPT ![c] = place]
    BY MoveInforms
  <2>2. /\ \A f \in DOMAIN t \ {"vis", "seen", "pile", "at"} : a[f] = t[f]
        /\ a.vis = [t.vis EXCEPT ![c] = Shown(vis, place[2])]
    BY <1>2, MoveFrame
  <2> HIDE DEF a
  <2>3. a.flags = t.flags
    BY <2>2 DEF IsTable
  <2>4. ASSUME NEW d \in Cards(t), d # c
        PROVE  /\ a.at[d] = t.at[d] /\ a.vis[d] = t.vis[d]
               /\ Removed(a, d) = Removed(t, d)
    BY <2>1, <2>2, <2>3, <2>4 DEF IsTable, Removed, Owner
  <2>5. a.at[c] = place /\ a.vis[c] = Shown(vis, place[2])
    BY <2>1, <2>2 DEF IsTable
  <2>6. /\ a.vis[c] = "owner" => Private(place)
        /\ Private(place) => a.vis[c] # "hidden"
    BY <2>5 DEF Shown, MayPut
  <2>7. Private(place) => ~Removed(a, c)
    BY <2>3, <2>5 DEF MayPut, Removed, Owner
  <2>8. \A d \in Cards(t) : /\ a.vis[d] = "owner" => Private(a.at[d])
                            /\ Private(a.at[d]) => a.vis[d] # "hidden" /\ ~Removed(a, d)
    BY <2>4, <2>5, <2>6, <2>7 DEF Fits
  <2> QED BY <2>1, <2>8 DEF Fits, a
<1> QED BY <1>1, <1>2

\* get_spectator_join_updates and get_rejoin_updates make, of the pockets and the visibility of the
\* cards alone, what the stream of show_card and hide_card has told the client since the game began:
\* a client that comes back knows what it would know had it stayed, and a spectator no more.
THEOREM SnapshotsAgree ==
  ASSUME NEW t, IsTable(t), Informed(t), IsPiled(t), InPlace(t), Fits(t),
         Selection \in DOMAIN t.pile, NEW v \in Clients(t)
  PROVE  {c \in t.seen[v] : InJoinUpdates(t, c)} = Snapshot(t, v)
<1> DEFINE known == {c \in t.seen[v] : InJoinUpdates(t, c)}
<1>1. t.seen[v] \subseteq Cards(t)
  BY DEF IsTable
<1>2. \A c \in Cards(t) : t.at[c] = <<Pocket(t, c), Owner(t, c)>>
  BY DEF IsTable, Places, Pocket, Owner
<1>3. v # 0 => HandOf(v) \in DOMAIN t.pile
  BY DEF IsPiled, Clients
<1>4. ASSUME NEW c \in known
      PROVE  c \in Snapshot(t, v)
  <2>1. c \in Cards(t) /\ c \in t.seen[v] /\ InJoinUpdates(t, c)
    BY <1>1
  <2>2. MaySee(t, v, c)
    BY <2>1 DEF Informed
  <2>3. CASE t.vis[c] = "shown"
    BY <2>1, <2>3 DEF Snapshot, JoinUpdates
  <2>4. CASE t.vis[c] # "shown"
    <3>1. t.vis[c] = "owner" /\ Owner(t, c) = v /\ v # 0 /\ Private(t.at[c])
      BY <2>1, <2>2, <2>4 DEF MaySee, Informed, Fits
    <3>2. c \in ToSet(t.pile[PileOf(t.at[c])])
      BY <2>1 DEF InPlace
    <3>3. CASE Pocket(t, c) = "hand"
      <4>1. t.at[c] = HandOf(v) /\ PileOf(t.at[c]) = HandOf(v)
        BY <1>2, <2>1, <3>1, <3>3 DEF HandOf, PileOf
      <4> QED BY <3>1, <3>2, <4>1 DEF Snapshot, RejoinUpdates, Hand
    <3>4. CASE Pocket(t, c) = "selection"
      <4>1. PileOf(t.at[c]) = Selection
        BY <3>4 DEF PileOf, Pocket
      <4> QED BY <3>1, <3>2, <4>1 DEF Snapshot, RejoinUpdates, Selected
    <3> QED BY <3>1, <3>3, <3>4 DEF Private, Pocket
  <2> QED BY <2>3, <2>4
<1>5. ASSUME NEW c \in Snapshot(t, v)
      PROVE  c \in known
  <2>1. CASE c \in JoinUpdates(t)
    BY <2>1 DEF JoinUpdates, Informed, MaySee
  <2>2. CASE v # 0 /\ c \in RejoinUpdates(t, v)
    <3>1. c \in Cards(t) /\ Owner(t, c) = v /\ Pocket(t, c) \in {"hand", "selection"}
      <4>1. CASE c \in ToSet(Hand(t, v))
        <5>1. t.pile[HandOf(v)] \in Seq(Cards(t)) /\ PileOf(t.at[c]) = HandOf(v)
          BY <1>3, <2>2, <4>1 DEF IsPiled, InPlace, Hand
        <5>2. c \in Cards(t)
          BY <4>1, <5>1 DEF Hand, ToSet
        <5>3. t.at[c] = HandOf(v)
          BY <5>1 DEF PileOf, HandOf, Selection
        <5> QED BY <5>2, <5>3 DEF Owner, Pocket, HandOf
      <4>2. CASE c \in ToSet(Selected(t)) /\ Owner(t, c) = v
        <5>1. t.pile[Selection] \in Seq(Cards(t)) /\ PileOf(t.at[c]) = Selection
          BY <4>2 DEF IsPiled, InPlace, Selected
        <5>2. c \in Cards(t)
          BY <4>2, <5>1 DEF Selected, ToSet
        <5>3. Pocket(t, c) = "selection"
          BY <5>1 DEF PileOf, Pocket, Selection
        <5> QED BY <4>2, <5>2, <5>3
      <4> QED BY <2>2, <4>1, <4>2 DEF RejoinUpdates
    <3>2. Private(t.at[c])
      BY <2>2, <3>1 DEF Private, Owner, Pocket
    <3>3. t.vis[c] # "hidden" /\ ~Removed(t, c)
      BY <3>1, <3>2 DEF Fits
    <3>4. MaySee(t, v, c)
      BY <3>1, <3>3 DEF MaySee, IsTable, Visibility
    <3> QED BY <3>1, <3>3, <3>4 DEF Informed, InJoinUpdates
  <2> QED BY <2>1, <2>2 DEF Snapshot
<1> QED BY <1>4, <1>5

\* All that is asked of the table between two calls.
Sound(t) ==
  IsTable(t) /\ Informed(t) /\ IsPiled(t) /\ InPlace(t) /\ Fits(t) /\ Selection \in DOMAIN t.pile

\* One call of card::move_to keeps all of it.
LEMMA MoveSound ==
  ASSUME NEW t, Sound(t), NEW c \in Cards(t), NEW place, IsPocket(t, place), NEW vis \in Visibility,
         MayPut(t, place, vis)
  PROVE  LET a == MoveTo(t, c, place, vis)
         IN  /\ Sound(a)
             /\ Cards(a) = Cards(t) /\ Clients(a) = Clients(t)
             /\ DOMAIN a = DOMAIN t
             /\ \A f \in DOMAIN t \ {"vis", "seen", "pile", "at"} : a[f] = t[f]
             /\ DOMAIN a.pile = DOMAIN t.pile
<1> DEFINE a == MoveTo(t, c, place, vis)
<1>1. place \in Places(t) /\ IsTable(t) /\ Informed(t) /\ IsPiled(t) /\ InPlace(t) /\ Fits(t)
  BY DEF IsPocket, Sound
<1>2. IsTable(a) /\ Informed(a) /\ Cards(a) = Cards(t) /\ Clients(a) = Clients(t)
  BY <1>1, MoveInforms
<1>3. IsPiled(a) /\ InPlace(a)
  BY <1>1, MoveKeepsPlaces
<1>4. Fits(a)
  BY <1>1, MoveKeepsFits
<1>5. /\ DOMAIN a = DOMAIN t
      /\ \A f \in DOMAIN t \ {"vis", "seen", "pile", "at"} : a[f] = t[f]
      /\ ~IsIn(t, c, place) => a.vis = [t.vis EXCEPT ![c] = Shown(vis, place[2])]
  BY <1>1, MoveFrame
<1>6. DOMAIN a.pile = DOMAIN t.pile
  BY <1>1, MoveKeepsPlaces
<1> QED BY <1>1, <1>2, <1>3, <1>4, <1>5, <1>6 DEF Sound

\* A pile of the table that is no hand and nobody's part of the selection.
IsHeap(t, place) ==
  place \in Places(t) /\ place[2] = 0 /\ place[1] # "selection" /\ place \in DOMAIN t.pile

\* Turning the discards of a deck over when the deck is empty: no card is lost or comes twice, and
\* each is where it says it is.
THEOREM ReshuffleSound ==
  ASSUME NEW t, Sound(t), NEW deck, IsHeap(t, deck), NEW discards, IsHeap(t, discards),
         deck # discards, t.pile[deck] = <<>>
  PROVE  LET a == Reshuffle(t, deck, discards)
         IN  /\ Sound(a)
             /\ Cards(a) = Cards(t) /\ Clients(a) = Clients(t)
             /\ a.pile[deck] = t.pile[discards]
             /\ DOMAIN a.pile = DOMAIN t.pile
             /\ \A q \in DOMAIN t.pile \ {deck, discards} : a.pile[q] = t.pile[q]
             /\ a.flags = t.flags /\ a.gflags = t.gflags /\ a.lost = t.lost
<1> DEFINE a == Reshuffle(t, deck, discards)
           cards == ToSet(t.pile[discards])
<1>1. IsTable(t) /\ Informed(t) /\ IsPiled(t) /\ InPlace(t) /\ Fits(t)
  BY DEF Sound
<1>2. IsTable(a) /\ Informed(a)
  BY <1>1, ReshuffleInforms DEF IsHeap
<1>3. /\ a.hp = t.hp /\ a.on = t.on /\ a.flags = t.flags /\ a.gflags = t.gflags /\ a.lost = t.lost
      /\ a.vis = [c \in Cards(t) |-> IF c \in cards THEN "hidden" ELSE t.vis[c]]
      /\ a.at = [c \in Cards(t) |-> IF c \in cards THEN deck ELSE t.at[c]]
      /\ a.pile = [[t.pile EXCEPT ![deck] = t.pile[discards]] EXCEPT ![discards] = <<>>]
  BY <1>1 DEF Reshuffle, IsTable, Clients, Cards
<1> HIDE DEF a, cards
<1>4. Clients(a) = Clients(t) /\ Cards(a) = Cards(t) /\ Players(a) = Players(t)
  BY <1>3 DEF Clients, Cards, Players
<1>5. /\ a.pile[deck] = t.pile[discards] /\ a.pile[discards] = <<>>
      /\ DOMAIN a.pile = DOMAIN t.pile
      /\ \A q \in DOMAIN t.pile \ {deck, discards} : a.pile[q] = t.pile[q]
  BY <1>1, <1>3 DEF IsTable, IsHeap
<1>6. PileOf(deck) = deck /\ PileOf(discards) = discards
  BY DEF IsHeap, PileOf
<1>7. ASSUME NEW c \in Cards(t)
      PROVE  IF c \in cards
             THEN a.at[c] = deck /\ a.vis[c] = "hidden"
             ELSE /\ a.at[c] = t.at[c] /\ a.vis[c] = t.vis[c]
                  /\ PileOf(t.at[c]) \in DOMAIN t.pile \ {deck, discards}
  <2>1. c \in ToSet(t.pile[PileOf(t.at[c])]) /\ PileOf(t.at[c]) \in DOMAIN t.pile
    BY <1>1 DEF IsPiled, InPlace
  <2>2. ToSet(t.pile[deck]) = {}
    BY DEF ToSet
  <2> QED BY <1>3, <2>1, <2>2 DEF cards
<1>8. ASSUME NEW q \in DOMAIN a.pile
      PROVE  a.pile[q] \in Seq(Cards(t)) /\ IsInjective(a.pile[q])
  <2>1. <<>> \in Seq(Cards(t)) /\ IsInjective(<<>>)
    BY DEF IsInjective
  <2>2. \A r \in DOMAIN t.pile : t.pile[r] \in Seq(Cards(t)) /\ IsInjective(t.pile[r])
    BY <1>1 DEF IsPiled, InPlace
  <2> QED BY <1>5, <2>1, <2>2 DEF IsHeap
<1>9. IsPiled(a)
  BY <1>1, <1>4, <1>5, <1>6, <1>7, <1>8 DEF IsPiled, IsHeap
<1>10. InPlace(a)
  <2>1. ASSUME NEW c \in Cards(t)
        PROVE  c \in ToSet(a.pile[PileOf(a.at[c])])
    <3>1. CASE c \in cards
      BY <1>5, <1>6, <1>7, <3>1 DEF cards
    <3>2. CASE c \notin cards
      <4>1. c \in ToSet(t.pile[PileOf(t.at[c])])
        BY <1>1 DEF InPlace
      <4> QED BY <1>5, <1>7, <3>2, <4>1
    <3> QED BY <3>1, <3>2
  <2>2. ASSUME NEW q \in DOMAIN a.pile, NEW c \in ToSet(a.pile[q])
        PROVE  PileOf(a.at[c]) = q
    <3>1. c \in Cards(t)
      BY <1>8 DEF ToSet
    <3>2. CASE q = deck
      <4>1. c \in cards
        BY <1>5, <3>2 DEF cards
      <4> QED BY <1>6, <1>7, <3>1, <3>2, <4>1
    <3>3. CASE q = discards
      BY <1>5, <3>3 DEF ToSet
    <3>4. CASE q \notin {deck, discards}
      <4>1. c \in ToSet(t.pile[q]) /\ PileOf(t.at[c]) = q
        BY <1>1, <1>5, <3>4 DEF InPlace
      <4>2. c \notin cards
        <5>1. discards \in DOMAIN t.pile
          BY DEF IsHeap
        <5> QED BY <1>1, <3>4, <4>1, <5>1 DEF InPlace, cards
      <4> QED BY <1>7, <3>1, <4>1, <4>2
    <3> QED BY <3>2, <3>3, <3>4
  <2> QED BY <1>4, <1>8, <2>1, <2>2 DEF InPlace
<1>11. Fits(a)
  <2>1. ~Private(deck)
    BY DEF Private, IsHeap
  <2>2. \A c \in Cards(t) : c \notin cards => Removed(a, c) = Removed(t, c)
    BY <1>3, <1>7 DEF Removed, Owner
  <2> QED BY <1>1, <1>4, <1>7, <2>1, <2>2 DEF Fits
<1> QED BY <1>2, <1>3, <1>4, <1>5, <1>9, <1>10, <1>11 DEF Sound, a
-----------------------------------------------------------------------------

(***************************************************************************)
(* Drawing any number of cards.                                            *)
(***************************************************************************)

\* A set of natural numbers that is not empty has a least element; one that holds 0 and, with each
\* number, the next, holds them all.
LEMMA Least ==
  ASSUME NEW T, T \subseteq Nat, T # {}
  PROVE  \E m \in T : \A k \in T : m <= k
<1> DEFINE R == {ss \in Nat \X Nat : ss[1] < ss[2]}
<1>1. IsWellFoundedOn(R, Nat)
  BY NatLessThanWellFounded DEF OpToRel
<1>2. PICK x \in T : \A y \in T : <<y, x>> \notin R
  <2> HIDE DEF R
  <2> QED BY <1>1, WFMin
<1>3. \A y \in T : <<y, x>> \in Nat \X Nat
  OBVIOUS
<1>4. \A y \in T : ~(y < x)
  BY <1>2, <1>3
<1> QED BY <1>4

LEMMA Counting ==
  ASSUME NEW T, 0 \in T, \A n \in T : n + 1 \in T, NEW n \in Nat
  PROVE  n \in T
<1> DEFINE U == {k \in Nat : k \notin T}
<1>1. SUFFICES ASSUME n \notin T PROVE FALSE
  OBVIOUS
<1>2. PICK m \in U : \A k \in U : m <= k
  BY <1>1, Least
<1>3. m # 0 /\ m - 1 \in Nat /\ m - 1 \notin U
  BY <1>2
<1> QED BY <1>2, <1>3

\* The largest of some of the first n numbers.
LEMMA Largest ==
  ASSUME NEW n \in Nat, NEW S \in SUBSET (1 .. n), S # {}
  PROVE  Max(S) \in S /\ \A k \in S : Max(S) >= k
<1> DEFINE T == {m \in Nat : n - m \in S}
<1>1. T # {}
  <2>1. PICK k \in S : TRUE
    OBVIOUS
  <2>2. n - k \in Nat /\ n - (n - k) = k
    OBVIOUS
  <2> QED BY <2>2
<1>2. PICK m \in T : \A k \in T : m <= k
  BY <1>1, Least
<1>3. \A k \in S : n - m >= k
  <2> TAKE k \in S
  <2>1. n - k \in Nat /\ n - (n - k) = k
    OBVIOUS
  <2> QED BY <1>2, <2>1
<1> QED BY <1>2, <1>3 DEF Max

\* player::draw_card, with what the deck does first when it is empty.
Drawn(t, p) == DrawOne(TopOfDeck(t), p)

\* Drawing n cards is drawing one after the other.
LEMMA DrawsOneByOne ==
  ASSUME NEW t, NEW p, NEW n \in Nat
  PROVE  \E g : /\ g[0] = t
                /\ \A k \in 0 .. n - 1 : g[k + 1] = Drawn(g[k], p)
                /\ DrawTo(t, p, n) = g[n]
<1> DEFINE Is(f, k) == f = [s \in SUBSET (1 .. k) |->
                             IF s = {} THEN t ELSE Drawn(f[s \ {Max(s)}], p)]
           f == CHOOSE h : Is(h, n)
           T == {k \in Nat : \E h : Is(h, k)}
<1>1. 0 \in T
  <2> DEFINE h == [s \in SUBSET (1 .. 0) |-> t]
  <2>1. SUBSET (1 .. 0) = {{}}
    OBVIOUS
  <2>2. Is(h, 0)
    BY <2>1
  <2> QED BY <2>2
<1>2. ASSUME NEW k \in T
      PROVE  k + 1 \in T
  <2>1. PICK h : Is(h, k)
    OBVIOUS
  <2>2. k \in Nat /\ k + 1 \in Nat
    OBVIOUS
  <2> DEFINE g == [s \in SUBSET (1 .. k + 1) |->
                    IF k + 1 \in s THEN Drawn(h[s \ {k + 1}], p) ELSE h[s]]
  <2>3. ASSUME NEW s \in SUBSET (1 .. k + 1)
        PROVE  g[s] = IF s = {} THEN t ELSE Drawn(g[s \ {Max(s)}], p)
    <3>1. s # {} => Max(s) \in s /\ \A i \in s : Max(s) >= i
      BY <2>2, Largest
    <3>2. CASE k + 1 \in s
      <4>1. Max(s) \in 1 .. k + 1 /\ Max(s) >= k + 1
        BY <3>1, <3>2
      <4>2. Max(s) = k + 1
        BY <2>2, <4>1
      <4>3. s \ {k + 1} \in SUBSET (1 .. k) /\ s \ {k + 1} \in SUBSET (1 .. k + 1)
        BY <2>2
      <4>4. g[s] = Drawn(h[s \ {k + 1}], p) /\ g[s \ {k + 1}] = h[s \ {k + 1}]
        BY <3>2, <4>3
      <4> QED BY <3>2, <4>2, <4>4
    <3>3. CASE k + 1 \notin s
      <4>1. s \in SUBSET (1 .. k)
        BY <2>2, <3>3
      <4>2. ASSUME s # {}
            PROVE  /\ s \ {Max(s)} \in SUBSET (1 .. k + 1)
                   /\ k + 1 \notin s \ {Max(s)}
        BY <3>3
      <4>3. h[s] = IF s = {} THEN t ELSE Drawn(h[s \ {Max(s)}], p)
        BY <2>1, <4>1
      <4>4. g[s] = h[s] /\ (s # {} => g[s \ {Max(s)}] = h[s \ {Max(s)}])
        BY <3>3, <4>2
      <4> QED BY <4>3, <4>4
    <3> QED BY <3>2, <3>3
  <2>4. Is(g, k + 1)
    BY <2>3
  <2> QED BY <2>2, <2>4
<1>3. n \in T
  <2> HIDE DEF T
  <2> QED BY <1>1, <1>2, Counting
<1>4. Is(f, n)
  BY <1>3
<1>5. DrawTo(t, p, n) = f[1 .. n]
  BY DEF DrawTo, Repeat, FoldLeft, MapThenFoldSet, Drawn
<1> HIDE DEF f
<1>6. \A s \in SUBSET (1 .. n) : f[s] = IF s = {} THEN t ELSE Drawn(f[s \ {Max(s)}], p)
  BY <1>4
<1> DEFINE g == [k \in 0 .. n |-> f[1 .. k]]
<1>7. g[0] = t
  <2>1. 1 .. 0 = {} /\ {} \in SUBSET (1 .. n) /\ 0 \in 0 .. n
    OBVIOUS
  <2> QED BY <1>6, <2>1
<1>8. ASSUME NEW k \in 0 .. n - 1
      PROVE  g[k + 1] = Drawn(g[k], p)
  <2>1. 1 .. k + 1 \in SUBSET (1 .. n) /\ 1 .. k + 1 # {} /\ k + 1 \in 1 .. k + 1
    OBVIOUS
  <2>2. Max(1 .. k + 1) \in 1 .. k + 1 /\ \A i \in 1 .. k + 1 : Max(1 .. k + 1) >= i
    BY <2>1, Largest
  <2>3. Max(1 .. k + 1) = k + 1
    BY <2>1, <2>2
  <2>4. (1 .. k + 1) \ {k + 1} = 1 .. k
    OBVIOUS
  <2>5. f[1 .. k + 1] = Drawn(f[1 .. k], p)
    BY <1>6, <2>1, <2>3, <2>4
  <2>6. k \in 0 .. n /\ k + 1 \in 0 .. n
    OBVIOUS
  <2> QED BY <2>5, <2>6
<1>9. DrawTo(t, p, n) = g[n]
  BY <1>5
<1> HIDE DEF g
<1> QED BY <1>7, <1>8, <1>9

\* What moving a card does to the pile of the pocket it comes to, and to those it has no part in.
LEMMA MovePiles ==
  ASSUME NEW t, Sound(t), NEW c \in Cards(t), NEW place, IsPocket(t, place), NEW vis \in Visibility,
         PileOf(t.at[c]) # PileOf(place)
  PROVE  LET a == MoveTo(t, c, place, vis)
         IN  /\ a.pile[PileOf(place)] = Append(t.pile[PileOf(place)], c)
             /\ \A q \in DOMAIN t.pile \ {PileOf(t.at[c]), PileOf(place)} : a.pile[q] = t.pile[q]
<1> DEFINE s == SetVisibility(t, c, vis, place[2])
           a == Put(s, c, place)
<1>1. /\ IsTable(t) /\ Informed(t) /\ IsPiled(t) /\ InPlace(t)
      /\ place \in Places(t) /\ place[2] \in Clients(t)
  BY DEF Sound, IsPocket, Places
<1>2. /\ IsTable(s) /\ Clients(s) = Clients(t) /\ Cards(s) = Cards(t)
      /\ s.pile = t.pile /\ s.at = t.at /\ s.hp = t.hp
  BY <1>1, SetVisibilityFrame
<1>3. ~IsIn(t, c, place)
  BY DEF IsIn
<1>4. MoveTo(t, c, place, vis) = a
  BY <1>3 DEF MoveTo
<1> HIDE DEF s
<1>5. IsPiled(s) /\ InPlace(s) /\ IsPocket(s, place)
  BY <1>1, <1>2 DEF IsPiled, InPlace, IsPocket, Places, Players
<1> HIDE DEF a
<1>6. /\ \A q \in DOMAIN s.pile \ {PileOf(s.at[c]), PileOf(place)} : a.pile[q] = s.pile[q]
      /\ a.pile[PileOf(place)] = Append(s.pile[PileOf(place)], c)
  BY <1>2, <1>5, PutPiles DEF a
<1> QED BY <1>2, <1>4, <1>6

\* Player p may draw: it is in the game, and the deck and its discards are two piles of the table.
MayDraw(t, p) ==
  Sound(t) /\ p \in Players(t) /\ "removed" \notin t.flags[p] /\ IsHeap(t, Main) /\ IsHeap(t, Discards)

\* What one draw, and any number of them, leaves alone.
Others(t, a, p) ==
  /\ Cards(a) = Cards(t) /\ Clients(a) = Clients(t)
  /\ a.flags = t.flags /\ a.gflags = t.gflags
  /\ \A q \in Players(t) \ {p} : Hand(a, q) = Hand(t, q)

\* A deck that has run dry is noted and nothing else.
LEMMA DrySound ==
  ASSUME NEW t, Sound(t)
  PROVE  LET a == Dry(t)
         IN  /\ Sound(a) /\ Stopped(a)
             /\ \A f \in DOMAIN t \ {"lost"} : a[f] = t[f]
<1> DEFINE a == Dry(t)
<1>1. IsTable(t) /\ Informed(t) /\ IsPiled(t) /\ InPlace(t) /\ Fits(t)
  BY DEF Sound
<1>2. /\ a = [f \in DOMAIN t |-> a[f]] /\ DOMAIN a = DOMAIN t
      /\ \A f \in DOMAIN t \ {"lost"} : a[f] = t[f]
      /\ a.lost = "dry"
  BY <1>1 DEF Dry, IsTable
<1> HIDE DEF a
<1>3. /\ a.pile = t.pile /\ a.vis = t.vis /\ a.seen = t.seen /\ a.at = t.at /\ a.hp = t.hp
      /\ a.on = t.on /\ a.flags = t.flags
  BY <1>1, <1>2 DEF IsTable
<1>4. /\ Players(a) = Players(t) /\ Clients(a) = Clients(t) /\ Cards(a) = Cards(t)
      /\ Places(a) = Places(t)
  BY <1>3 DEF Players, Clients, Cards, Places
<1>5. IsTable(a)
  BY <1>1, <1>2, <1>3, <1>4 DEF IsTable
<1>6. Informed(a)
  BY <1>1, <1>3, <1>4 DEF Informed, MaySee, Owner
<1>7. IsPiled(a)
  BY <1>1, <1>3, <1>4 DEF IsPiled
<1>8. InPlace(a)
  BY <1>1, <1>3, <1>4 DEF InPlace
<1>9. Fits(a)
  BY <1>1, <1>3, <1>4 DEF Fits, Removed, Owner
<1> QED BY <1>2, <1>3, <1>5, <1>6, <1>7, <1>8, <1>9 DEF Sound, Stopped, a

\* Before a card is drawn the deck has one, or the game is told that it is dry.
LEMMA DeckReady ==
  ASSUME NEW t, NEW p, MayDraw(t, p)
  PROVE  LET a == TopOfDeck(t)
         IN  /\ MayDraw(a, p) /\ Others(t, a, p) /\ Hand(a, p) = Hand(t, p)
             /\ Stopped(a) \/ a.pile[Main] # <<>>
             /\ Stopped(t) => Stopped(a)
<1> DEFINE a == TopOfDeck(t)
<1>0. IsTable(t)
  BY DEF MayDraw, Sound
<1>1. CASE t.pile[Main] # <<>>
  BY <1>1 DEF TopOfDeck, Others
<1>2. CASE t.pile[Main] = <<>> /\ t.pile[Discards] = <<>>
  <2>1. a = Dry(t)
    BY <1>2 DEF TopOfDeck
  <2> HIDE DEF a
  <2>2. Sound(a) /\ Stopped(a) /\ \A f \in DOMAIN t \ {"lost"} : a[f] = t[f]
    BY <2>1, DrySound DEF MayDraw
  <2>3. /\ a.pile = t.pile /\ a.hp = t.hp /\ a.on = t.on /\ a.flags = t.flags /\ a.gflags = t.gflags
    BY <1>0, <2>2 DEF IsTable
  <2>4. /\ Players(a) = Players(t) /\ Clients(a) = Clients(t) /\ Cards(a) = Cards(t)
        /\ Places(a) = Places(t)
    BY <2>3 DEF Players, Clients, Cards, Places
  <2>5. MayDraw(a, p)
    BY <2>2, <2>3, <2>4 DEF MayDraw, IsHeap
  <2>6. Others(t, a, p) /\ Hand(a, p) = Hand(t, p)
    BY <2>3, <2>4 DEF Others, Hand
  <2> QED BY <2>2, <2>5, <2>6 DEF a
<1>3. CASE t.pile[Main] = <<>> /\ t.pile[Discards] # <<>>
  <2>1. a = Reshuffle(t, Main, Discards)
    BY <1>3 DEF TopOfDeck
  <2>2. Main # Discards
    BY DEF Main, Discards
  <2> HIDE DEF a
  <2>3. /\ Sound(a)
        /\ Cards(a) = Cards(t) /\ Clients(a) = Clients(t)
        /\ a.pile[Main] = t.pile[Discards]
        /\ DOMAIN a.pile = DOMAIN t.pile
        /\ \A q \in DOMAIN t.pile \ {Main, Discards} : a.pile[q] = t.pile[q]
        /\ a.flags = t.flags /\ a.gflags = t.gflags /\ a.lost = t.lost
    BY <1>3, <2>1, <2>2, ReshuffleSound DEF MayDraw
  <2>4. Players(a) = Players(t)
    <3>1. 0 \notin Players(a) /\ 0 \notin Players(t)
      BY <1>0, <2>3 DEF Sound, IsTable
    <3> QED BY <2>3, <3>1 DEF Clients
  <2>5. MayDraw(a, p)
    BY <2>3, <2>4 DEF MayDraw, IsHeap, Places
  <2>6. ASSUME NEW q \in Players(t)
        PROVE  Hand(a, q) = Hand(t, q)
    <3>1. HandOf(q) \in DOMAIN t.pile
      BY DEF MayDraw, Sound, IsPiled
    <3>2. HandOf(q) \notin {Main, Discards}
      BY DEF HandOf, Main, Discards
    <3> QED BY <2>3, <3>1, <3>2 DEF Hand
  <2>7. Others(t, a, p) /\ Hand(a, p) = Hand(t, p)
    BY <2>3, <2>6 DEF Others, MayDraw
  <2> QED BY <1>3, <2>3, <2>5, <2>7 DEF Stopped, a
<1> QED BY <1>1, <1>2, <1>3

\* One draw gives the player one card and leaves every other hand as it was.
LEMMA DrawSound ==
  ASSUME NEW t, NEW p, MayDraw(t, p)
  PROVE  LET a == Drawn(t, p)
         IN  /\ MayDraw(a, p) /\ Others(t, a, p)
             /\ Stopped(a) \/ Len(Hand(a, p)) = Len(Hand(t, p)) + 1
             /\ Stopped(t) => Stopped(a)
<1> DEFINE s == TopOfDeck(t)
           c == DeckTop(s)
           vis == IF HandsShown(s) THEN "shown" ELSE "owner"
           place == HandOf(p)
           a == MoveTo(s, c, place, vis)
<1>1. /\ MayDraw(s, p) /\ Others(t, s, p) /\ Hand(s, p) = Hand(t, p)
      /\ Stopped(s) \/ s.pile[Main] # <<>>
      /\ Stopped(t) => Stopped(s)
  BY DeckReady
<1> HIDE DEF s
<1>2. CASE Stopped(s)
  BY <1>1, <1>2 DEF Drawn, DrawOne, s
<1>3. CASE ~Stopped(s)
  <2>1. Sound(s) /\ IsTable(s) /\ IsPiled(s) /\ InPlace(s)
    BY <1>1 DEF MayDraw, Sound
  <2>2. s.pile[Main] \in Seq(Cards(s)) /\ s.pile[Main] # <<>> /\ Main \in DOMAIN s.pile
    BY <1>1, <1>3, <2>1 DEF IsPiled
  <2>3. c \in Cards(s) /\ c \in ToSet(s.pile[Main])
    BY <2>2 DEF DeckTop, Last, ToSet
  <2>4. PileOf(s.at[c]) = Main
    BY <2>1, <2>2, <2>3 DEF InPlace
  <2>5. PileOf(place) = place /\ place # Main /\ place # Discards /\ place[2] = p
    BY DEF PileOf, HandOf, Main, Discards
  <2>6. vis \in Visibility /\ IsPocket(s, place) /\ p \in Players(s)
    <3>1. p \in Players(s) /\ place \in DOMAIN s.pile
      BY <1>1, <2>1 DEF MayDraw, IsPiled
    <3>2. place \in Places(s)
      BY <3>1 DEF HandOf, Places, PocketNames, Clients
    <3> QED BY <2>5, <3>1, <3>2 DEF IsPocket, Visibility
  <2>7. MayPut(s, place, vis)
    BY <1>1, <2>1, <2>5, <2>6 DEF MayPut, Private, MayDraw, IsTable, HandOf
  <2> HIDE DEF c, vis, place
  <2>8. /\ Sound(a)
        /\ Cards(a) = Cards(s) /\ Clients(a) = Clients(s)
        /\ DOMAIN a = DOMAIN s
        /\ \A f \in DOMAIN s \ {"vis", "seen", "pile", "at"} : a[f] = s[f]
        /\ DOMAIN a.pile = DOMAIN s.pile
    BY <2>1, <2>3, <2>6, <2>7, MoveSound
  <2>9. /\ a.pile[PileOf(place)] = Append(s.pile[PileOf(place)], c)
        /\ \A q \in DOMAIN s.pile \ {PileOf(s.at[c]), PileOf(place)} : a.pile[q] = s.pile[q]
    BY <2>1, <2>3, <2>4, <2>5, <2>6, MovePiles
  <2> HIDE DEF a
  <2>10. a.hp = s.hp /\ a.flags = s.flags /\ a.gflags = s.gflags /\ a.lost = s.lost
    BY <2>1, <2>8 DEF IsTable
  <2>11. Players(a) = Players(s)
    BY <2>10 DEF Players
  <2>12. MayDraw(a, p)
    BY <1>1, <2>8, <2>10, <2>11 DEF MayDraw, IsHeap, Places
  <2>13. ASSUME NEW q \in Players(s) \ {p}
         PROVE  Hand(a, q) = Hand(s, q)
    <3>1. HandOf(q) \in DOMAIN s.pile
      BY <2>1 DEF IsPiled
    <3>2. HandOf(q) \notin {Main, place}
      BY DEF HandOf, Main, place
    <3> QED BY <2>4, <2>5, <2>9, <3>1, <3>2 DEF Hand
  <2>14. Players(s) = Players(t)
    <3>1. 0 \notin Players(s) /\ 0 \notin Players(t) /\ Clients(s) = Clients(t)
      BY <1>1, <2>1 DEF MayDraw, Sound, IsTable, Others
    <3> QED BY <3>1 DEF Clients
  <2>15. Others(t, a, p)
    BY <1>1, <2>8, <2>10, <2>13, <2>14 DEF Others
  <2>16. Len(Hand(a, p)) = Len(Hand(s, p)) + 1
    <3>1. s.pile[place] \in Seq(Cards(s)) /\ a.pile[place] = Append(s.pile[place], c)
      BY <2>1, <2>5, <2>6, <2>9 DEF IsPiled, IsPocket
    <3>2. Len(Append(s.pile[place], c)) = Len(s.pile[place]) + 1
      BY <2>3, <3>1
    <3> QED BY <3>1, <3>2 DEF Hand, place
  <2>17. Drawn(t, p) = a
    BY <1>3 DEF Drawn, DrawOne, ToHand, a, c, vis, place, s
  <2>18. ~Stopped(t)
    BY <1>1, <1>3
  <2> QED BY <1>1, <2>12, <2>15, <2>16, <2>17, <2>18
<1> QED BY <1>2, <1>3

\* However many cards a player draws, with the discards turned over in the middle or not: it has as
\* many more, or the deck ran dry on the way; nobody else's hand changed; and each card is where it
\* says it is, with its face known to those who may see it.
THEOREM DrawsSound ==
  ASSUME NEW t, NEW p, MayDraw(t, p), NEW n \in Nat
  PROVE  LET a == DrawTo(t, p, n)
         IN  /\ MayDraw(a, p) /\ Others(t, a, p)
             /\ Stopped(a) \/ Len(Hand(a, p)) = Len(Hand(t, p)) + n
<1>1. PICK g : /\ g[0] = t
               /\ \A k \in 0 .. n - 1 : g[k + 1] = Drawn(g[k], p)
               /\ DrawTo(t, p, n) = g[n]
  BY DrawsOneByOne
<1> DEFINE Good(k) == /\ MayDraw(g[k], p) /\ Others(t, g[k], p)
                      /\ Stopped(g[k]) \/ Len(Hand(g[k], p)) = Len(Hand(t, p)) + k
           T == {k \in Nat : k <= n => Good(k)}
<1>2. Len(Hand(t, p)) \in Nat
  <2>1. t.pile[HandOf(p)] \in Seq(Cards(t))
    BY DEF MayDraw, Sound, IsPiled
  <2> QED BY <2>1 DEF Hand
<1>3. 0 \in T
  BY <1>1, <1>2 DEF Others
<1>4. ASSUME NEW k \in T
      PROVE  k + 1 \in T
  <2>1. SUFFICES ASSUME k + 1 <= n
                 PROVE  Good(k + 1)
    OBVIOUS
  <2>2. Good(k) /\ g[k + 1] = Drawn(g[k], p)
    BY <1>1, <2>1
  <2>3. /\ MayDraw(g[k + 1], p) /\ Others(g[k], g[k + 1], p)
        /\ Stopped(g[k + 1]) \/ Len(Hand(g[k + 1], p)) = Len(Hand(g[k], p)) + 1
        /\ Stopped(g[k]) => Stopped(g[k + 1])
    BY <2>2, DrawSound
  <2>4. Players(g[k]) = Players(t)
    <3>1. 0 \notin Players(g[k]) /\ 0 \notin Players(t) /\ Clients(g[k]) = Clients(t)
      BY <2>2 DEF MayDraw, Sound, IsTable, Others
    <3> QED BY <3>1 DEF Clients
  <2>5. Others(t, g[k + 1], p)
    BY <2>2, <2>3, <2>4 DEF Others
  <2>6. Stopped(g[k + 1]) \/ Len(Hand(g[k + 1], p)) = Len(Hand(t, p)) + (k + 1)
    BY <1>2, <2>2, <2>3
  <2> QED BY <2>3, <2>5, <2>6
<1>5. n \in T
  <2> HIDE DEF T
  <2> QED BY <1>3, <1>4, Counting
<1> QED BY <1>1, <1>5
-----------------------------------------------------------------------------

(***************************************************************************)
(* The queue of requests.                                                  *)
(***************************************************************************)

\* m_requests is sorted by priority.
InOrder(q) == \A i, j \in DOMAIN q : i < j => q[i].pr >= q[j].pr

\* In a sorted queue the requests that a new one does not overtake are the first ones.
LEMMA AheadIs ==
  ASSUME NEW R, \A x \in R : x.pr \in Int, NEW q \in Seq(R), InOrder(q), NEW r \in R
  PROVE  /\ Ahead(q, r) \in 0 .. Len(q)
         /\ \A i \in 1 .. Len(q) : q[i].pr >= r.pr <=> i <= Ahead(q, r)
<1> DEFINE S == {i \in DOMAIN q : q[i].pr >= r.pr}
           T == (1 .. Len(q) + 1) \ S
<1>1. /\ Len(q) \in Nat /\ DOMAIN q = 1 .. Len(q)
      /\ \A i \in 1 .. Len(q) : q[i].pr \in Int
      /\ r.pr \in Int
  OBVIOUS
<1>2. PICK m \in T : \A k \in T : m <= k
  <2>1. T \subseteq Nat /\ Len(q) + 1 \in T
    BY <1>1
  <2> QED BY <2>1, Least
<1>3. m \in 1 .. Len(q) + 1 /\ \A i \in 1 .. m - 1 : i \in S
  BY <1>1, <1>2
<1>4. ASSUME NEW i \in S
      PROVE  i < m
  <2>1. CASE m \in 1 .. Len(q)
    <3>1. q[m].pr < r.pr
      BY <1>1, <1>2, <2>1
    <3>2. m < i => q[m].pr >= q[i].pr
      BY <1>1, <2>1 DEF InOrder
    <3> QED BY <1>1, <1>3, <2>1, <3>1, <3>2
  <2>2. CASE m = Len(q) + 1
    BY <1>1, <2>2
  <2> QED BY <1>3, <2>1, <2>2
<1>5. S = 1 .. m - 1
  BY <1>1, <1>3, <1>4
<1>6. Cardinality(S) = m - 1
  <2>1. 1 \in Int /\ m - 1 \in Int /\ (1 > m - 1 => m - 1 = 0) /\ (m - 1) - 1 + 1 = m - 1
    BY <1>1, <1>3
  <2>2. Cardinality(1 .. m - 1) = IF 1 > m - 1 THEN 0 ELSE (m - 1) - 1 + 1
    BY <2>1, FS_Interval
  <2> QED BY <1>5, <2>1, <2>2
<1>7. Ahead(q, r) = m - 1
  BY <1>6 DEF Ahead
<1> QED BY <1>1, <1>3, <1>5, <1>7

LEMMA InsertAtIs ==
  ASSUME NEW s, NEW i, NEW x
  PROVE  InsertAt(s, i, x) = (SubSeq(s, 1, i - 1) \o <<x>>) \o SubSeq(s, i, Len(s))
BY DEF InsertAt

\* stable_priority_queue::emplace, for any queue and any priorities: a request goes behind those it
\* does not precede and before those it does, which stay as they were among themselves; the engine
\* serves the first of m_requests, so nothing queued later at the same priority is served earlier.
THEOREM QueueInOrder ==
  ASSUME NEW t, "queue" \in DOMAIN t, NEW R, \A x \in R : x.pr \in Int,
         t.queue \in Seq(R), InOrder(t.queue), NEW r \in R
  PROVE  LET q == t.queue
             a == Queue(t, r).queue
             k == Ahead(q, r)
         IN  /\ a \in Seq(R) /\ Len(a) = Len(q) + 1 /\ InOrder(a)
             /\ a[k + 1] = r
             /\ \A i \in 1 .. k : a[i] = q[i] /\ q[i].pr >= r.pr
             /\ \A i \in k + 1 .. Len(q) : a[i + 1] = q[i] /\ q[i].pr < r.pr
<1> DEFINE q == t.queue
           k == Ahead(q, r)
           b == SubSeq(q, 1, k)
           e == SubSeq(q, k + 1, Len(q))
           a == (b \o <<r>>) \o e
<1>1. /\ Len(q) \in Nat /\ DOMAIN q = 1 .. Len(q)
      /\ \A i \in 1 .. Len(q) : q[i] \in R /\ q[i].pr \in Int
      /\ r.pr \in Int
  OBVIOUS
<1>2. /\ k \in 0 .. Len(q)
      /\ \A i \in 1 .. Len(q) : q[i].pr >= r.pr <=> i <= k
  BY AheadIs
<1>3. Queue(t, r).queue = a
  <2>1. Queue(t, r).queue = InsertAt(q, k + 1, r)
    BY DEF Queue
  <2>2. (k + 1) - 1 = k
    BY <1>2
  <2> QED BY <2>1, <2>2, InsertAtIs
<1> HIDE DEF k, q
<1>4. q \in Seq(R)
  BY DEF q
<1>5. b \in Seq(R) /\ Len(b) = k /\ \A i \in 1 .. k : b[i] = q[i]
  BY <1>2, <1>4
<1>6. e \in Seq(R) /\ Len(e) = Len(q) - k /\ \A i \in 1 .. Len(q) - k : e[i] = q[i + k]
  BY <1>2, <1>4
<1> HIDE DEF b, e
<1>7. /\ a \in Seq(R) /\ Len(a) = Len(q) + 1
      /\ \A i \in 1 .. k : a[i] = q[i]
      /\ a[k + 1] = r
      /\ \A i \in k + 1 .. Len(q) : a[i + 1] = q[i]
  <2> DEFINE d == b \o <<r>>
  <2>1. d \in Seq(R) /\ Len(d) = k + 1 /\ d[k + 1] = r /\ \A i \in 1 .. k : d[i] = b[i]
    BY <1>2, <1>5
  <2> HIDE DEF d
  <2>2. /\ d \o e \in Seq(R) /\ Len(d \o e) = Len(q) + 1
        /\ \A i \in 1 .. Len(q) + 1 : (d \o e)[i] = IF i <= k + 1 THEN d[i] ELSE e[i - (k + 1)]
    <3>1. /\ d \o e \in Seq(R) /\ Len(d \o e) = Len(d) + Len(e)
          /\ \A i \in 1 .. Len(d) + Len(e) :
               (d \o e)[i] = IF i <= Len(d) THEN d[i] ELSE e[i - Len(d)]
      <4>1. d \in Seq(R) /\ e \in Seq(R)
        BY <2>1, <1>6
      <4> QED BY <4>1
    <3>2. Len(d) + Len(e) = Len(q) + 1
      BY <1>1, <1>2, <1>6, <2>1
    <3> QED BY <2>1, <3>1, <3>2
  <2>3. a = d \o e
    BY DEF d
  <2> HIDE DEF a
  <2>4. \A i \in 1 .. k : a[i] = q[i]
    BY <1>1, <1>2, <1>5, <2>1, <2>2, <2>3
  <2>5. a[k + 1] = r
    BY <1>1, <1>2, <2>1, <2>2, <2>3
  <2>6. \A i \in k + 1 .. Len(q) : a[i + 1] = q[i]
    BY <1>1, <1>2, <1>6, <2>2, <2>3
  <2> QED BY <2>2, <2>3, <2>4, <2>5, <2>6
<1> HIDE DEF a
<1>8. InOrder(a)
  <2>1. DOMAIN a = 1 .. Len(q) + 1
    BY <1>7
  <2>2. SUFFICES ASSUME NEW i \in 1 .. Len(q) + 1, NEW j \in 1 .. Len(q) + 1, i < j
                 PROVE  a[i].pr >= a[j].pr
    BY <2>1 DEF InOrder
  <2>3. \A x, y \in 1 .. Len(q) : x < y => q[x].pr >= q[y].pr
    BY <1>1 DEF InOrder, q
  <2>4. CASE j <= k
    BY <1>1, <1>2, <1>7, <2>2, <2>3, <2>4
  <2>5. CASE j = k + 1
    BY <1>1, <1>2, <1>7, <2>2, <2>5
  <2>6. CASE j > k + 1
    <3>1. j - 1 \in k + 1 .. Len(q) /\ a[j] = q[j - 1] /\ q[j - 1].pr < r.pr
      <4>1. j - 1 \in k + 1 .. Len(q) /\ (j - 1) + 1 = j /\ ~(j - 1 <= k)
        BY <1>1, <1>2, <2>6
      <4>2. a[j] = q[j - 1]
        BY <1>7, <4>1
      <4> QED BY <1>1, <1>2, <4>1, <4>2
    <3>2. CASE i <= k
      BY <1>1, <1>2, <1>7, <2>2, <2>3, <2>6, <3>1, <3>2
    <3>3. CASE i = k + 1
      BY <1>1, <1>2, <1>7, <2>2, <3>1, <3>3
    <3>4. CASE i > k + 1
      <4>1. i - 1 \in k + 1 .. Len(q) /\ a[i] = q[i - 1] /\ i - 1 < j - 1
        BY <1>1, <1>2, <1>7, <2>2, <3>4
      <4> QED BY <1>1, <1>2, <2>3, <3>1, <4>1
    <3> QED BY <1>2, <2>2, <3>2, <3>3, <3>4
  <2> QED BY <1>2, <2>2, <2>4, <2>5, <2>6
<1> QED BY <1>1, <1>2, <1>3, <1>7, <1>8 DEF q, k
====
