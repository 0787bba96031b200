--------------------------- MODULE TurnFlowProofs ---------------------------
(***************************************************************************)
(* What holds of turns, deaths and victory for every number of players,    *)
(* every deal, every number of hit points and every mixture of the cards   *)
(* that move turns: a death is dealt with once, the dead hold nothing, and *)
(* a victory is noticed.                                                   *)
(***************************************************************************)
EXTENDS TurnFlow, FiniteSetTheorems, SequenceTheorems, WellFoundedInduction, TLAPS

(***************************************************************************)
(* The inductive invariant.                                                *)
(***************************************************************************)

RequestSet == [kind : DOMAIN Priority, who : Player \cup {None}, by : Player \cup {None}]

\* m_requests is sorted by priority.
Sorted(q) ==
  \A i, j \in DOMAIN q : i < j => Priority[q[i].kind] >= Priority[q[j].kind]

\* No player has two requests of these kinds.
One(q, kinds) ==
  \A i, j \in DOMAIN q :
    q[i].kind \in kinds /\ q[j].kind \in kinds /\ q[i].who = q[j].who => i = j

\* A player goes through these one by one: hurt, eliminated, buried.
Hurt == {"damage", "death"}
Burial == {"bury", "discard_all"}
OneDeath(q) == One(q, Hurt \cup {"eliminate"}) /\ One(q, Hurt \cup Burial)
InOrder(q) ==
  \A i, j \in DOMAIN q :
    q[i].kind = "eliminate" /\ q[j].kind \in Burial /\ q[i].who = q[j].who => i < j

\* Only the start of the game is nobody's, and a reward has a killer.
Known(q) ==
  \A i \in DOMAIN q :
    /\ q[i].kind # "start" => q[i].who \in Player
    /\ q[i].kind = "reward" => q[i].by \in Player

Good(q) == q \in Seq(RequestSet) /\ Sorted(q) /\ OneDeath(q) /\ InOrder(q) /\ Known(q)

Waiting(q, kind, p) == \E i \in DOMAIN q : q[i].kind = kind /\ q[i].who = p

\* Whoever is to be eliminated will be buried and have a verdict.
Mourned ==
  \A p \in Player :
    Waiting(queue, "eliminate", p) => Waiting(queue, "bury", p) /\ Waiting(queue, "verdict", p)

\* The cards of the dead are on their way to the discard pile.
Buried ==
  \A p \in Player :
    p \in holds /\ ~Alive(p) => Waiting(queue, "bury", p) \/ Waiting(queue, "discard_all", p)

\* A first player who died has a verdict to come, which names another.
FirstLives == winners = None /\ ~Alive(first) => Waiting(queue, "verdict", first)

\* Somebody has won, by what the players are and not by who killed whom.
Decided ==
  IF FreeForAll \/ N <= 3 THEN Cardinality(AlivePlayers) <= 1
  ELSE \/ AlivePlayers \cap Team({"sheriff"}) = {}
       \/ AlivePlayers \cap Team({"outlaw", "renegade"}) = {}

\* Then a verdict is to come.
Undecided ==
  winners = None /\ playing # None /\ Decided
    => \E p \in Player : Waiting(queue, "verdict", p)

LargeRoles == N > 3 => \A p \in Player : roles[p] \in LargeRole

\* No card follows Wild West Show.
ShowIsLast == FreeForAll => wwsDeck = {}

\* Everybody has a seat.
Seated == \A p \in Player : \E i \in Player : order[i] = p

\* Before the first turn.
Fresh ==
  playing = None =>
    /\ queue = <<Request("start", None, None)>>
    /\ flags = [p \in Player |-> {}] /\ roles = game.deal
    /\ wws = None /\ winners = None

IInv ==
  /\ TypeOK /\ Good(queue) /\ Mourned /\ Buried /\ FirstLives /\ Undecided
  /\ LargeRoles /\ ShowIsLast /\ Seated /\ Fresh

(***************************************************************************)
(* Numbers.                                                                *)
(***************************************************************************)

LEMMA Least ==
  ASSUME NEW T, T \subseteq Nat, T # {}
  PROVE  \E m \in T : \A k \in T : m <= k
<1>1. IsWellFoundedOn(OpToRel(<, Nat), Nat)
  BY NatLessThanWellFounded
<1>2. PICK m \in T : \A k \in T : ~ (<<k, m>> \in OpToRel(<, Nat))
  BY <1>1, WFMin
<1>3. \A k \in T : ~ (k < m)
  BY <1>2 DEF OpToRel
<1> QED BY <1>3

LEMMA Sizes ==
  ASSUME game \in Games
  PROVE  /\ N \in 3 .. 8 /\ Player = 1 .. N /\ game.deal \in [Player -> Role]
         /\ None \notin Player /\ \A S \in SUBSET Player : S # None
<1>1. game.deal \in Seq(Role) /\ N \in 3 .. 8
  BY TurnFlowAssumption DEF N, MaxPlayers
<1>2. game.deal \in [1 .. N -> Role]
  BY <1>1, LenProperties DEF N
<1>3. Player \subseteq 1 .. MaxPlayers
  BY <1>1 DEF Player, MaxPlayers
<1> QED BY <1>1, <1>2, <1>3, TurnFlowAssumption DEF Player

LEMMA SameGame ==
  ASSUME game' = game
  PROVE  Player' = Player /\ N' = N /\ Cards' = Cards /\ RequestSet' = RequestSet
BY DEF Player, N, Cards, RequestSet

LEMMA Priorities ==
  /\ DOMAIN Priority =
       {"damage", "discard_pass", "discard_all", "check", "death", "eliminate", "reward",
        "bury", "pass", "start", "skip", "bang", "sheriff_discard", "verdict", "ghost_end",
        "end_turn", "predraw", "jail", "draw", "pre_turn", "turn_start"}
  /\ Priority["damage"] = 200 /\ Priority["discard_pass"] = 200
  /\ Priority["discard_all"] = 100 /\ Priority["check"] = 100
  /\ Priority["death"] = 50 /\ Priority["eliminate"] = 50 /\ Priority["reward"] = 50
  /\ Priority["bury"] = 50 /\ Priority["pass"] = 1 /\ Priority["start"] = 0
  /\ Priority["skip"] = 0 /\ Priority["bang"] = -1 /\ Priority["sheriff_discard"] = -2
  /\ Priority["verdict"] = -4 /\ Priority["ghost_end"] = -5 /\ Priority["end_turn"] = -5
  /\ Priority["predraw"] = -7 /\ Priority["jail"] = -7 /\ Priority["draw"] = -7
  /\ Priority["pre_turn"] = -10 /\ Priority["turn_start"] = -10
BY DEF Priority, BangPriority, GhostEndPriority

LEMMA PriorityInt == \A k \in DOMAIN Priority : Priority[k] \in Int
BY Priorities

(***************************************************************************)
(* The queue.                                                              *)
(***************************************************************************)

LEMMA QueueType ==
  ASSUME NEW q \in Seq(RequestSet)
  PROVE  /\ Len(q) \in Nat /\ DOMAIN q = 1 .. Len(q)
         /\ \A i \in DOMAIN q :
              /\ q[i] \in RequestSet /\ q[i].kind \in DOMAIN Priority
              /\ Priority[q[i].kind] \in Int
              /\ q[i].who \in Player \cup {None} /\ q[i].by \in Player \cup {None}
<1>1. Len(q) \in Nat /\ DOMAIN q = 1 .. Len(q)
  BY LenProperties
<1>2. \A i \in DOMAIN q : q[i] \in RequestSet
  BY <1>1, ElementOfSeq
<1> QED BY <1>1, <1>2, PriorityInt DEF RequestSet

LEMMA AheadIs ==
  ASSUME NEW q \in Seq(RequestSet), Sorted(q), NEW r \in RequestSet
  PROVE  /\ Ahead(q, r) \in 0 .. Len(q)
         /\ \A i \in 1 .. Len(q) :
              Priority[q[i].kind] >= Priority[r.kind] <=> i <= Ahead(q, r)
<1> DEFINE S == {i \in DOMAIN q : Priority[q[i].kind] >= Priority[r.kind]}
           T == (1 .. Len(q) + 1) \ S
<1>1. /\ Len(q) \in Nat /\ DOMAIN q = 1 .. Len(q)
      /\ \A i \in 1 .. Len(q) : Priority[q[i].kind] \in Int
  BY QueueType
<1>2. Priority[r.kind] \in Int
  BY PriorityInt DEF RequestSet
<1>3. T \subseteq Nat /\ Len(q) + 1 \in T
  BY <1>1
<1>4. PICK m \in T : \A k \in T : m <= k
  BY <1>3, Least
<1>5. \A i \in 1 .. m - 1 : i \in S
  BY <1>1, <1>4
<1>6. \A i \in S : i < m
  <2> TAKE i \in S
  <2>1. CASE m \in 1 .. Len(q)
    <3>1. Priority[q[m].kind] < Priority[r.kind]
      BY <1>1, <1>2, <1>4, <2>1
    <3>2. m < i => Priority[q[m].kind] >= Priority[q[i].kind]
      BY <1>1, <2>1 DEF Sorted
    <3> QED BY <1>1, <1>2, <1>4, <2>1, <3>1, <3>2
  <2>2. CASE m = Len(q) + 1
    BY <1>1, <2>2
  <2> QED BY <1>1, <1>4, <2>1, <2>2
<1>7. m \in 1 .. Len(q) + 1
  BY <1>4
<1>8. S = 1 .. m - 1
  BY <1>1, <1>5, <1>6, <1>7
<1>9. Cardinality(S) = m - 1
  <2>1. 1 \in Int /\ m - 1 \in Int /\ (1 > m - 1 => m - 1 = 0) /\ (m - 1) - 1 + 1 = m - 1
    BY <1>1, <1>7
  <2>2. Cardinality(1 .. m - 1) = IF 1 > m - 1 THEN 0 ELSE (m - 1) - 1 + 1
    BY <2>1, FS_Interval
  <2> QED BY <1>8, <2>1, <2>2
<1>10. Ahead(q, r) = m - 1
  BY <1>9 DEF Ahead
<1> QED BY <1>1, <1>7, <1>8, <1>10

\* e is q with n copies of r at place k, where their priority puts them.
Inserted(q, e, r, n, k) ==
  /\ e \in Seq(RequestSet)
  /\ DOMAIN e = 1 .. Len(q) + n
  /\ \A i \in 1 .. k - 1 : e[i] = q[i] /\ Priority[q[i].kind] >= Priority[r.kind]
  /\ \A i \in k .. k + n - 1 : e[i] = r
  /\ \A i \in k .. Len(q) : e[i + n] = q[i] /\ Priority[q[i].kind] < Priority[r.kind]

LEMMA EnqueueIs ==
  ASSUME NEW q \in Seq(RequestSet), Sorted(q), NEW r \in RequestSet, NEW n \in Nat
  PROVE  \E k \in 1 .. Len(q) + 1 : Inserted(q, EnqueueTimes(q, r, n), r, n, k)
<1> DEFINE a == Ahead(q, r)
           s == SubSeq(q, 1, a)
           t == [i \in 1 .. n |-> r]
           u == SubSeq(q, a + 1, Len(q))
           e == EnqueueTimes(q, r, n)
<1>1. /\ Len(q) \in Nat /\ DOMAIN q = 1 .. Len(q)
      /\ \A i \in 1 .. Len(q) : q[i] \in RequestSet /\ Priority[q[i].kind] \in Int
  BY QueueType
<1>2. /\ a \in 0 .. Len(q)
      /\ \A i \in 1 .. Len(q) : Priority[q[i].kind] >= Priority[r.kind] <=> i <= a
  BY AheadIs
<1>3. Priority[r.kind] \in Int
  BY PriorityInt DEF RequestSet
<1> HIDE DEF a
<1>0. Len(q) \in Int /\ a \in Int /\ 0 <= a /\ a <= Len(q)
  BY <1>1, <1>2
<1>4. s \in Seq(RequestSet) /\ Len(s) = a /\ \A i \in 1 .. a : s[i] = q[i]
  <2>1. \A i \in 1 .. a : q[i] \in RequestSet
    BY <1>1, <1>2
  <2>2. /\ s \in Seq(RequestSet)
        /\ Len(s) = IF 1 <= a THEN a - 1 + 1 ELSE 0
        /\ \A i \in 1 .. a - 1 + 1 : s[i] = q[1 + i - 1]
    BY <1>1, <1>2, <2>1, SubSeqProperties
  <2> QED BY <1>1, <1>2, <2>2
<1>5. u \in Seq(RequestSet) /\ Len(u) = Len(q) - a /\ \A i \in 1 .. Len(q) - a : u[i] = q[a + i]
  <2>1. \A i \in a + 1 .. Len(q) : q[i] \in RequestSet
    BY <1>1, <1>2
  <2>2. /\ u \in Seq(RequestSet)
        /\ Len(u) = IF a + 1 <= Len(q) THEN Len(q) - (a + 1) + 1 ELSE 0
        /\ \A i \in 1 .. Len(q) - (a + 1) + 1 : u[i] = q[a + 1 + i - 1]
    BY <1>1, <1>2, <2>1, SubSeqProperties
  <2>3. Len(u) = Len(q) - a /\ Len(q) - (a + 1) + 1 = Len(q) - a
    <3>1. /\ Len(q) - (a + 1) + 1 = Len(q) - a
          /\ a + 1 <= Len(q) \/ Len(q) - a = 0
      BY <1>0
    <3> HIDE DEF u
    <3> QED BY <2>2, <3>1
  <2>4. \A i \in 1 .. Len(q) - a : u[i] = q[a + i]
    <3> TAKE i \in 1 .. Len(q) - a
    <3>1. a + 1 + i - 1 = a + i
      BY <1>2
    <3>2. u[i] = q[a + 1 + i - 1]
      BY <2>2, <2>3
    <3> QED BY <3>1, <3>2
  <2> QED BY <2>2, <2>3, <2>4
<1>6. t \in Seq(RequestSet) /\ Len(t) = n /\ \A i \in 1 .. n : t[i] = r
  OBVIOUS
<1> HIDE DEF s, t, u
<1>7. /\ s \o t \in Seq(RequestSet) /\ Len(s \o t) = a + n
      /\ \A i \in 1 .. a + n : (s \o t)[i] = IF i <= a THEN s[i] ELSE t[i - a]
  BY <1>4, <1>6, ConcatProperties
<1>8. /\ (s \o t) \o u \in Seq(RequestSet) /\ Len((s \o t) \o u) = a + n + (Len(q) - a)
      /\ \A i \in 1 .. a + n + (Len(q) - a) :
           ((s \o t) \o u)[i] = IF i <= a + n THEN (s \o t)[i] ELSE u[i - (a + n)]
  <2>1. /\ (s \o t) \o u \in Seq(RequestSet) /\ Len((s \o t) \o u) = Len(s \o t) + Len(u)
        /\ \A i \in 1 .. Len(s \o t) + Len(u) :
             ((s \o t) \o u)[i] = IF i <= Len(s \o t) THEN (s \o t)[i] ELSE u[i - Len(s \o t)]
    BY <1>5, <1>7, ConcatProperties
  <2>2. Len(s \o t) = a + n /\ Len(u) = Len(q) - a
    BY <1>5, <1>7
  <2> QED BY <2>1, <2>2
<1>9. e = (s \o t) \o u
  BY DEF EnqueueTimes, s, t, u, a
<1> HIDE DEF e
<1>10. e \in Seq(RequestSet) /\ DOMAIN e = 1 .. Len(q) + n
  BY <1>1, <1>2, <1>8, <1>9, LenProperties
<1>11. \A i \in 1 .. a : e[i] = q[i]
  BY <1>1, <1>2, <1>4, <1>7, <1>8, <1>9
<1>12. \A i \in a + 1 .. a + n : e[i] = r
  BY <1>1, <1>2, <1>6, <1>7, <1>8, <1>9
<1>13. \A i \in a + 1 .. Len(q) : e[i + n] = q[i]
  <2>1. SUFFICES ASSUME NEW i \in a + 1 .. Len(q), NEW j \in Int, j = i + n
                 PROVE  e[j] = q[i]
    BY <1>0
  <2>2. /\ j \in 1 .. a + n + (Len(q) - a) /\ ~ (j <= a + n)
        /\ j - (a + n) = i - a /\ i - a \in 1 .. Len(q) - a /\ a + (i - a) = i
    BY <1>0, <2>1
  <2>3. e[j] = u[j - (a + n)]
    BY <1>8, <1>9, <2>2
  <2>4. u[i - a] = q[a + (i - a)]
    BY <1>5, <2>2
  <2> QED BY <2>2, <2>3, <2>4
<1>14. a + 1 \in 1 .. Len(q) + 1 /\ a + 1 - 1 = a /\ a + 1 + n - 1 = a + n
  BY <1>1, <1>2
<1>15. Inserted(q, e, r, n, a + 1)
  <2> DEFINE k == a + 1
  <2>1. k - 1 = a /\ k + n - 1 = a + n
    BY <1>0
  <2>2. \A i \in 1 .. a : Priority[q[i].kind] >= Priority[r.kind]
    BY <1>0, <1>2
  <2>3. \A i \in k .. Len(q) : Priority[q[i].kind] < Priority[r.kind]
    BY <1>0, <1>1, <1>2, <1>3
  <2>4. \A i \in k .. a + n : e[i] = r
    BY <1>12
  <2>5. \A i \in k .. Len(q) : e[i + n] = q[i]
    BY <1>13
  <2> HIDE DEF k
  <2>6. \A i \in 1 .. k - 1 : e[i] = q[i] /\ Priority[q[i].kind] >= Priority[r.kind]
    BY <1>11, <2>1, <2>2
  <2>7. \A i \in k .. k + n - 1 : e[i] = r
    BY <2>1, <2>4
  <2>8. Inserted(q, e, r, n, k)
    BY <1>10, <2>3, <2>5, <2>6, <2>7 DEF Inserted
  <2> QED BY <2>8 DEF k
<1> QED BY <1>14, <1>15 DEF e

\* r may join q: its player is not in the middle of a death already.
Joins(q, r) ==
  /\ r \in RequestSet
  /\ r.kind # "start" => r.who \in Player
  /\ r.kind = "reward" => r.by \in Player
  /\ r.kind \in Hurt \cup {"eliminate"}
       => \A k \in Hurt \cup {"eliminate"} : ~Waiting(q, k, r.who)
  /\ r.kind \in Hurt \cup Burial => \A k \in Hurt \cup Burial : ~Waiting(q, k, r.who)
  /\ r.kind = "eliminate" => \A k \in Burial : ~Waiting(q, k, r.who)
  /\ r.kind = "discard_all" => ~Waiting(q, "eliminate", r.who)

\* e is q with r, up to n times, among its entries: of[i] is the place of e[i] in q.
Merged(q, e, r, n, of) ==
  /\ e \in Seq(RequestSet)
  /\ of \in [1 .. Len(e) -> 0 .. Len(q)]
  /\ \A i \in 1 .. Len(e) : e[i] = IF of[i] = 0 THEN r ELSE q[of[i]]
  /\ \A i, j \in 1 .. Len(e) : i < j /\ of[i] # 0 /\ of[j] # 0 => of[i] < of[j]
  /\ n <= 1 => \A i, j \in 1 .. Len(e) : of[i] = 0 /\ of[j] = 0 => i = j
  /\ \A i, j \in 1 .. Len(e) : i < j => Priority[e[i].kind] >= Priority[e[j].kind]
  /\ r.kind = "bury" =>
       \A i, j \in 1 .. Len(e) : of[i] = 0 /\ e[j].kind = "eliminate" => j < i

LEMMA Merge ==
  ASSUME NEW q, NEW e, NEW r, NEW n \in Nat, NEW of, Good(q), Joins(q, r),
         n <= 1 \/ r.kind \notin Hurt \cup Burial \cup {"eliminate"},
         Merged(q, e, r, n, of)
  PROVE  Good(e)
<1> USE DEF Good, Merged
<1>1. /\ Len(q) \in Nat /\ DOMAIN q = 1 .. Len(q) /\ Len(e) \in Nat /\ DOMAIN e = 1 .. Len(e)
  BY LenProperties
<1>2. \A i, j \in 1 .. Len(e) : of[i] # 0 /\ of[j] # 0 => (of[i] < of[j] <=> i < j)
  <2> TAKE i, j \in 1 .. Len(e)
  <2> QED BY <1>1
<1>3. \A i \in 1 .. Len(e) :
        of[i] # 0 => /\ of[i] \in DOMAIN q /\ e[i] = q[of[i]]
                     /\ Waiting(q, e[i].kind, e[i].who)
  <2> SUFFICES ASSUME NEW i \in 1 .. Len(e), of[i] # 0
               PROVE  /\ of[i] \in DOMAIN q /\ e[i] = q[of[i]]
                      /\ Waiting(q, e[i].kind, e[i].who)
    OBVIOUS
  <2>1. of[i] \in DOMAIN q /\ e[i] = q[of[i]]
    BY <1>1
  <2> QED BY <2>1 DEF Waiting
<1>4. \A i \in 1 .. Len(e) : of[i] = 0 => e[i] = r
  OBVIOUS
<1>5. Sorted(e)
  BY <1>1 DEF Sorted
<1>6. \A kinds \in {Hurt \cup {"eliminate"}, Hurt \cup Burial} : One(e, kinds)
  <2> SUFFICES ASSUME NEW kinds \in {Hurt \cup {"eliminate"}, Hurt \cup Burial},
                      NEW i \in 1 .. Len(e), NEW j \in 1 .. Len(e),
                      e[i].kind \in kinds, e[j].kind \in kinds, e[i].who = e[j].who
               PROVE  i = j
    BY <1>1 DEF One
  <2>1. r.kind \in kinds => \A k \in kinds : ~Waiting(q, k, r.who)
    BY DEF Joins
  <2>2. CASE of[i] = 0 /\ of[j] = 0
    BY <1>4, <2>2
  <2>3. CASE of[i] = 0 /\ of[j] # 0
    BY <1>3, <1>4, <2>1, <2>3
  <2>4. CASE of[i] # 0 /\ of[j] = 0
    BY <1>3, <1>4, <2>1, <2>4
  <2>5. CASE of[i] # 0 /\ of[j] # 0
    <3>1. One(q, kinds)
      BY DEF OneDeath
    <3>2. of[i] = of[j]
      BY <1>3, <2>5, <3>1 DEF One
    <3> QED BY <1>1, <1>2, <2>5, <3>2
  <2> QED BY <2>2, <2>3, <2>4, <2>5
<1>7. InOrder(e)
  <2> SUFFICES ASSUME NEW i \in 1 .. Len(e), NEW j \in 1 .. Len(e),
                      e[i].kind = "eliminate", e[j].kind \in Burial, e[i].who = e[j].who
               PROVE  i < j
    BY <1>1 DEF InOrder
  <2>1. CASE of[i] = 0 /\ of[j] = 0
    BY <1>4, <2>1 DEF Burial
  <2>2. CASE of[i] = 0 /\ of[j] # 0
    BY <1>3, <1>4, <2>2 DEF Joins
  <2>3. CASE of[i] # 0 /\ of[j] = 0
    <3>1. r.kind \in Burial /\ Waiting(q, "eliminate", r.who)
      BY <1>3, <1>4, <2>3
    <3>2. r.kind = "bury"
      BY <3>1 DEF Joins, Burial
    <3> QED BY <2>3, <3>2
  <2>4. CASE of[i] # 0 /\ of[j] # 0
    <3>1. of[i] < of[j]
      BY <1>3, <2>4 DEF InOrder
    <3> QED BY <1>2, <2>4, <3>1
  <2> QED BY <2>1, <2>2, <2>3, <2>4
<1>8. Known(e)
  <2> SUFFICES ASSUME NEW i \in 1 .. Len(e)
               PROVE  /\ e[i].kind # "start" => e[i].who \in Player
                      /\ e[i].kind = "reward" => e[i].by \in Player
    BY <1>1 DEF Known
  <2>1. CASE of[i] = 0
    BY <1>4, <2>1 DEF Joins
  <2>2. CASE of[i] # 0
    BY <1>3, <2>2 DEF Known
  <2> QED BY <2>1, <2>2
<1> QED BY <1>5, <1>6, <1>7, <1>8 DEF OneDeath

\* A request that may join the queue may be queued.
LEMMA EnqueueGood ==
  ASSUME NEW q, NEW r, NEW n \in Nat, Good(q), Joins(q, r),
         n <= 1 \/ r.kind \notin Hurt \cup Burial \cup {"eliminate"}
  PROVE  /\ Good(EnqueueTimes(q, r, n))
         /\ \A k, p : Waiting(EnqueueTimes(q, r, n), k, p)
                        <=> Waiting(q, k, p) \/ (n > 0 /\ k = r.kind /\ p = r.who)
<1>1. q \in Seq(RequestSet) /\ Sorted(q) /\ r \in RequestSet
  BY DEF Good, Joins
<1>0. PICK e : e = EnqueueTimes(q, r, n)
  OBVIOUS
<1>m. PICK m \in 1 .. Len(q) + 1 : Inserted(q, e, r, n, m)
  BY <1>0, <1>1, EnqueueIs
<1>2. /\ e \in Seq(RequestSet) /\ DOMAIN e = 1 .. Len(q) + n
      /\ \A i \in 1 .. m - 1 : e[i] = q[i] /\ Priority[q[i].kind] >= Priority[r.kind]
      /\ \A i \in m .. m + n - 1 : e[i] = r
      /\ \A i \in m .. Len(q) : e[i + n] = q[i] /\ Priority[q[i].kind] < Priority[r.kind]
  BY <1>m DEF Inserted
<1>3. /\ Len(q) \in Nat /\ DOMAIN q = 1 .. Len(q)
      /\ \A i \in DOMAIN q : Priority[q[i].kind] \in Int
  BY <1>1, QueueType
<1>4. Len(e) = Len(q) + n /\ DOMAIN e = 1 .. Len(e)
  <2>1. Len(e) \in Nat /\ DOMAIN e = 1 .. Len(e)
    BY <1>2, LenProperties
  <2> QED BY <1>2, <1>3, <2>1
<1>5. Priority[r.kind] \in Int
  BY <1>1, PriorityInt DEF RequestSet
<1> DEFINE of == [i \in 1 .. Len(e) |-> IF i < m THEN i ELSE IF i < m + n THEN 0 ELSE i - n]
<1>6. of \in [1 .. Len(e) -> 0 .. Len(q)]
  BY <1>3, <1>4
<1>7. \A i \in 1 .. Len(e) :
        /\ e[i] = IF of[i] = 0 THEN r ELSE q[of[i]]
        /\ of[i] = 0 <=> i \in m .. m + n - 1
        /\ i < m => of[i] = i /\ Priority[e[i].kind] >= Priority[r.kind]
        /\ i >= m + n => of[i] = i - n /\ Priority[e[i].kind] < Priority[r.kind]
  <2> TAKE i \in 1 .. Len(e)
  <2>1. CASE i < m
    BY <1>2, <1>3, <1>4, <2>1
  <2>2. CASE i \in m .. m + n - 1
    BY <1>2, <1>3, <1>4, <2>2
  <2>3. CASE i >= m + n
    <3>1. i - n \in m .. Len(q) /\ (i - n) + n = i
      BY <1>3, <1>4, <2>3
    <3>2. e[i] = q[i - n] /\ Priority[q[i - n].kind] < Priority[r.kind]
      BY <1>2, <3>1
    <3>3. of[i] = i - n /\ of[i] # 0 /\ i \notin m .. m + n - 1 /\ ~ (i < m)
      BY <1>3, <1>4, <2>3
    <3> QED BY <3>2, <3>3
  <2> QED BY <1>3, <1>4, <2>1, <2>2, <2>3
<1> HIDE DEF of
<1>8. \A i, j \in 1 .. Len(e) : i < j /\ of[i] # 0 /\ of[j] # 0 => of[i] < of[j]
  <2> TAKE i, j \in 1 .. Len(e)
  <2> QED BY <1>3, <1>4, <1>7
<1>9. \A i, j \in 1 .. Len(e) : i < j => Priority[e[i].kind] >= Priority[e[j].kind]
  <2> SUFFICES ASSUME NEW i \in 1 .. Len(e), NEW j \in 1 .. Len(e), i < j
               PROVE  Priority[e[i].kind] >= Priority[e[j].kind]
    OBVIOUS
  <2>1. /\ Priority[e[i].kind] \in Int /\ Priority[e[j].kind] \in Int
    BY <1>2, <1>4, QueueType
  <2>2. CASE of[i] # 0 /\ of[j] # 0
    <3>1. of[i] < of[j] /\ of[i] \in DOMAIN q /\ of[j] \in DOMAIN q
      BY <1>3, <1>6, <1>8, <2>2
    <3>2. e[i] = q[of[i]] /\ e[j] = q[of[j]]
      BY <1>7, <2>2
    <3> QED BY <1>1, <3>1, <3>2 DEF Sorted
  <2>3. CASE of[i] = 0 /\ of[j] = 0
    <3>1. e[i] = r /\ e[j] = r
      BY <1>7, <2>3
    <3> QED BY <1>5, <3>1
  <2>4. CASE of[i] = 0 /\ of[j] # 0
    <3>1. e[i] = r /\ i \in m .. m + n - 1 /\ j >= m + n
      BY <1>3, <1>4, <1>7, <2>4
    <3> QED BY <1>5, <1>7, <2>1, <3>1
  <2>5. CASE of[i] # 0 /\ of[j] = 0
    <3>1. e[j] = r /\ j \in m .. m + n - 1 /\ i < m
      BY <1>3, <1>4, <1>7, <2>5
    <3> QED BY <1>5, <1>7, <2>1, <3>1
  <2> QED BY <2>2, <2>3, <2>4, <2>5
<1>10. n <= 1 => \A i, j \in 1 .. Len(e) : of[i] = 0 /\ of[j] = 0 => i = j
  <2> HAVE n <= 1
  <2> TAKE i, j \in 1 .. Len(e)
  <2> QED BY <1>3, <1>4, <1>7
<1>11. r.kind = "bury" =>
         \A i, j \in 1 .. Len(e) : of[i] = 0 /\ e[j].kind = "eliminate" => j < i
  <2> SUFFICES ASSUME r.kind = "bury", NEW i \in 1 .. Len(e), NEW j \in 1 .. Len(e),
                      of[i] = 0, e[j].kind = "eliminate"
               PROVE  j < i
    OBVIOUS
  <2>1. Priority[r.kind] = 50 /\ Priority[e[j].kind] = 50 /\ e[j] # r
    BY Priorities
  <2>2. of[j] # 0 /\ ~ (j >= m + n) /\ i >= m
    BY <1>4, <1>7, <2>1
  <2>3. ~ (j \in m .. m + n - 1)
    BY <1>7, <2>2
  <2> QED BY <1>3, <1>4, <2>2, <2>3
<1>12. Good(e)
  <2>1. Merged(q, e, r, n, of)
    BY <1>2, <1>6, <1>7, <1>8, <1>9, <1>10, <1>11 DEF Merged
  <2> QED BY <2>1, Merge
<1>13. \A k, p : Waiting(e, k, p) => Waiting(q, k, p) \/ (n > 0 /\ k = r.kind /\ p = r.who)
  <2> SUFFICES ASSUME NEW i \in 1 .. Len(e)
               PROVE  \/ \E j \in DOMAIN q : e[i] = q[j]
                      \/ n > 0 /\ e[i] = r
    BY <1>4 DEF Waiting
  <2>1. CASE of[i] = 0
    BY <1>3, <1>4, <1>7, <2>1
  <2>2. CASE of[i] # 0
    BY <1>3, <1>6, <1>7, <2>2
  <2> QED BY <2>1, <2>2
<1>14. \A k, p : Waiting(q, k, p) => Waiting(e, k, p)
  <2> SUFFICES ASSUME NEW j \in DOMAIN q
               PROVE  \E i \in DOMAIN e : e[i] = q[j]
    BY DEF Waiting
  <2>1. CASE j < m
    <3>1. j \in DOMAIN e /\ e[j] = q[j]
      BY <1>2, <1>3, <2>1
    <3> QED BY <3>1
  <2>2. CASE j >= m
    <3>1. j + n \in DOMAIN e /\ e[j + n] = q[j]
      BY <1>2, <1>3, <2>2
    <3> QED BY <3>1
  <2> QED BY <1>3, <2>1, <2>2
<1>15. \A k, p : n > 0 /\ k = r.kind /\ p = r.who => Waiting(e, k, p)
  <2> SUFFICES ASSUME n > 0 PROVE Waiting(e, r.kind, r.who)
    OBVIOUS
  <2>1. m \in DOMAIN e /\ e[m] = r
    BY <1>2, <1>3
  <2> QED BY <2>1 DEF Waiting
<1> QED BY <1>0, <1>12, <1>13, <1>14, <1>15

LEMMA OneMore ==
  ASSUME NEW q, NEW r, Good(q), Joins(q, r)
  PROVE  /\ Good(Enqueue(q, r))
         /\ \A k, p : Waiting(Enqueue(q, r), k, p)
                        <=> Waiting(q, k, p) \/ (k = r.kind /\ p = r.who)
BY EnqueueGood DEF Enqueue

\* What is left when the top is popped.
LEMMA PopGood ==
  ASSUME NEW q, Good(q), q # <<>>
  PROVE  /\ Good(Tail(q))
         /\ Head(q) \in RequestSet
         /\ Head(q).kind # "start" => Head(q).who \in Player
         /\ Head(q).kind = "reward" => Head(q).by \in Player
         /\ \A k, p : Waiting(q, k, p)
                        <=> Waiting(Tail(q), k, p) \/ (k = Head(q).kind /\ p = Head(q).who)
         /\ \A k, p : Waiting(Tail(q), k, p)
              => k \in DOMAIN Priority /\ Priority[k] <= Priority[Head(q).kind]
         /\ Head(q).kind \in Hurt \cup {"eliminate"}
              => \A k \in Hurt \cup {"eliminate"} : ~Waiting(Tail(q), k, Head(q).who)
         /\ Head(q).kind \in Hurt \cup Burial
              => \A k \in Hurt \cup Burial : ~Waiting(Tail(q), k, Head(q).who)
         /\ Head(q).kind \in Burial => ~Waiting(Tail(q), "eliminate", Head(q).who)
<1> DEFINE t == Tail(q)
           h == Head(q)
<1>1. /\ q \in Seq(RequestSet) /\ Len(q) \in Nat /\ DOMAIN q = 1 .. Len(q)
      /\ \A i \in DOMAIN q : q[i] \in RequestSet /\ q[i].kind \in DOMAIN Priority
                             /\ Priority[q[i].kind] \in Int
  BY QueueType DEF Good
<1>2. /\ Len(q) >= 1 /\ h = q[1] /\ t \in Seq(RequestSet) /\ Len(t) = Len(q) - 1
      /\ \A i \in 1 .. Len(t) : t[i] = q[i + 1]
  BY <1>1, HeadTailProperties, EmptySeq
<1>3. DOMAIN t = 1 .. Len(t)
  BY <1>2, LenProperties
<1> HIDE DEF t, h
<1>4. \A i \in DOMAIN t : i + 1 \in DOMAIN q /\ i + 1 > 1 /\ t[i] = q[i + 1]
  BY <1>1, <1>2, <1>3
<1>5. \A j \in DOMAIN q : j = 1 \/ \E i \in DOMAIN t : j = i + 1 /\ t[i] = q[j]
  <2> TAKE j \in DOMAIN q
  <2>1. j # 1 => j - 1 \in DOMAIN t /\ j = (j - 1) + 1
    BY <1>1, <1>2, <1>3
  <2> QED BY <1>4, <2>1
<1>6. \A i, j \in DOMAIN t : i < j <=> i + 1 < j + 1
  BY <1>3, <1>2, <1>1
<1>7. \A k, p : Waiting(t, k, p) => \E j \in DOMAIN q : 1 < j /\ q[j].kind = k /\ q[j].who = p
  BY <1>4 DEF Waiting
<1>8. Good(t)
  <2>1. Sorted(t)
    BY <1>4, <1>6 DEF Good, Sorted
  <2>2. \A kinds : One(q, kinds) => One(t, kinds)
    <3> SUFFICES ASSUME NEW kinds, One(q, kinds), NEW i \in DOMAIN t, NEW j \in DOMAIN t,
                        t[i].kind \in kinds, t[j].kind \in kinds, t[i].who = t[j].who
                 PROVE  i = j
      BY DEF One
    <3>1. i + 1 = j + 1
      BY <1>4 DEF One
    <3> QED BY <1>1, <1>2, <1>3, <3>1
  <2>3. OneDeath(t)
    BY <2>2 DEF Good, OneDeath
  <2>4. InOrder(t)
    BY <1>4, <1>6 DEF Good, InOrder
  <2>5. Known(t)
    BY <1>4 DEF Good, Known
  <2> QED BY <1>2, <2>1, <2>3, <2>4, <2>5 DEF Good
<1>9. 1 \in DOMAIN q
  BY <1>1, <1>2
<1>10. \A k, p : Waiting(q, k, p) <=> Waiting(t, k, p) \/ (k = h.kind /\ p = h.who)
  BY <1>2, <1>4, <1>5, <1>9 DEF Waiting
<1>11. \A k, p : Waiting(t, k, p) => k \in DOMAIN Priority /\ Priority[k] <= Priority[h.kind]
  BY <1>1, <1>2, <1>7, <1>9 DEF Good, Sorted
<1>12. h \in RequestSet /\ (h.kind # "start" => h.who \in Player)
         /\ (h.kind = "reward" => h.by \in Player)
  BY <1>1, <1>2, <1>9 DEF Good, Known
<1>13. \A kinds : One(q, kinds) /\ h.kind \in kinds => \A k \in kinds : ~Waiting(t, k, h.who)
  <2> SUFFICES ASSUME NEW kinds, One(q, kinds), h.kind \in kinds, NEW k \in kinds,
                      Waiting(t, k, h.who)
               PROVE  FALSE
    OBVIOUS
  <2>1. PICK j \in DOMAIN q : 1 < j /\ q[j].kind = k /\ q[j].who = h.who
    BY <1>7
  <2>2. 1 = j
    BY <1>2, <1>9, <2>1 DEF One
  <2> QED BY <2>1, <2>2
<1>14. h.kind \in Burial => ~Waiting(t, "eliminate", h.who)
  <2> SUFFICES ASSUME h.kind \in Burial, Waiting(t, "eliminate", h.who) PROVE FALSE
    OBVIOUS
  <2>1. PICK j \in DOMAIN q : 1 < j /\ q[j].kind = "eliminate" /\ q[j].who = h.who
    BY <1>7
  <2>2. j < 1
    BY <1>2, <1>9, <2>1 DEF Good, InOrder
  <2> QED BY <1>1, <2>1, <2>2
<1> QED BY <1>8, <1>10, <1>11, <1>12, <1>13, <1>14 DEF t, h, Good, OneDeath

\* A request put on top, by a draw! of predraw.
LEMMA PushGood ==
  ASSUME NEW q, NEW r, Good(q), Joins(q, r), r.kind # "bury",
         \A k, p : Waiting(q, k, p) => Priority[k] <= Priority[r.kind]
  PROVE  /\ Good(<<r>> \o q)
         /\ \A k, p : Waiting(<<r>> \o q, k, p)
                        <=> Waiting(q, k, p) \/ (k = r.kind /\ p = r.who)
<1>1. /\ q \in Seq(RequestSet) /\ Len(q) \in Nat /\ DOMAIN q = 1 .. Len(q)
      /\ \A i \in DOMAIN q : Priority[q[i].kind] \in Int
      /\ r \in RequestSet /\ Priority[r.kind] \in Int
  BY QueueType, PriorityInt DEF Good, Joins, RequestSet
<1>0. PICK e : e = <<r>> \o q
  OBVIOUS
<1>2. /\ e \in Seq(RequestSet) /\ Len(e) = Len(q) + 1 /\ DOMAIN e = 1 .. Len(q) + 1
      /\ e[1] = r /\ \A i \in 1 .. Len(e) : i # 1 => e[i] = q[i - 1]
  <2>1. <<r>> \in Seq(RequestSet) /\ Len(<<r>>) = 1 /\ <<r>>[1] = r
    BY <1>1
  <2>2. /\ e \in Seq(RequestSet) /\ Len(e) = 1 + Len(q)
        /\ \A i \in 1 .. 1 + Len(q) : e[i] = IF i <= 1 THEN <<r>>[i] ELSE q[i - 1]
    BY <1>0, <1>1, <2>1, ConcatProperties
  <2>3. DOMAIN e = 1 .. Len(q) + 1
    BY <1>1, <2>2, LenProperties
  <2>4. 1 \in 1 .. 1 + Len(q) /\ Len(e) = Len(q) + 1
    BY <1>1, <2>2
  <2>5. \A i \in 1 .. Len(e) : i # 1 => e[i] = q[i - 1]
    <3> SUFFICES ASSUME NEW i \in 1 .. Len(e), i # 1 PROVE e[i] = q[i - 1]
      OBVIOUS
    <3>1. i \in 1 .. 1 + Len(q) /\ ~ (i <= 1)
      BY <1>1, <2>4
    <3> QED BY <2>2, <3>1
  <2> QED BY <2>1, <2>2, <2>3, <2>4, <2>5
<1> DEFINE of == [i \in 1 .. Len(e) |-> i - 1]
<1>3. \A i \in 1 .. Len(e) : of[i] = i - 1 /\ (of[i] = 0 <=> i = 1)
  BY <1>1, <1>2
<1>4. of \in [1 .. Len(e) -> 0 .. Len(q)]
  BY <1>1, <1>2
<1> HIDE DEF of
<1>5. \A i \in 1 .. Len(e) : e[i] = IF of[i] = 0 THEN r ELSE q[of[i]]
  BY <1>2, <1>3
<1>6. \A i, j \in 1 .. Len(e) : i < j => Priority[e[i].kind] >= Priority[e[j].kind]
  <2> SUFFICES ASSUME NEW i \in 1 .. Len(e), NEW j \in 1 .. Len(e), i < j
               PROVE  Priority[e[i].kind] >= Priority[e[j].kind]
    OBVIOUS
  <2>1. j # 1 /\ j - 1 \in DOMAIN q /\ e[j] = q[j - 1] /\ Waiting(q, e[j].kind, e[j].who)
    <3>1. j # 1 /\ j - 1 \in DOMAIN q /\ e[j] = q[j - 1]
      BY <1>1, <1>2
    <3> QED BY <3>1 DEF Waiting
  <2>2. CASE i = 1
    <3>1. Priority[e[j].kind] <= Priority[r.kind] /\ Priority[e[j].kind] \in Int
      BY <1>1, <2>1
    <3> QED BY <1>1, <1>2, <2>2, <3>1
  <2>3. CASE i # 1
    <3>1. i - 1 \in DOMAIN q /\ e[i] = q[i - 1] /\ i - 1 < j - 1
      BY <1>1, <1>2, <2>3
    <3> QED BY <2>1, <3>1 DEF Good, Sorted
  <2> QED BY <2>2, <2>3
<1>7. Merged(q, e, r, 1, of)
  <2>1. \A i, j \in 1 .. Len(e) : i < j /\ of[i] # 0 /\ of[j] # 0 => of[i] < of[j]
    <3> TAKE i, j \in 1 .. Len(e)
    <3> QED BY <1>1, <1>2, <1>3
  <2>2. \A i, j \in 1 .. Len(e) : of[i] = 0 /\ of[j] = 0 => i = j
    BY <1>3
  <2> QED BY <1>2, <1>4, <1>5, <1>6, <2>1, <2>2 DEF Merged
<1>8. Good(e)
  BY <1>7, Merge
<1>9. \A k, p : Waiting(e, k, p) => Waiting(q, k, p) \/ (k = r.kind /\ p = r.who)
  <2> SUFFICES ASSUME NEW i \in 1 .. Len(e)
               PROVE  e[i] = r \/ \E j \in DOMAIN q : e[i] = q[j]
    BY <1>2 DEF Waiting
  <2>1. i # 1 => i - 1 \in DOMAIN q
    BY <1>1, <1>2
  <2> QED BY <1>2, <2>1
<1>10. \A k, p : Waiting(q, k, p) => Waiting(e, k, p)
  <2> SUFFICES ASSUME NEW j \in DOMAIN q PROVE \E i \in DOMAIN e : e[i] = q[j]
    BY DEF Waiting
  <2>1. j + 1 \in DOMAIN e /\ j + 1 # 1 /\ (j + 1) - 1 = j
    BY <1>1, <1>2
  <2>2. e[j + 1] = q[(j + 1) - 1]
    BY <1>2, <2>1
  <2> QED BY <2>1, <2>2
<1>11. Waiting(e, r.kind, r.who)
  <2>1. 1 \in DOMAIN e
    BY <1>1, <1>2
  <2> QED BY <1>2, <2>1 DEF Waiting
<1> QED BY <1>0, <1>8, <1>9, <1>10, <1>11

(***************************************************************************)
(* What a death, the end of a turn and its start queue.                    *)
(***************************************************************************)

Kinds == {"damage", "death", "eliminate", "bury", "discard_all", "reward", "start"}

\* e is q with requests of these kinds added.
Adds(q, e, kinds) ==
  /\ Good(e)
  /\ \A k, p : Waiting(q, k, p) => Waiting(e, k, p)
  /\ \A k, p : Waiting(e, k, p) => Waiting(q, k, p) \/ k \in kinds

\* A request that is not part of a death can always be queued.
LEMMA AddQuiet ==
  ASSUME game \in Games, NEW q, Good(q), NEW kind \in DOMAIN Priority \ Kinds,
         NEW p \in Player, NEW b \in Player \cup {None}, NEW n \in Nat
  PROVE  /\ Adds(q, EnqueueTimes(q, Request(kind, p, b), n), {kind})
         /\ Adds(q, Enqueue(q, Request(kind, p, b)), {kind})
         /\ Waiting(Enqueue(q, Request(kind, p, b)), kind, p)
<1> DEFINE r == Request(kind, p, b)
<1>1. r \in RequestSet /\ r.kind = kind /\ r.who = p
  BY DEF Request, RequestSet
<1>2. Joins(q, r)
  BY <1>1 DEF Joins, Kinds, Hurt, Burial
<1>3. r.kind \notin Hurt \cup Burial \cup {"eliminate"}
  BY <1>1 DEF Kinds, Hurt, Burial
<1> HIDE DEF r
<1>4. /\ Good(EnqueueTimes(q, r, n))
      /\ \A k, x : Waiting(EnqueueTimes(q, r, n), k, x)
                        <=> Waiting(q, k, x) \/ (n > 0 /\ k = r.kind /\ x = r.who)
  BY <1>2, <1>3, EnqueueGood
<1>5. /\ Good(Enqueue(q, r))
      /\ \A k, x : Waiting(Enqueue(q, r), k, x)
                        <=> Waiting(q, k, x) \/ (k = r.kind /\ x = r.who)
  BY <1>2, OneMore
<1> QED BY <1>1, <1>4, <1>5 DEF Adds, r

\* handle_player_death queues the elimination, the burial and the verdict.
LEMMA DeathGood ==
  ASSUME game \in Games, playing \in Player \cup {None}, NEW q, Good(q), NEW p \in Player,
         NEW killer \in Player \cup {None},
         \A k \in Hurt \cup Burial \cup {"eliminate"} : ~Waiting(q, k, p)
  PROVE  LET d == HandlePlayerDeath(p, killer, q)
         IN  /\ Good(d)
             /\ \A k, x : Waiting(q, k, x) => Waiting(d, k, x)
             /\ \A k \in {"eliminate", "bury", "verdict"} : Waiting(d, k, p)
             /\ \A k, x : Waiting(d, k, x) => Waiting(q, k, x)
                  \/ (k \in {"eliminate", "bury", "verdict", "reward"} /\ x = p)
<1> DEFINE credited == Credited(killer)
           r1 == Request("eliminate", p, credited)
           r2 == Request("reward", p, credited)
           r3 == Request("bury", p, None)
           r4 == Request("verdict", p, credited)
           out == Enqueue(q, r1)
           paid == IF credited # None THEN Enqueue(out, r2) ELSE out
           gone == Enqueue(paid, r3)
           d == Enqueue(gone, r4)
<1>1. credited \in Player \cup {None}
  BY DEF Credited
<1>2. d = HandlePlayerDeath(p, killer, q)
  BY DEF HandlePlayerDeath
<1> HIDE DEF credited
<1>3. /\ r1 \in RequestSet /\ r1.kind = "eliminate" /\ r1.who = p
      /\ r2 \in RequestSet /\ r2.kind = "reward" /\ r2.who = p /\ r2.by = credited
      /\ r3 \in RequestSet /\ r3.kind = "bury" /\ r3.who = p
      /\ r4 \in RequestSet /\ r4.kind = "verdict" /\ r4.who = p
  BY <1>1, Priorities DEF Request, RequestSet
<1> HIDE DEF r1, r2, r3, r4
<1>4. Joins(q, r1)
  BY <1>3 DEF Joins, Hurt, Burial
<1>5. /\ Good(out)
      /\ \A k, x : Waiting(out, k, x) <=> Waiting(q, k, x) \/ (k = "eliminate" /\ x = p)
  BY <1>3, <1>4, OneMore
<1>6. /\ Good(paid)
      /\ \A k, x : Waiting(out, k, x) => Waiting(paid, k, x)
      /\ \A k, x : Waiting(paid, k, x) => Waiting(out, k, x) \/ (k = "reward" /\ x = p)
  <2>1. CASE credited # None
    <3>1. Joins(out, r2)
      BY <1>1, <1>3, <2>1 DEF Joins, Hurt, Burial
    <3>2. paid = Enqueue(out, r2)
      BY <2>1
    <3> HIDE DEF paid, out
    <3> QED BY <1>3, <1>5, <3>1, <3>2, OneMore
  <2>2. CASE credited = None
    BY <1>5, <2>2
  <2> QED BY <2>1, <2>2
<1> HIDE DEF out, paid
<1>7. Joins(paid, r3)
  BY <1>3, <1>5, <1>6 DEF Joins, Hurt, Burial
<1>8. /\ Good(gone)
      /\ \A k, x : Waiting(gone, k, x) <=> Waiting(paid, k, x) \/ (k = "bury" /\ x = p)
  BY <1>3, <1>6, <1>7, OneMore
<1>9. Joins(gone, r4)
  BY <1>3 DEF Joins, Hurt, Burial
<1> HIDE DEF gone
<1>10. /\ Good(d)
       /\ \A k, x : Waiting(d, k, x) <=> Waiting(gone, k, x) \/ (k = "verdict" /\ x = p)
  BY <1>3, <1>8, <1>9, OneMore
<1> HIDE DEF d
<1> QED BY <1>2, <1>5, <1>6, <1>8, <1>10

LEMMA TurnEndAdds ==
  ASSUME game \in Games, NEW q, Good(q), NEW p \in Player, NEW skipped \in BOOLEAN
  PROVE  Adds(q, OnTurnEnd(p, skipped, q), {"check", "ghost_end"})
<1> DEFINE checked == IF ~skipped /\ "don_bell" \in Cards /\ "extra_turn" \notin flags[p]
                      THEN Enqueue(q, Request("check", p, None)) ELSE q
           ended == IF scenario = "ghost_town"
                    THEN Enqueue(checked, Request("ghost_end", p, None)) ELSE checked
<1>1. {"check", "ghost_end"} \subseteq DOMAIN Priority \ Kinds
  BY Priorities DEF Kinds
<1>2. Adds(q, checked, {"check"})
  BY <1>1, AddQuiet DEF Adds
<1> HIDE DEF checked
<1>3. Adds(checked, ended, {"ghost_end"})
  BY <1>1, <1>2, AddQuiet DEF Adds
<1>4. ended = OnTurnEnd(p, skipped, q)
  BY DEF OnTurnEnd, checked
<1> HIDE DEF ended
<1> QED BY <1>2, <1>3, <1>4 DEF Adds

(***************************************************************************)
(* Seats.                                                                  *)
(***************************************************************************)

\* Going round a table of m seats, everyone is passed once.
LEMMA Round ==
  ASSUME NEW m \in 3 .. 8, NEW a \in 0 .. m - 1, NEW b \in 0 .. m - 1, NEW d \in {1, -1}
  PROVE  /\ \E n \in 1 .. m : (a + d * n) % m = b
         /\ \E n \in m + 1 .. 2 * m : (a + d * n) % m = b
<1> DEFINE c == IF d = 1 THEN IF b > a THEN b - a ELSE b - a + m
                ELSE IF a > b THEN a - b ELSE a - b + m
<1>1. c \in 1 .. m /\ c + m \in m + 1 .. 2 * m
  OBVIOUS
<1>2. (a + d * c) % m = b /\ (a + d * (c + m)) % m = b
  <2>1. CASE m = 3
    BY <2>1
  <2>2. CASE m = 4
    BY <2>2
  <2>3. CASE m = 5
    BY <2>3
  <2>4. CASE m = 6
    BY <2>4
  <2>5. CASE m = 7
    BY <2>5
  <2>6. CASE m = 8
    BY <2>6
  <2> QED BY <2>1, <2>2, <2>3, <2>4, <2>5, <2>6
<1> HIDE DEF c
<1> QED BY <1>1, <1>2

LEMMA Positions ==
  ASSUME game \in Games, order \in [Player -> Player], Seated, NEW p \in Player
  PROVE  /\ PositionOf(p) \in Player /\ order[PositionOf(p)] = p
         /\ \A n \in Int : Seat(p, n) \in Player
         /\ \A s \in Player, d \in {1, -1} :
              /\ \E n \in 1 .. N : Seat(p, d * n) = s
              /\ \E n \in N + 1 .. 2 * N : Seat(p, d * n) = s
<1>1. N \in 3 .. 8 /\ Player = 1 .. N
  BY Sizes
<1>2. PositionOf(p) \in Player /\ order[PositionOf(p)] = p
  BY DEF PositionOf, Seated
<1> DEFINE a == PositionOf(p) - 1
<1>3. a \in 0 .. N - 1
  <2>1. PositionOf(p) \in 1 .. N
    BY <1>1, <1>2
  <2> QED BY <1>1, <2>1
<1>4. \A n : Seat(p, n) = order[((a + n) % N) + 1]
  BY DEF Seat
<1> HIDE DEF a
<1>5. \A n \in Int : Seat(p, n) \in Player
  <2> TAKE n \in Int
  <2>1. a + n \in Int
    BY <1>1, <1>3
  <2>2. (a + n) % N \in 0 .. N - 1
    BY <1>1, <2>1
  <2>3. ((a + n) % N) + 1 \in 1 .. N
    <3>1. PICK x \in 0 .. N - 1 : x = (a + n) % N
      BY <2>2
    <3>2. x + 1 \in 1 .. N
      BY <1>1
    <3> QED BY <3>1, <3>2
  <2> QED BY <1>1, <1>4, <2>3
<1>6. ASSUME NEW s \in Player, NEW d \in {1, -1}
      PROVE  /\ \E n \in 1 .. N : Seat(p, d * n) = s
             /\ \E n \in N + 1 .. 2 * N : Seat(p, d * n) = s
  <2>1. PICK i \in Player : order[i] = s
    BY DEF Seated
  <2>2. i - 1 \in 0 .. N - 1 /\ (i - 1) + 1 = i
    BY <1>1
  <2>3. PICK n \in 1 .. N : (a + d * n) % N = i - 1
    BY <1>1, <1>3, <2>2, Round
  <2>4. PICK k \in N + 1 .. 2 * N : (a + d * k) % N = i - 1
    BY <1>1, <1>3, <2>2, Round
  <2>5. Seat(p, d * n) = s /\ Seat(p, d * k) = s
    BY <1>4, <2>1, <2>2, <2>3, <2>4
  <2> QED BY <2>5
<1> QED BY <1>2, <1>5, <1>6

LEMMA Farther ==
  ASSUME game \in Games, order \in [Player -> Player], Seated, NEW p \in Player,
         NEW s \in Player, NEW d \in {1, -1}
  PROVE  \E n \in N + 1 .. 2 * N : Seat(p, d * n) = s
BY Positions

\* The first of a set of numbers, as CHOOSE names it.
LEMMA FirstOne ==
  ASSUME NEW T, T \subseteq Nat \ {0}, T # {}
  PROVE  \E m \in T : \A k \in 1 .. m - 1 : k \notin T
<1>1. PICK m \in T : \A k \in T : m <= k
  BY Least
<1> QED BY <1>1

LEMMA Directions == Direction \in {1, -1} /\ -Direction \in {1, -1}
<1>1. Direction = 1 \/ Direction = -1
  BY DEF Direction
<1> QED BY <1>1

\* Whoever else is alive is found.
LEMMA Neighbour ==
  ASSUME game \in Games, order \in [Player -> Player], Seated, NEW p \in Player,
         NEW d \in {1, -1}, NEW s \in AlivePlayers
  PROVE  NearestAlive(p, d) \in AlivePlayers
<1> DEFINE T == {n \in 1 .. N : Alive(Seat(p, d * n))}
           m == CHOOSE n \in 1 .. N :
                  /\ Alive(Seat(p, d * n))
                  /\ \A k \in 1 .. n - 1 : ~Alive(Seat(p, d * k))
<1>1. N \in 3 .. 8 /\ s \in Player /\ Alive(s)
  BY Sizes DEF AlivePlayers
<1>2. T # {}
  <2>1. PICK n \in 1 .. N : Seat(p, d * n) = s
    BY <1>1, Positions
  <2> QED BY <1>1, <2>1
<1>3. T \subseteq Nat \ {0}
  BY <1>1
<1>4. PICK i \in T : \A k \in 1 .. i - 1 : k \notin T
  BY <1>2, <1>3, FirstOne
<1>5. \A k \in 1 .. i - 1 : ~Alive(Seat(p, d * k))
  BY <1>1, <1>4
<1>6. m \in 1 .. N /\ Alive(Seat(p, d * m))
  BY <1>4, <1>5
<1> HIDE DEF m
<1>7. d * m \in Int
  BY <1>1, <1>6
<1>8. Seat(p, d * m) \in Player
  BY <1>7, Positions
<1>9. NearestAlive(p, d) = Seat(p, d * m)
  BY DEF NearestAlive, m
<1> QED BY <1>6, <1>8, <1>9 DEF AlivePlayers

(***************************************************************************)
(* The next turn.                                                          *)
(***************************************************************************)

Flag == {"dead", "temp_ghost", "ghost", "extra_turn", "skip_turn"}

\* f is m_player_flags but for what has no part in who is alive.
SameLives(f) ==
  f \in [Player -> SUBSET Flag] /\ \A p \in Player : AliveWith(f[p]) <=> Alive(p)

\* Nobody dies or changes roles.
Steady ==
  /\ \A p \in Player : Alive(p) => Alive(p)' /\ roles'[p] = roles[p]
  /\ \A p \in Player : p \in holds' => p \in holds \/ Alive(p)'

LEMMA ReviverIs ==
  ASSUME NEW p, Reviver(p) # None
  PROVE  Reviver(p) \in {"ghost_town", "dead_man", "bone_orchard"} /\ ~Alive(p)
BY DEF Reviver

LEMMA StartOfTurnAdds ==
  ASSUME game \in Games, NEW q, Good(q), NEW p \in Player, StartOfTurn(p, q)
  PROVE  playing' = p /\ Adds(q, queue', {"pre_turn", "turn_start"})
<1> DEFINE s == Enqueue(q, Request("pre_turn", p, None))
<1>1. {"pre_turn", "turn_start"} \subseteq DOMAIN Priority \ Kinds
  BY Priorities DEF Kinds
<1>2. Adds(q, s, {"pre_turn"})
  BY <1>1, AddQuiet
<1>3. queue' = Enqueue(s, Request("turn_start", p, None)) /\ playing' = p
  BY DEF StartOfTurn
<1> HIDE DEF s
<1>4. Adds(s, queue', {"turn_start"})
  BY <1>1, <1>2, <1>3, AddQuiet DEF Adds
<1> QED BY <1>2, <1>3, <1>4 DEF Adds

\* Who is revived.
LEMMA Revival ==
  ASSUME TypeOK, LargeRoles, NEW p \in Player, NEW f, SameLives(f), Revive(p, f), game' = game
  PROVE  /\ Steady
         /\ roles' \in [Player -> Role] /\ flags' \in [Player -> SUBSET Flag]
         /\ hp' \in [Player -> Int] /\ holds' \subseteq Player
         /\ LargeRoles'
<1> USE DEF TypeOK, SameLives
<1>0. Player' = Player /\ N' = N /\ N \in 3 .. 8
  BY Sizes, SameGame
<1>1. None \notin AllCards
  BY TurnFlowAssumption
<1>2. CASE Reviver(p) = None
  <2>1. flags' = f /\ UNCHANGED <<roles, hp, holds>>
    BY <1>1, <1>2 DEF Revive, AllCards, ScenarioCards, WildWestCards
  <2>2. Steady
    BY <2>1 DEF Steady, Alive
  <2> QED BY <1>0, <2>1, <2>2 DEF LargeRoles, Flag
<1>3. CASE Reviver(p) = "ghost_town"
  <2>1. flags' = [f EXCEPT ![p] = @ \cup {"temp_ghost"}] /\ UNCHANGED <<roles, hp, holds>>
    BY <1>1, <1>3 DEF Revive, AllCards, ScenarioCards, WildWestCards
  <2>2. flags' \in [Player -> SUBSET Flag]
    BY <2>1 DEF Flag
  <2>3. Steady
    BY <2>1 DEF Steady, Alive, AliveWith
  <2> QED BY <1>0, <2>1, <2>2, <2>3 DEF LargeRoles
<1>4. CASE Reviver(p) = "dead_man"
  <2>1. /\ flags' = [f EXCEPT ![p] = @ \ {"dead"}] /\ hp' = [hp EXCEPT ![p] = 2]
        /\ holds' = holds \cup {p} /\ UNCHANGED roles
    BY <1>1, <1>4 DEF Revive, AllCards, ScenarioCards, WildWestCards
  <2>2. flags' \in [Player -> SUBSET Flag]
    BY <2>1 DEF Flag
  <2>3. Steady
    BY <2>1 DEF Steady, Alive, AliveWith
  <2> QED BY <1>0, <2>1, <2>2, <2>3 DEF LargeRoles
<1>5. CASE Reviver(p) = "bone_orchard"
  <2>1. /\ flags' = [f EXCEPT ![p] = @ \ {"dead"}] /\ hp' = [hp EXCEPT ![p] = 1]
        /\ roles' \in Shuffled(Player \ AlivePlayers) /\ UNCHANGED holds
    BY <1>1, <1>5 DEF Revive, AllCards, ScenarioCards, WildWestCards
  <2>2. flags' \in [Player -> SUBSET Flag]
    BY <2>1 DEF Flag
  <2>3. PICK g \in [Player \ AlivePlayers -> Player \ AlivePlayers] :
          roles' = [x \in Player |->
                      IF x \in Player \ AlivePlayers THEN roles[g[x]] ELSE roles[x]]
    BY <2>1 DEF Shuffled
  <2>4. roles' \in [Player -> Role]
    BY <2>3
  <2>5. LargeRoles'
    BY <1>0, <2>3 DEF LargeRoles
  <2>6. \A x \in Player : Alive(x) => roles'[x] = roles[x]
    BY <2>3 DEF AlivePlayers
  <2>7. Steady
    BY <2>1, <2>6 DEF Steady, Alive, AliveWith
  <2> QED BY <1>0, <2>1, <2>2, <2>4, <2>5, <2>7
<1> QED BY <1>2, <1>3, <1>4, <1>5, ReviverIs

LEMMA NextTurn ==
  ASSUME TypeOK, LargeRoles, Seated, NEW f, SameLives(f), NEW q, Good(q),
         StartNextTurn(f, q), game' = game
  PROVE  /\ Adds(q, queue', {"pre_turn", "turn_start"})
         /\ playing' \in Player \/ (playing' = playing /\ queue' = q)
         /\ AlivePlayers # {} => playing' \in Player
         /\ Steady /\ LargeRoles'
         /\ roles' \in [Player -> Role] /\ flags' \in [Player -> SUBSET Flag]
         /\ hp' \in [Player -> Int] /\ holds' \subseteq Player
         /\ scenario' \in ScenarioCards \cup {None} /\ deck' \subseteq ScenarioCards
<1>0. /\ game \in Games /\ N \in 3 .. 8 /\ Player = 1 .. N /\ Player' = Player /\ N' = N
      /\ None \notin Player
  BY Sizes, SameGame DEF TypeOK
<1>1. CASE AlivePlayers = {}
  <2>1. /\ flags' = f /\ queue' = q
        /\ UNCHANGED <<playing, roles, hp, holds, scenario, deck>>
    BY <1>1 DEF StartNextTurn
  <2>2. Steady
    BY <2>1 DEF Steady, Alive, SameLives
  <2>3. LargeRoles'
    BY <1>0, <2>1 DEF LargeRoles
  <2> QED BY <1>0, <1>1, <2>1, <2>2, <2>3 DEF Adds, TypeOK, SameLives
<1>2. CASE AlivePlayers # {}
  <2> DEFINE SeatAt(n) == Seat(playing, Direction * n)
             Skipped(n) == n <= N /\ "skip_turn" \in f[SeatAt(n)]
             Takes(n) == ~Skipped(n) /\ (Alive(SeatAt(n)) \/ Reviver(SeatAt(n)) # None)
             n0 == CHOOSE n \in 1 .. 2 * N : Takes(n) /\ \A k \in 1 .. n - 1 : ~Takes(k)
             next == IF playing = None THEN first ELSE SeatAt(n0)
             passed == IF playing = None THEN {}
                       ELSE {SeatAt(n) : n \in 1 .. (IF n0 <= N THEN n0 - 1 ELSE N)}
             g == [p \in Player |-> IF p \in passed THEN f[p] \ {"skip_turn"} ELSE f[p]]
  <2>1. Revive(next, g) /\ StartOfTurn(next, q) /\ SwitchTurn(next)
    BY <1>2 DEF StartNextTurn
  <2>2. next \in Player
    <3>1. CASE playing = None
      BY <3>1 DEF TypeOK
    <3>2. CASE playing \in Player
      <4> DEFINE T == {n \in 1 .. 2 * N : Takes(n)}
      <4>1. PICK s \in Player : Alive(s)
        BY <1>2 DEF AlivePlayers
      <4>d. PICK d \in {1, -1} : d = Direction
        BY Directions
      <4>o. game \in Games /\ order \in [Player -> Player]
        BY DEF TypeOK
      <4>p. PICK p \in Player : p = playing
        BY <3>2
      <4>2. PICK n \in N + 1 .. 2 * N : Seat(p, d * n) = s
        BY <4>o, Farther
      <4>3. Takes(n) /\ n \in 1 .. 2 * N
        BY <1>0, <4>d, <4>p, <4>1, <4>2
      <4> HIDE DEF Takes
      <4>4. T # {} /\ T \subseteq Nat \ {0}
        BY <1>0, <4>3
      <4>5. PICK m \in T : \A k \in 1 .. m - 1 : k \notin T
        BY <4>4, FirstOne
      <4>6. m \in 1 .. 2 * N /\ Takes(m) /\ \A k \in 1 .. m - 1 : ~Takes(k)
        BY <1>0, <4>5
      <4>7. n0 \in 1 .. 2 * N
        BY <4>6
      <4> HIDE DEF n0
      <4>8. Direction * n0 \in Int
        BY <1>0, <4>7, Directions
      <4>9. SeatAt(n0) \in Player
        BY <1>0, <3>2, <4>8, Positions DEF TypeOK
      <4> QED BY <1>0, <3>2, <4>9
    <3> QED BY <3>1, <3>2 DEF TypeOK
  <2> HIDE DEF next, passed
  <2>3. SameLives(g)
    <3>1. g \in [Player -> SUBSET Flag]
      BY DEF SameLives
    <3>2. \A p \in Player : AliveWith(g[p]) <=> AliveWith(f[p])
      BY DEF AliveWith
    <3> HIDE DEF g
    <3> QED BY <3>1, <3>2 DEF SameLives
  <2> HIDE DEF g
  <2>4. /\ Steady /\ LargeRoles'
        /\ roles' \in [Player -> Role] /\ flags' \in [Player -> SUBSET Flag]
        /\ hp' \in [Player -> Int] /\ holds' \subseteq Player
    BY <2>1, <2>2, <2>3, Revival
  <2>5. playing' = next /\ Adds(q, queue', {"pre_turn", "turn_start"})
    BY <1>0, <2>1, <2>2, StartOfTurnAdds
  <2>6. scenario' \in ScenarioCards \cup {None} /\ deck' \subseteq ScenarioCards
    BY <2>1 DEF SwitchTurn, TypeOK
  <2> QED BY <2>2, <2>4, <2>5, <2>6
<1> QED BY <1>1, <1>2

(***************************************************************************)
(* Who has won.                                                            *)
(***************************************************************************)

LEMMA AliveIsFinite ==
  game \in Games => IsFiniteSet(AlivePlayers) /\ Cardinality(AlivePlayers) \in Nat
<1> SUFFICES ASSUME game \in Games
             PROVE  IsFiniteSet(AlivePlayers) /\ Cardinality(AlivePlayers) \in Nat
  OBVIOUS
<1>1. N \in Int /\ Player = 1 .. N
  BY Sizes
<1>2. IsFiniteSet(Player)
  BY <1>1, FS_Interval
<1>3. AlivePlayers \subseteq Player
  BY DEF AlivePlayers
<1>4. IsFiniteSet(AlivePlayers)
  BY <1>2, <1>3, FS_Subset
<1> QED BY <1>4, FS_CardinalityType

LEMMA AtMostOne ==
  game \in Games =>
    (Cardinality(AlivePlayers) <= 1 <=> \A x, y \in Player : Alive(x) /\ Alive(y) => x = y)
<1> SUFFICES ASSUME game \in Games
             PROVE  Cardinality(AlivePlayers) <= 1
                      <=> \A x, y \in Player : Alive(x) /\ Alive(y) => x = y
  OBVIOUS
<1>1. IsFiniteSet(AlivePlayers) /\ Cardinality(AlivePlayers) \in Nat
  BY AliveIsFinite
<1>2. \A x : x \in AlivePlayers <=> x \in Player /\ Alive(x)
  BY DEF AlivePlayers
<1>3. ASSUME Cardinality(AlivePlayers) <= 1
      PROVE  \A x, y \in Player : Alive(x) /\ Alive(y) => x = y
  <2>1. Cardinality(AlivePlayers) = 0 \/ Cardinality(AlivePlayers) = 1
    BY <1>1, <1>3
  <2>2. AlivePlayers = {} \/ \E z : AlivePlayers = {z}
    BY <1>1, <2>1, FS_EmptySet, FS_Singleton
  <2> QED BY <1>2, <2>2
<1>4. ASSUME \A x, y \in Player : Alive(x) /\ Alive(y) => x = y
      PROVE  Cardinality(AlivePlayers) <= 1
  <2>1. AlivePlayers = {} \/ \E z : AlivePlayers = {z}
    BY <1>2, <1>4
  <2>2. Cardinality(AlivePlayers) = 0 \/ Cardinality(AlivePlayers) = 1
    BY <1>1, <2>1, FS_EmptySet, FS_Singleton
  <2> QED BY <2>2
<1> QED BY <1>3, <1>4

LEMMA DecidedIs ==
  game \in Games =>
    (Decided <=>
       IF FreeForAll \/ N <= 3
       THEN \A x, y \in Player : Alive(x) /\ Alive(y) => x = y
       ELSE \/ \A x \in Player : Alive(x) => roles[x] # "sheriff"
            \/ \A x \in Player : Alive(x) => roles[x] \notin {"outlaw", "renegade"})
<1>1. \A S : AlivePlayers \cap Team(S) = {} <=> \A x \in Player : Alive(x) => roles[x] \notin S
  BY DEF AlivePlayers, Team
<1> QED BY <1>1, AtMostOne DEF Decided

\* Nobody wins while nobody dies.
LEMMA StillOpen ==
  ASSUME game \in Games, game' = game, wws' = wws,
         \A x \in Player : Alive(x) => Alive(x)' /\ roles'[x] = roles[x]
  PROVE  Decided' => Decided
<1>1. Player' = Player /\ N' = N /\ (FreeForAll' <=> FreeForAll)
  BY SameGame DEF FreeForAll
<1>2. (game \in Games =>
         (Decided <=>
            IF FreeForAll \/ N <= 3
            THEN \A x, y \in Player : Alive(x) /\ Alive(y) => x = y
            ELSE \/ \A x \in Player : Alive(x) => roles[x] # "sheriff"
                 \/ \A x \in Player : Alive(x) => roles[x] \notin {"outlaw", "renegade"}))'
  BY DecidedIs, PTL
<1>3. Decided' <=>
        IF FreeForAll \/ N <= 3
        THEN \A x, y \in Player : Alive(x)' /\ Alive(y)' => x = y
        ELSE \/ \A x \in Player : Alive(x)' => roles'[x] # "sheriff"
             \/ \A x \in Player : Alive(x)' => roles'[x] \notin {"outlaw", "renegade"}
  BY <1>1, <1>2
<1> QED BY <1>3, DecidedIs

(***************************************************************************)
(* What every step has to show.                                            *)
(***************************************************************************)

\* What most steps leave alone.
Frame ==
  /\ game' = game /\ playing # None /\ playing' # None /\ winners = None /\ winners' = None
  /\ first' = first /\ wws' = wws /\ wwsDeck' = wwsDeck
  /\ Seated' /\ LargeRoles'

\* Nobody dies without a burial and a verdict to come.
Accounted ==
  /\ \A x \in Player : Waiting(queue', "eliminate", x)
       => Waiting(queue', "bury", x) /\ Waiting(queue', "verdict", x)
  /\ \A x \in Player : x \in holds' /\ ~Alive(x)'
       => Waiting(queue', "bury", x) \/ Waiting(queue', "discard_all", x)
  /\ \A x \in Player : Waiting(queue, "verdict", x) => Waiting(queue', "verdict", x)
  /\ \A x \in Player : Alive(x)
       => (Alive(x)' /\ roles'[x] = roles[x]) \/ Waiting(queue', "verdict", x)

LEMMA Lives ==
  ASSUME IInv, Frame, TypeOK', Good(queue'), Accounted
  PROVE  IInv'
<1> USE DEF Frame, Accounted
<1>1. game \in Games /\ first \in Player
  BY DEF IInv, TypeOK
<1>2. Player' = Player /\ N' = N /\ RequestSet' = RequestSet
  BY SameGame
<1>3. Good(queue)'
  BY <1>2 DEF Good, Sorted, OneDeath, One, InOrder, Known
<1>4. Mourned'
  BY <1>2 DEF Mourned, Waiting
<1>5. Buried'
  BY <1>2 DEF Buried, Waiting, Alive
<1>6. FirstLives'
  <2>1. ~Alive(first)' => Waiting(queue', "verdict", first)
    BY <1>1 DEF IInv, FirstLives, Alive
  <2> QED BY <2>1 DEF FirstLives, Waiting, Alive
<1>7. Undecided'
  <2> SUFFICES ASSUME Decided', \A x \in Player : ~Waiting(queue', "verdict", x)
               PROVE  FALSE
    BY <1>2 DEF Undecided, Waiting
  <2>1. \A x \in Player : Alive(x) => Alive(x)' /\ roles'[x] = roles[x]
    OBVIOUS
  <2>2. Decided
    BY <1>1, <2>1, StillOpen
  <2> QED BY <2>2 DEF IInv, Undecided
<1>8. ShowIsLast'
  BY DEF IInv, ShowIsLast, FreeForAll
<1>9. Fresh'
  BY DEF Fresh
<1> QED BY <1>3, <1>4, <1>5, <1>6, <1>7, <1>8, <1>9 DEF IInv

Deadly == {"eliminate", "bury", "discard_all", "verdict"}

\* A step in which nobody dies, is buried or has a verdict.
LEMMA Quiet ==
  ASSUME IInv, Frame, Steady, TypeOK', Good(queue'),
         \A k \in Deadly, x \in Player : Waiting(queue', k, x) <=> Waiting(queue, k, x)
  PROVE  IInv'
<1>1. \A x \in Player : Waiting(queue', "eliminate", x)
        => Waiting(queue', "bury", x) /\ Waiting(queue', "verdict", x)
  BY DEF Deadly, IInv, Mourned
<1>2. \A x \in Player : x \in holds' /\ ~Alive(x)'
        => Waiting(queue', "bury", x) \/ Waiting(queue', "discard_all", x)
  BY DEF Deadly, IInv, Buried, Steady
<1>3. \A x \in Player : Waiting(queue, "verdict", x) => Waiting(queue', "verdict", x)
  BY DEF Deadly
<1>4. \A x \in Player : Alive(x) => Alive(x)' /\ roles'[x] = roles[x]
  BY DEF Steady
<1>5. Accounted
  BY <1>1, <1>2, <1>3, <1>4 DEF Accounted
<1> QED BY <1>5, Lives

\* What is known of the request on top.
LEMMA Topmost ==
  ASSUME IInv, NEW kind, Top(kind)
  PROVE  /\ winners = None /\ Head(queue).kind = kind
         /\ kind # "start" => playing # None /\ who \in Player
         /\ kind = "reward" => by \in Player
         /\ by \in Player \cup {None}
         /\ Good(Popped)
         /\ \A k, p : Waiting(queue, k, p) <=> Waiting(Popped, k, p) \/ (k = kind /\ p = who)
         /\ \A k, p : Waiting(Popped, k, p)
              => k \in DOMAIN Priority /\ Priority[k] <= Priority[kind]
         /\ kind \in Hurt \cup {"eliminate"}
              => \A k \in Hurt \cup {"eliminate"} : ~Waiting(Popped, k, who)
         /\ kind \in Hurt \cup Burial => \A k \in Hurt \cup Burial : ~Waiting(Popped, k, who)
         /\ kind \in Burial => ~Waiting(Popped, "eliminate", who)
<1>1. winners = None /\ queue # <<>> /\ Head(queue).kind = kind
  BY DEF Top
<1>2. Good(queue)
  BY DEF IInv
<1>3. kind # "start" => playing # None
  <2>1. playing = None => queue = <<Request("start", None, None)>>
    BY DEF IInv, Fresh
  <2>2. Head(<<Request("start", None, None)>>).kind = "start"
    BY DEF Request
  <2> QED BY <1>1, <2>1, <2>2
<1>4. Head(queue) \in RequestSet
  BY <1>1, <1>2, PopGood
<1>5. Head(queue).by \in Player \cup {None}
  BY <1>4 DEF RequestSet
<1> QED BY <1>1, <1>2, <1>3, <1>5, PopGood DEF who, by, Popped

\* The request on top is run, and nobody dies.
LEMMA QuietPop ==
  ASSUME IInv, NEW kind, Top(kind), kind \notin Deadly, NEW K, Adds(Popped, queue', K),
         K \cap Deadly = {}, Frame, Steady, TypeOK'
  PROVE  IInv'
<1>1. \A k \in Deadly, x \in Player : Waiting(queue', k, x) <=> Waiting(queue, k, x)
  BY Topmost DEF Adds
<1>2. Good(queue')
  BY DEF Adds
<1> QED BY <1>1, <1>2, Quiet

(***************************************************************************)
(* Types and frames.                                                       *)
(***************************************************************************)

LEMMA Typed ==
  ASSUME TypeOK, game' = game, Good(queue'),
         playing' \in Player \cup {None}, first' \in Player, order' \in [Player -> Player],
         roles' \in [Player -> Role], flags' \in [Player -> SUBSET Flag],
         hp' \in [Player -> Int], holds' \subseteq Player, extra' \in [Player -> Nat],
         scenario' \in ScenarioCards \cup {None}, deck' \subseteq ScenarioCards,
         wws' \in WildWestCards \cup {None}, wwsDeck' \subseteq WildWestCards,
         used' \in BOOLEAN, firstDead' \in Player \cup {None},
         winners' = None \/ winners' \subseteq Player
  PROVE  TypeOK'
<1>1. Player' = Player /\ RequestSet' = RequestSet
  BY SameGame
<1>2. queue' \in Seq([kind : DOMAIN Priority, who : Player \cup {None}, by : Player \cup {None}])
  BY DEF Good, RequestSet
<1> QED BY <1>1, <1>2 DEF TypeOK, Flag

\* Nobody moves, and no card is turned.
LEMMA SameFrame ==
  ASSUME IInv, playing # None, winners = None,
         UNCHANGED <<game, playing, first, order, roles, wws, wwsDeck, winners>>
  PROVE  Frame
<1>1. Player' = Player /\ N' = N
  BY SameGame
<1>2. Seated'
  BY <1>1 DEF IInv, Seated
<1>3. LargeRoles'
  BY <1>1 DEF IInv, LargeRoles
<1> QED BY <1>2, <1>3 DEF Frame

\* A step that changes the queue alone.
LEMMA QueueOnly ==
  ASSUME IInv, playing # None, winners = None, Good(queue'),
         UNCHANGED <<playing, first, playerVars, tableVars, firstDead, winners>>
  PROVE  Frame /\ Steady /\ TypeOK'
<1> USE DEF playerVars, tableVars
<1>1. Frame
  BY SameFrame
<1>2. Steady
  BY DEF Steady, Alive
<1>3. TypeOK
  BY DEF IInv
<1>4. TypeOK'
  BY <1>3, Typed DEF TypeOK, Flag
<1> QED BY <1>1, <1>2, <1>4

LEMMA AddsNothing == \A q : Good(q) => Adds(q, q, {})
BY DEF Adds

LEMMA AddsWeaken ==
  ASSUME NEW q, NEW e, NEW K, NEW L, Adds(q, e, K), K \subseteq L
  PROVE  Adds(q, e, L)
BY DEF Adds

(***************************************************************************)
(* The steps of a turn.                                                    *)
(***************************************************************************)

LEMMA PreTurnKeeps == ASSUME IInv, PreTurn PROVE IInv'
<1>1. /\ Top("pre_turn") /\ playing # None /\ winners = None /\ who \in Player /\ Good(Popped)
      /\ UNCHANGED <<playing, first, playerVars, tableVars, firstDead, winners>>
  BY Topmost DEF PreTurn
<1>2. game \in Games
  BY DEF IInv, TypeOK
<1>3. game.maxHit \in Nat
  BY <1>2, TurnFlowAssumption
<1>4. PICK bangs \in Nat :
        queue' = Enqueue(EnqueueTimes(Popped, Request("bang", who, None), bangs),
                         Request("predraw", who, None))
  BY <1>3 DEF PreTurn
<1> DEFINE s == EnqueueTimes(Popped, Request("bang", who, None), bangs)
<1>5. "bang" \in DOMAIN Priority \ Kinds /\ "predraw" \in DOMAIN Priority \ Kinds
  BY Priorities DEF Kinds
<1>6. Adds(Popped, s, {"bang"})
  BY <1>1, <1>2, <1>5, AddQuiet
<1> HIDE DEF s
<1>7. Adds(s, queue', {"predraw"})
  BY <1>1, <1>2, <1>4, <1>5, <1>6, AddQuiet DEF Adds, s
<1>8. Adds(Popped, queue', {"bang", "predraw"})
  BY <1>6, <1>7 DEF Adds
<1>9. Frame /\ Steady /\ TypeOK'
  BY <1>1, <1>8, QueueOnly DEF Adds
<1>10. {"bang", "predraw"} \cap Deadly = {} /\ "pre_turn" \notin Deadly
  BY DEF Deadly
<1> QED BY <1>1, <1>8, <1>9, <1>10, QuietPop

LEMMA PredrawKeeps == ASSUME IInv, Predraw PROVE IInv'
<1>1. /\ Top("predraw") /\ playing # None /\ winners = None /\ who \in Player /\ Good(Popped)
      /\ \A k, p : Waiting(Popped, k, p)
              => k \in DOMAIN Priority /\ Priority[k] <= Priority["predraw"]
      /\ UNCHANGED <<playing, first, playerVars, tableVars, firstDead, winners>>
  BY Topmost DEF Predraw
<1>2. game \in Games
  BY DEF IInv, TypeOK
<1> DEFINE jail == Request("jail", who, None)
           damage == Request("damage", who, None)
<1>3. /\ jail \in RequestSet /\ jail.kind = "jail" /\ jail.who = who
      /\ damage \in RequestSet /\ damage.kind = "damage" /\ damage.who = who
  BY <1>1, Priorities DEF Request, RequestSet
<1> HIDE DEF jail, damage
<1>4. Joins(Popped, jail)
  BY <1>1, <1>3 DEF Joins, Hurt, Burial
<1>5. /\ Good(<<jail>> \o Popped)
      /\ \A k, p : Waiting(<<jail>> \o Popped, k, p)
                     <=> Waiting(Popped, k, p) \/ (k = "jail" /\ p = who)
  BY <1>1, <1>3, <1>4, Priorities, PushGood
<1>6. Adds(Popped, <<jail>> \o Popped, {"jail"})
  BY <1>5 DEF Adds
<1>7. \A k, p : Waiting(Popped, k, p) => k \notin Hurt \cup Burial \cup {"eliminate"}
  BY <1>1, Priorities DEF Hurt, Burial
<1>8. Joins(<<jail>> \o Popped, damage)
  BY <1>1, <1>3, <1>5, <1>7 DEF Joins, Hurt, Burial
<1>9. \A k, p : Waiting(<<jail>> \o Popped, k, p) => Priority[k] <= Priority[damage.kind]
  BY <1>1, <1>3, <1>5, Priorities
<1>10. /\ Good(<<damage>> \o (<<jail>> \o Popped))
       /\ \A k, p : Waiting(<<damage>> \o (<<jail>> \o Popped), k, p)
                     <=> Waiting(<<jail>> \o Popped, k, p) \/ (k = "damage" /\ p = who)
  BY <1>3, <1>5, <1>8, <1>9, PushGood
<1>11. <<damage, jail>> \o Popped = <<damage>> \o (<<jail>> \o Popped)
  <2>1. Popped \in Seq(RequestSet) /\ <<damage>> \in Seq(RequestSet) /\ <<jail>> \in Seq(RequestSet)
    BY <1>1, <1>3 DEF Good
  <2>2. <<damage>> \o <<jail>> = <<damage, jail>>
    <3>1. /\ <<damage, jail>> \in Seq(RequestSet) /\ Len(<<damage, jail>>) = 2
          /\ <<damage, jail>>[1] = damage /\ <<damage, jail>>[2] = jail
          /\ Len(<<damage>>) = 1 /\ <<damage>>[1] = damage
          /\ Len(<<jail>>) = 1 /\ <<jail>>[1] = jail
      BY <1>3
    <3>x. PICK x : x = <<damage>>
      OBVIOUS
    <3>y. PICK y : y = <<jail>>
      OBVIOUS
    <3>2. PICK s : s = x \o y
      OBVIOUS
    <3>a. /\ x \in Seq(RequestSet) /\ Len(x) = 1 /\ x[1] = damage
          /\ y \in Seq(RequestSet) /\ Len(y) = 1 /\ y[1] = jail
      BY <2>1, <3>1, <3>x, <3>y
    <3>3. /\ s \in Seq(RequestSet) /\ Len(s) = 1 + 1
          /\ \A i \in 1 .. 1 + 1 : s[i] = IF i <= 1 THEN x[i] ELSE y[i - 1]
      BY <3>a, <3>2, ConcatProperties
    <3>4. s[1] = damage /\ s[2] = jail /\ Len(s) = 2
      BY <3>a, <3>3
    <3>5. \A i \in 1 .. Len(s) : s[i] = <<damage, jail>>[i]
      BY <3>1, <3>4
    <3>6. s = <<damage, jail>>
      BY <3>1, <3>3, <3>4, <3>5, SeqEqual
    <3> QED BY <3>x, <3>y, <3>2, <3>6
  <2> QED BY <2>1, <2>2, ConcatAssociative
<1>12. Adds(Popped, <<damage, jail>> \o Popped, {"damage", "jail"})
  BY <1>5, <1>10, <1>11 DEF Adds
<1>13. Adds(Popped, queue', {"damage", "jail"})
  <2>1. \/ queue' = Popped \/ queue' = <<damage, jail>> \o Popped
        \/ queue' = <<jail>> \o Popped
    BY DEF Predraw, jail, damage
  <2>2. Adds(Popped, Popped, {"damage", "jail"})
    BY <1>1 DEF Adds
  <2>3. Adds(Popped, <<jail>> \o Popped, {"damage", "jail"})
    BY <1>6 DEF Adds
  <2> QED BY <1>12, <2>1, <2>2, <2>3
<1>14. Frame /\ Steady /\ TypeOK'
  BY <1>1, <1>13, QueueOnly DEF Adds
<1>15. {"damage", "jail"} \cap Deadly = {} /\ "predraw" \notin Deadly
  BY DEF Deadly
<1> QED BY <1>1, <1>13, <1>14, <1>15, QuietPop

\* A turn that is skipped or ends passes to the next player.
LEMMA TurnPasses ==
  ASSUME IInv, playing # None, winners = None, NEW f, SameLives(f), NEW q, Good(q),
         StartNextTurn(f, q), extra' \in [Player -> Nat], used' \in BOOLEAN,
         UNCHANGED <<game, first, order, wws, wwsDeck, firstDead, winners>>
  PROVE  Frame /\ Steady /\ TypeOK' /\ Adds(q, queue', {"pre_turn", "turn_start"})
<1>1. TypeOK /\ LargeRoles /\ Seated
  BY DEF IInv
<1>2. /\ Adds(q, queue', {"pre_turn", "turn_start"})
      /\ playing' \in Player \/ playing' = playing
      /\ Steady /\ LargeRoles'
      /\ roles' \in [Player -> Role] /\ flags' \in [Player -> SUBSET Flag]
      /\ hp' \in [Player -> Int] /\ holds' \subseteq Player
      /\ scenario' \in ScenarioCards \cup {None} /\ deck' \subseteq ScenarioCards
  BY <1>1, NextTurn
<1>3. Player' = Player
  BY SameGame
<1>4. Seated'
  BY <1>1, <1>3 DEF Seated
<1>5. None \notin Player
  BY <1>1, Sizes DEF TypeOK
<1>6. Frame
  BY <1>2, <1>4, <1>5 DEF Frame
<1>7. TypeOK'
  BY <1>1, <1>2, Typed DEF TypeOK, Adds
<1> QED BY <1>2, <1>6, <1>7

\* skip_turn, of a player whose request is on top.
LEMMA Skips ==
  ASSUME IInv, NEW kind \in {"jail", "skip"}, Top(kind), SkipTurn(who, Popped), extra' = extra,
         UNCHANGED <<game, first, order, wws, wwsDeck, firstDead, winners>>
  PROVE  IInv'
<1>1. playing # None /\ winners = None /\ who \in Player /\ Good(Popped)
  BY Topmost
<1>2. TypeOK /\ game \in Games
  BY DEF IInv, TypeOK
<1> DEFINE f == [flags EXCEPT ![who] = @ \ {"extra_turn"}]
           q == OnTurnEnd(who, TRUE, Popped)
<1>3. StartNextTurn(f, q) /\ used' = FALSE
  BY DEF SkipTurn
<1>4. SameLives(f)
  BY <1>1, <1>2 DEF SameLives, TypeOK, Flag, Alive, AliveWith
<1>5. Adds(Popped, q, {"check", "ghost_end"})
  BY <1>1, <1>2, TurnEndAdds
<1> HIDE DEF f, q
<1>6. Frame /\ Steady /\ TypeOK' /\ Adds(q, queue', {"pre_turn", "turn_start"})
  BY <1>1, <1>2, <1>3, <1>4, <1>5, TurnPasses DEF Adds, TypeOK
<1>7. Adds(Popped, queue', {"check", "ghost_end", "pre_turn", "turn_start"})
  BY <1>5, <1>6 DEF Adds
<1>8. {"check", "ghost_end", "pre_turn", "turn_start"} \cap Deadly = {} /\ kind \notin Deadly
  BY DEF Deadly
<1> QED BY <1>6, <1>7, <1>8, QuietPop

LEMMA JailKeeps == ASSUME IInv, Jail PROVE IInv'
<1>1. /\ Top("jail") /\ playing # None /\ winners = None /\ Good(Popped)
  BY Topmost DEF Jail
<1>2. CASE queue' = Popped /\ UNCHANGED <<playing, playerVars, scenario, deck, used>>
  <2>1. Adds(Popped, queue', {})
    BY <1>1, <1>2, AddsNothing
  <2>2. Frame /\ Steady /\ TypeOK'
    BY <1>1, <1>2, <2>1, QueueOnly DEF Jail, Adds, tableVars
  <2> QED BY <1>1, <2>1, <2>2, QuietPop DEF Deadly
<1>3. CASE SkipTurn(who, Popped) /\ UNCHANGED extra
  BY <1>1, <1>3, Skips DEF Jail
<1> QED BY <1>2, <1>3 DEF Jail

LEMMA SkipKeeps == ASSUME IInv, Skip PROVE IInv'
BY Skips DEF Skip

LEMMA TurnStartKeeps == ASSUME IInv, TurnStart PROVE IInv'
<1>1. /\ Top("turn_start") /\ playing # None /\ winners = None /\ who \in Player /\ Good(Popped)
      /\ UNCHANGED <<playing, first, playerVars, tableVars, firstDead, winners>>
  BY Topmost DEF TurnStart
<1>2. game \in Games /\ "draw" \in DOMAIN Priority \ Kinds
  BY Priorities DEF IInv, TypeOK, Kinds
<1>3. Adds(Popped, queue', {"draw"})
  BY <1>1, <1>2, AddQuiet, AddsNothing, AddsWeaken DEF TurnStart
<1>4. Frame /\ Steady /\ TypeOK'
  BY <1>1, <1>3, QueueOnly DEF Adds
<1> QED BY <1>1, <1>3, <1>4, QuietPop DEF Deadly

LEMMA DiscardPassKeeps == ASSUME IInv, DiscardPass PROVE IInv'
<1>1. /\ Top("discard_pass") /\ playing # None /\ winners = None /\ who \in Player /\ Good(Popped)
      /\ UNCHANGED <<playing, first, playerVars, tableVars, firstDead, winners>>
  BY Topmost DEF DiscardPass
<1>2. game \in Games /\ "pass" \in DOMAIN Priority \ Kinds
  BY Priorities DEF IInv, TypeOK, Kinds
<1>3. Adds(Popped, queue', {"pass"})
  BY <1>1, <1>2, AddQuiet DEF DiscardPass
<1>4. Frame /\ Steady /\ TypeOK'
  BY <1>1, <1>3, QueueOnly DEF Adds
<1> QED BY <1>1, <1>3, <1>4, QuietPop DEF Deadly

LEMMA DrawKeeps == ASSUME IInv, Draw PROVE IInv'
<1>1. /\ Top("draw") /\ playing # None /\ winners = None /\ who \in Player /\ Good(Popped)
      /\ queue' = Popped /\ holds' = IF InTurn(who) THEN holds \cup {who} ELSE holds
      /\ UNCHANGED <<playing, first, roles, flags, hp, extra, tableVars, firstDead, winners>>
  BY Topmost DEF Draw
<1>2. TypeOK
  BY DEF IInv
<1>3. Adds(Popped, queue', {})
  BY <1>1, AddsNothing
<1>4. Frame
  BY <1>1, SameFrame DEF tableVars
<1>5. Steady
  BY <1>1 DEF Steady, Alive, InTurn
<1>6. TypeOK'
  BY <1>1, <1>2, Typed DEF TypeOK, Flag, tableVars
<1> QED BY <1>1, <1>3, <1>4, <1>5, <1>6, QuietPop DEF Deadly

\* pass_turn of a player with no more cards than allowed.
LEMMA PassAdds ==
  ASSUME game \in Games, NEW q, Good(q), NEW p \in Player, PassWithoutDiscard(p, q)
  PROVE  Adds(q, queue', {"check", "ghost_end", "end_turn"}) /\ used' = FALSE
<1> DEFINE s == OnTurnEnd(p, FALSE, q)
<1>1. Adds(q, s, {"check", "ghost_end"})
  BY TurnEndAdds
<1>2. queue' = Enqueue(s, Request("end_turn", p, None)) /\ used' = FALSE
  BY DEF PassWithoutDiscard
<1> HIDE DEF s
<1>3. "end_turn" \in DOMAIN Priority \ Kinds
  BY Priorities DEF Kinds
<1>4. Adds(s, queue', {"end_turn"})
  BY <1>1, <1>2, <1>3, AddQuiet DEF Adds
<1> QED BY <1>1, <1>2, <1>4 DEF Adds

LEMMA PassAgainKeeps == ASSUME IInv, PassAgain PROVE IInv'
<1>1. /\ Top("pass") /\ playing # None /\ winners = None /\ who \in Player /\ Good(Popped)
      /\ PassWithoutDiscard(who, Popped)
      /\ UNCHANGED <<playing, first, playerVars, game, order, scenario, deck, wws, wwsDeck,
                     firstDead, winners>>
  BY Topmost DEF PassAgain
<1>2. TypeOK /\ game \in Games
  BY DEF IInv, TypeOK
<1>3. Adds(Popped, queue', {"check", "ghost_end", "end_turn"}) /\ used' = FALSE
  BY <1>1, <1>2, PassAdds
<1>4. Frame
  BY <1>1, SameFrame DEF playerVars
<1>5. Steady
  BY <1>1 DEF Steady, Alive, playerVars
<1>6. TypeOK'
  BY <1>1, <1>2, <1>3, Typed DEF TypeOK, Flag, playerVars, Adds
<1> QED BY <1>1, <1>3, <1>4, <1>5, <1>6, QuietPop DEF Deadly

LEMMA CheckKeeps == ASSUME IInv, Check PROVE IInv'
<1>1. /\ Top("check") /\ playing # None /\ winners = None /\ who \in Player /\ Good(Popped)
      /\ queue' = Popped /\ extra' \in {extra, [extra EXCEPT ![who] = @ + 1]}
      /\ UNCHANGED <<playing, first, roles, flags, hp, holds, tableVars, firstDead, winners>>
  BY Topmost DEF Check
<1>2. TypeOK
  BY DEF IInv
<1>3. Adds(Popped, queue', {})
  BY <1>1, AddsNothing
<1>4. Frame
  BY <1>1, SameFrame DEF tableVars
<1>5. Steady
  BY <1>1 DEF Steady, Alive
<1>e. extra' \in [Player -> Nat]
  BY <1>1, <1>2 DEF TypeOK
<1>6. TypeOK'
  BY <1>1, <1>2, <1>e, Typed DEF TypeOK, Flag, tableVars
<1> QED BY <1>1, <1>3, <1>4, <1>5, <1>6, QuietPop DEF Deadly

LEMMA EndTurnKeeps == ASSUME IInv, EndTurn PROVE IInv'
<1>1. /\ Top("end_turn") /\ playing # None /\ winners = None /\ who \in Player /\ Good(Popped)
      /\ UNCHANGED <<game, first, order, wws, wwsDeck, used, firstDead, winners>>
  BY Topmost DEF EndTurn
<1>2. TypeOK /\ game \in Games
  BY DEF IInv, TypeOK
<1>3. Frame /\ Steady /\ TypeOK' /\ Adds(Popped, queue', {"pre_turn", "turn_start"})
  <2>1. CASE extra[who] = 0
    <3> DEFINE f == [flags EXCEPT ![who] = @ \ {"extra_turn"}]
    <3>1. StartNextTurn(f, Popped) /\ UNCHANGED extra
      BY <2>1 DEF EndTurn
    <3>2. SameLives(f)
      BY <1>1, <1>2 DEF SameLives, TypeOK, Flag, Alive, AliveWith
    <3> HIDE DEF f
    <3> QED BY <1>1, <1>2, <3>1, <3>2, TurnPasses DEF TypeOK
  <2>2. CASE extra[who] # 0
    <3>1. /\ extra' = [extra EXCEPT ![who] = @ - 1]
          /\ flags' = [flags EXCEPT ![who] = @ \cup {"extra_turn"}]
          /\ StartOfTurn(who, Popped)
          /\ UNCHANGED <<roles, hp, holds, scenario, deck>>
      BY <2>2 DEF EndTurn
    <3>2. playing' = who /\ Adds(Popped, queue', {"pre_turn", "turn_start"})
      BY <1>1, <1>2, <3>1, StartOfTurnAdds
    <3>3. Player' = Player /\ N' = N /\ None \notin Player
      BY <1>1, <1>2, SameGame, Sizes
    <3>4. Seated' /\ LargeRoles'
      BY <1>1, <3>1, <3>3 DEF IInv, Seated, LargeRoles
    <3>5. Frame
      BY <1>1, <3>2, <3>3, <3>4 DEF Frame
    <3>6. Steady
      BY <1>1, <1>2, <3>1 DEF Steady, Alive, AliveWith, TypeOK
    <3>7. extra' \in [Player -> Nat] /\ flags' \in [Player -> SUBSET Flag]
      BY <1>1, <1>2, <2>2, <3>1 DEF TypeOK, Flag
    <3>8. TypeOK'
      BY <1>1, <1>2, <3>1, <3>2, <3>7, Typed DEF TypeOK, Adds
    <3> QED BY <3>2, <3>5, <3>6, <3>8
  <2> QED BY <2>1, <2>2
<1> QED BY <1>1, <1>3, QuietPop DEF Deadly

(***************************************************************************)
(* Hits and deaths.                                                        *)
(***************************************************************************)

LEMMA BangKeeps == ASSUME IInv, Bang PROVE IInv'
<1>1. /\ Top("bang") /\ playing # None /\ winners = None /\ who \in Player /\ Good(Popped)
      /\ UNCHANGED <<playing, first, playerVars, tableVars, firstDead, winners>>
      /\ \A k, p : Waiting(Popped, k, p)
              => k \in DOMAIN Priority /\ Priority[k] <= Priority["bang"]
  BY Topmost DEF Bang
<1> DEFINE r == Request("damage", who, None)
<1>2. r \in RequestSet /\ r.kind = "damage" /\ r.who = who
  BY <1>1, Priorities DEF Request, RequestSet
<1>3. \A k, p : Waiting(Popped, k, p) => k \notin Hurt \cup Burial \cup {"eliminate"}
  BY <1>1, Priorities DEF Hurt, Burial
<1>4. queue' = Popped \/ queue' = Enqueue(Popped, r)
  BY DEF Bang
<1> HIDE DEF r
<1>5. Joins(Popped, r)
  BY <1>1, <1>2, <1>3 DEF Joins, Hurt, Burial
<1>6. Adds(Popped, Enqueue(Popped, r), {"damage"})
  BY <1>1, <1>2, <1>5, OneMore DEF Adds
<1>7. Adds(Popped, queue', {"damage"})
  BY <1>1, <1>4, <1>6 DEF Adds
<1>8. Frame /\ Steady /\ TypeOK'
  BY <1>1, <1>7, QueueOnly DEF Adds
<1> QED BY <1>1, <1>7, <1>8, QuietPop DEF Deadly

LEMMA DamageKeeps == ASSUME IInv, Damage PROVE IInv'
<1>1. /\ Top("damage") /\ playing # None /\ winners = None /\ who \in Player /\ Good(Popped)
      /\ UNCHANGED <<playing, first, roles, flags, holds, extra, tableVars, firstDead, winners>>
      /\ \A k \in Hurt \cup {"eliminate"} \cup Burial : ~Waiting(Popped, k, who)
      /\ by \in Player \cup {None}
  BY Topmost DEF Damage, Hurt
<1>2. TypeOK
  BY DEF IInv
<1> DEFINE r == Request("death", who, by)
<1>3. r \in RequestSet /\ r.kind = "death" /\ r.who = who
  BY <1>1, Priorities DEF Request, RequestSet
<1>4. /\ queue' = Popped \/ queue' = Enqueue(Popped, r)
      /\ hp' = hp \/ hp' = [hp EXCEPT ![who] = @ - 1]
  BY DEF Damage
<1> HIDE DEF r
<1>5. Joins(Popped, r)
  BY <1>1, <1>3 DEF Joins, Hurt, Burial
<1>6. Adds(Popped, Enqueue(Popped, r), {"death"})
  BY <1>1, <1>3, <1>5, OneMore DEF Adds
<1>7. Adds(Popped, queue', {"death"})
  BY <1>1, <1>4, <1>6 DEF Adds
<1>8. Frame
  BY <1>1, SameFrame DEF tableVars
<1>9. Steady
  BY <1>1 DEF Steady, Alive
<1>10. hp' \in [Player -> Int]
  BY <1>1, <1>2, <1>4 DEF TypeOK
<1>11. TypeOK'
  BY <1>1, <1>2, <1>7, <1>10, Typed DEF TypeOK, Flag, tableVars, Adds
<1> QED BY <1>1, <1>7, <1>8, <1>9, <1>11, QuietPop DEF Deadly

LEMMA DeathKeeps == ASSUME IInv, Death PROVE IInv'
<1>1. /\ Top("death") /\ playing # None /\ winners = None /\ who \in Player /\ Good(Popped)
      /\ UNCHANGED <<playing, first, roles, flags, holds, extra, tableVars, firstDead, winners>>
      /\ \A k \in Hurt \cup Burial \cup {"eliminate"} : ~Waiting(Popped, k, who)
      /\ by \in Player \cup {None}
      /\ \A k, p : Waiting(queue, k, p) <=> Waiting(Popped, k, p) \/ (k = "death" /\ p = who)
  BY Topmost DEF Death, Hurt
<1>2. TypeOK /\ game \in Games /\ playing \in Player \cup {None}
  BY DEF IInv, TypeOK
<1>3. Frame
  BY <1>1, SameFrame DEF tableVars
<1>4. Steady
  BY <1>1 DEF Steady, Alive
<1>5. hp' \in [Player -> Int]
  BY <1>1, <1>2 DEF TypeOK, Death
<1>6. Good(queue') => TypeOK'
  BY <1>1, <1>2, <1>5, Typed DEF TypeOK, Flag, tableVars
<1>7. CASE queue' = Popped
  <2>1. Adds(Popped, queue', {})
    BY <1>1, <1>7, AddsNothing
  <2>2. TypeOK'
    BY <1>6, <2>1 DEF Adds
  <2> QED BY <1>1, <1>3, <1>4, <2>1, <2>2, QuietPop DEF Deadly
<1>8. CASE queue' = HandlePlayerDeath(who, by, Popped)
  <2>1. /\ Good(queue')
        /\ \A k, x : Waiting(Popped, k, x) => Waiting(queue', k, x)
        /\ \A k \in {"eliminate", "bury", "verdict"} : Waiting(queue', k, who)
        /\ \A k, x : Waiting(queue', k, x) => Waiting(Popped, k, x)
                  \/ (k \in {"eliminate", "bury", "verdict", "reward"} /\ x = who)
    BY <1>1, <1>2, <1>8, DeathGood
  <2>2. \A x \in Player : Waiting(queue', "eliminate", x)
          => Waiting(queue', "bury", x) /\ Waiting(queue', "verdict", x)
    BY <1>1, <2>1 DEF IInv, Mourned
  <2>3. \A x \in Player : x \in holds' /\ ~Alive(x)'
          => Waiting(queue', "bury", x) \/ Waiting(queue', "discard_all", x)
    BY <1>1, <2>1 DEF IInv, Buried, Alive
  <2>4. \A x \in Player : Waiting(queue, "verdict", x) => Waiting(queue', "verdict", x)
    BY <1>1, <2>1
  <2>5. \A x \in Player : Alive(x)
          => (Alive(x)' /\ roles'[x] = roles[x]) \/ Waiting(queue', "verdict", x)
    BY <1>1 DEF Alive
  <2>6. Good(queue') /\ TypeOK'
    BY <1>6, <2>1
  <2>7. Accounted
    BY <2>2, <2>3, <2>4, <2>5 DEF Accounted
  <2> QED BY <1>3, <2>6, <2>7, Lives
<1> QED BY <1>7, <1>8 DEF Death

\* Whoever is eliminated is still to be buried, and has a verdict to come.
LEMMA EliminateKeeps == ASSUME IInv, Eliminate PROVE IInv'
<1>1. /\ Top("eliminate") /\ playing # None /\ winners = None /\ who \in Player /\ Good(Popped)
      /\ queue' = Popped
      /\ UNCHANGED <<playing, first, roles, holds, extra, tableVars, winners>>
      /\ \A k, p : Waiting(queue, k, p) <=> Waiting(Popped, k, p) \/ (k = "eliminate" /\ p = who)
  BY Topmost DEF Eliminate
<1>2. TypeOK
  BY DEF IInv
<1>3. Frame
  BY <1>1, SameFrame DEF tableVars
<1>4. /\ flags' = flags \/ flags' = [flags EXCEPT ![who] = @ \cup {"dead"}]
      /\ hp' = hp \/ hp' = [hp EXCEPT ![who] = 0]
      /\ firstDead' = who \/ firstDead' = firstDead
  BY DEF Eliminate
<1>5. /\ flags' \in [Player -> SUBSET Flag] /\ hp' \in [Player -> Int]
      /\ firstDead' \in Player \cup {None}
  <2>1. flags' \in [Player -> SUBSET Flag]
    <3>1. flags \in [Player -> SUBSET Flag] /\ "dead" \in Flag
      BY <1>2 DEF TypeOK, Flag
    <3>2. [flags EXCEPT ![who] = @ \cup {"dead"}] \in [Player -> SUBSET Flag]
      BY <3>1
    <3> QED BY <1>4, <3>1, <3>2
  <2>2. hp' \in [Player -> Int]
    BY <1>1, <1>2, <1>4 DEF TypeOK
  <2>3. firstDead' \in Player \cup {None}
    BY <1>1, <1>2, <1>4 DEF TypeOK
  <2> QED BY <2>1, <2>2, <2>3
<1>6. TypeOK'
  BY <1>1, <1>2, <1>5, Typed DEF TypeOK, tableVars
<1>7. Waiting(queue', "bury", who) /\ Waiting(queue', "verdict", who)
  BY <1>1 DEF IInv, Mourned
<1>8. \A x \in Player : x # who => (Alive(x)' <=> Alive(x))
  BY <1>1, <1>2, <1>4 DEF Alive, TypeOK
<1>9. \A x \in Player : Waiting(queue', "eliminate", x)
        => Waiting(queue', "bury", x) /\ Waiting(queue', "verdict", x)
  BY <1>1 DEF IInv, Mourned
<1>10. \A x \in Player : x \in holds' /\ ~Alive(x)'
         => Waiting(queue', "bury", x) \/ Waiting(queue', "discard_all", x)
  BY <1>1, <1>7, <1>8 DEF IInv, Buried
<1>11. \A x \in Player : Waiting(queue, "verdict", x) => Waiting(queue', "verdict", x)
  BY <1>1
<1>12. \A x \in Player : Alive(x)
         => (Alive(x)' /\ roles'[x] = roles[x]) \/ Waiting(queue', "verdict", x)
  BY <1>1, <1>7, <1>8
<1>13. Accounted
  BY <1>9, <1>10, <1>11, <1>12 DEF Accounted
<1> QED BY <1>1, <1>3, <1>6, <1>13, Lives

LEMMA RewardKeeps == ASSUME IInv, Reward PROVE IInv'
<1>1. /\ Top("reward") /\ playing # None /\ winners = None /\ who \in Player /\ by \in Player
      /\ Good(Popped)
      /\ UNCHANGED <<playing, first, roles, flags, hp, extra, tableVars, firstDead, winners>>
  BY Topmost DEF Reward
<1>2. TypeOK /\ game \in Games
  BY DEF IInv, TypeOK
<1>3. /\ queue' = Popped \/ queue' = Enqueue(Popped, Request("sheriff_discard", by, None))
      /\ holds' = holds \/ (Alive(by) /\ holds' = holds \cup {by})
  BY DEF Reward
<1>4. "sheriff_discard" \in DOMAIN Priority \ Kinds
  BY Priorities DEF Kinds
<1>5. Adds(Popped, queue', {"sheriff_discard"})
  <2>1. Adds(Popped, Popped, {"sheriff_discard"})
    BY <1>1 DEF Adds
  <2>2. Adds(Popped, Enqueue(Popped, Request("sheriff_discard", by, None)), {"sheriff_discard"})
    BY <1>1, <1>2, <1>4, AddQuiet
  <2> QED BY <1>3, <2>1, <2>2
<1>6. Frame
  BY <1>1, SameFrame DEF tableVars
<1>7. Steady
  BY <1>1, <1>3 DEF Steady, Alive
<1>8. TypeOK'
  BY <1>1, <1>2, <1>3, <1>5, Typed DEF TypeOK, Flag, tableVars, Adds
<1> QED BY <1>1, <1>5, <1>6, <1>7, <1>8, QuietPop DEF Deadly

LEMMA BuryKeeps == ASSUME IInv, Bury PROVE IInv'
<1>1. /\ Top("bury") /\ playing # None /\ winners = None /\ who \in Player /\ Good(Popped)
      /\ UNCHANGED <<playing, first, playerVars, tableVars, firstDead, winners>>
      /\ \A k \in Hurt \cup Burial \cup {"eliminate"} : ~Waiting(Popped, k, who)
      /\ \A k, p : Waiting(queue, k, p) <=> Waiting(Popped, k, p) \/ (k = "bury" /\ p = who)
  BY Topmost DEF Bury, Burial
<1> DEFINE r == Request("discard_all", who, None)
<1>2. r \in RequestSet /\ r.kind = "discard_all" /\ r.who = who
  BY <1>1, Priorities DEF Request, RequestSet
<1>3. queue' = IF Alive(who) THEN Popped ELSE Enqueue(Popped, r)
  BY DEF Bury
<1> HIDE DEF r
<1>4. Joins(Popped, r)
  BY <1>1, <1>2 DEF Joins, Hurt, Burial
<1>5. /\ Good(queue')
      /\ \A k, p : Waiting(queue', k, p)
           <=> Waiting(Popped, k, p) \/ (~Alive(who) /\ k = "discard_all" /\ p = who)
  <2>1. CASE Alive(who)
    BY <1>1, <1>3, <2>1
  <2>2. CASE ~Alive(who)
    BY <1>1, <1>2, <1>3, <1>4, <2>2, OneMore
  <2> QED BY <2>1, <2>2
<1>6. Frame /\ Steady /\ TypeOK'
  BY <1>1, <1>5, QueueOnly
<1>7. \A x \in Player : Waiting(queue', "eliminate", x)
        => Waiting(queue', "bury", x) /\ Waiting(queue', "verdict", x)
  BY <1>1, <1>5 DEF IInv, Mourned
<1>8. \A x \in Player : x \in holds' /\ ~Alive(x)'
        => Waiting(queue', "bury", x) \/ Waiting(queue', "discard_all", x)
  BY <1>1, <1>5 DEF IInv, Buried, Alive, playerVars
<1>9. \A x \in Player : Waiting(queue, "verdict", x) => Waiting(queue', "verdict", x)
  BY <1>1, <1>5
<1>10. \A x \in Player : Alive(x)
         => (Alive(x)' /\ roles'[x] = roles[x]) \/ Waiting(queue', "verdict", x)
  BY <1>6 DEF Steady
<1>11. Accounted
  BY <1>7, <1>8, <1>9, <1>10 DEF Accounted
<1> QED BY <1>5, <1>6, <1>11, Lives

\* A ghost that leaves has died: it is buried again, and has a verdict to come.
LEMMA GhostLeaves ==
  ASSUME IInv, Frame, NEW p \in Player, NEW q, Good(q), Good(queue') => TypeOK',
         \A k \in Hurt \cup Burial \cup {"eliminate"} : ~Waiting(q, k, p),
         queue' = q \/ queue' = HandlePlayerDeath(p, None, q),
         Alive(p) /\ ~Alive(p)' => queue' = HandlePlayerDeath(p, None, q),
         \A x \in Player : x # p => (Alive(x)' <=> Alive(x)),
         roles' = roles, holds' \subseteq holds,
         \A k \in Deadly, x \in Player : Waiting(q, k, x) => Waiting(queue, k, x),
         \A k \in Deadly, x \in Player : Waiting(queue, k, x)
           => Waiting(q, k, x) \/ (k = "discard_all" /\ x = p /\ p \notin holds')
  PROVE  IInv'
<1>1. game \in Games /\ playing \in Player \cup {None}
  BY DEF IInv, TypeOK
<1> DEFINE d == HandlePlayerDeath(p, None, q)
<1>2. /\ Good(d)
      /\ \A k, x : Waiting(q, k, x) => Waiting(d, k, x)
      /\ \A k \in {"eliminate", "bury", "verdict"} : Waiting(d, k, p)
      /\ \A k, x : Waiting(d, k, x) => Waiting(q, k, x)
           \/ (k \in {"eliminate", "bury", "verdict", "reward"} /\ x = p)
  BY <1>1, DeathGood
<1>3. /\ queue' = q \/ queue' = d
      /\ Alive(p) /\ ~Alive(p)' => queue' = d
  OBVIOUS
<1> HIDE DEF d
<1>4. Good(queue') /\ TypeOK'
  BY <1>2, <1>3
<1>5. /\ \A k, x : Waiting(q, k, x) => Waiting(queue', k, x)
      /\ \A x \in Player : x # p =>
           \A k : Waiting(queue', k, x) => Waiting(q, k, x)
      /\ Waiting(queue', "eliminate", p)
           => \A k \in {"eliminate", "bury", "verdict"} : Waiting(queue', k, p)
      /\ Alive(p) /\ ~Alive(p)'
           => \A k \in {"eliminate", "bury", "verdict"} : Waiting(queue', k, p)
  <2>1. CASE queue' = d
    BY <1>2, <2>1
  <2>2. CASE queue' = q
    BY <1>2, <1>3, <2>2
  <2> QED BY <1>3, <2>1, <2>2
<1>6. \A x \in Player : Waiting(queue', "eliminate", x)
        => Waiting(queue', "bury", x) /\ Waiting(queue', "verdict", x)
  <2> TAKE x \in Player
  <2>1. CASE x = p
    BY <1>5, <2>1
  <2>2. CASE x # p
    <3>1. Waiting(queue', "eliminate", x) => Waiting(queue, "eliminate", x)
      BY <1>5, <2>2 DEF Deadly
    <3>2. Waiting(queue, "bury", x) => Waiting(queue', "bury", x)
      BY <1>5, <2>2 DEF Deadly
    <3>3. Waiting(queue, "verdict", x) => Waiting(queue', "verdict", x)
      BY <1>5, <2>2 DEF Deadly
    <3> QED BY <3>1, <3>2, <3>3 DEF IInv, Mourned
  <2> QED BY <2>1, <2>2
<1>7. \A x \in Player : x \in holds' /\ ~Alive(x)'
        => Waiting(queue', "bury", x) \/ Waiting(queue', "discard_all", x)
  <2> TAKE x \in Player
  <2>1. ~Alive(x) /\ x \in holds' => Waiting(queue, "bury", x) \/ Waiting(queue, "discard_all", x)
    BY DEF IInv, Buried
  <2>2. x \in holds' => (Waiting(queue, "bury", x) => Waiting(queue', "bury", x))
    BY <1>5 DEF Deadly
  <2>3. x \in holds' => (Waiting(queue, "discard_all", x) => Waiting(queue', "discard_all", x))
    BY <1>5 DEF Deadly
  <2>4. Alive(x) /\ ~Alive(x)' => Waiting(queue', "bury", x)
    BY <1>5
  <2> QED BY <2>1, <2>2, <2>3, <2>4
<1>8. \A x \in Player : Waiting(queue, "verdict", x) => Waiting(queue', "verdict", x)
  BY <1>5 DEF Deadly
<1>9. \A x \in Player : Alive(x)
        => (Alive(x)' /\ roles'[x] = roles[x]) \/ Waiting(queue', "verdict", x)
  BY <1>5
<1>10. Accounted
  BY <1>6, <1>7, <1>8, <1>9 DEF Accounted
<1> QED BY <1>4, <1>10, Lives

LEMMA DiscardAllKeeps == ASSUME IInv, DiscardAll PROVE IInv'
<1> DEFINE f == [flags EXCEPT ![who] = @ \ {"ghost"}]
<1>1. PICK kind \in {"discard_all", "sheriff_discard"} : Top(kind)
  BY DEF DiscardAll
<1>2. /\ playing # None /\ winners = None /\ who \in Player /\ Good(Popped)
      /\ \A k, p : Waiting(queue, k, p) <=> Waiting(Popped, k, p) \/ (k = kind /\ p = who)
      /\ \A k, p : Waiting(Popped, k, p)
              => k \in DOMAIN Priority /\ Priority[k] <= Priority[kind]
  BY <1>1, Topmost
<1>3. /\ holds' = holds \ {who} /\ flags' = f
      /\ queue' = IF "ghost" \in flags[who] /\ ~AliveWith(f[who])
                  THEN HandlePlayerDeath(who, None, Popped) ELSE Popped
      /\ UNCHANGED <<playing, first, roles, hp, extra, tableVars, firstDead, winners>>
  BY DEF DiscardAll
<1>4. TypeOK
  BY DEF IInv
<1>5. f \in [Player -> SUBSET Flag] /\ \A x \in Player : x # who => f[x] = flags[x]
  BY <1>2, <1>4 DEF TypeOK, Flag
<1>6. f[who] = flags[who] \ {"ghost"}
  BY <1>2, <1>4 DEF TypeOK
<1> HIDE DEF f
<1>7. \A k \in Hurt \cup Burial \cup {"eliminate"} : ~Waiting(Popped, k, who)
  <2>1. CASE kind = "discard_all"
    BY <1>1, <2>1, Topmost DEF Burial
  <2>2. CASE kind = "sheriff_discard"
    BY <1>2, <2>2, Priorities DEF Hurt, Burial
  <2> QED BY <2>1, <2>2
<1>8. Frame
  BY <1>2, <1>3, SameFrame DEF tableVars
<1>9. Good(queue') => TypeOK'
  BY <1>2, <1>3, <1>4, <1>5, Typed DEF TypeOK, tableVars
<1>10. queue' = Popped \/ queue' = HandlePlayerDeath(who, None, Popped)
  BY <1>3
<1>p. PICK p \in Player : p = who
  BY <1>2
<1>11. Alive(p) /\ ~Alive(p)' => queue' = HandlePlayerDeath(p, None, Popped)
  BY <1>3, <1>6, <1>p DEF Alive, AliveWith
<1>12. \A x \in Player : x # p => (Alive(x)' <=> Alive(x))
  BY <1>3, <1>5, <1>p DEF Alive
<1>13. roles' = roles /\ holds' \subseteq holds /\ p \notin holds'
  BY <1>3, <1>p
<1>14. \A k \in Deadly, x \in Player : Waiting(Popped, k, x) => Waiting(queue, k, x)
  BY <1>2
<1>15. \A k \in Deadly, x \in Player : Waiting(queue, k, x)
         => Waiting(Popped, k, x) \/ (k = "discard_all" /\ x = p /\ p \notin holds')
  BY <1>1, <1>2, <1>p, <1>13 DEF Deadly
<1>16. \A k \in Hurt \cup Burial \cup {"eliminate"} : ~Waiting(Popped, k, p)
  BY <1>7, <1>p
<1>17. queue' = Popped \/ queue' = HandlePlayerDeath(p, None, Popped)
  BY <1>10, <1>p
<1> QED BY <1>2, <1>8, <1>9, <1>11, <1>12, <1>13, <1>14, <1>15, <1>16, <1>17, GhostLeaves

LEMMA GhostEndKeeps == ASSUME IInv, GhostEnd PROVE IInv'
<1> DEFINE f == [flags EXCEPT ![who] = @ \ {"temp_ghost"}]
           leaves == extra[who] = 0 /\ "temp_ghost" \in flags[who]
<1>2. /\ playing # None /\ winners = None /\ who \in Player /\ Good(Popped)
      /\ \A k, p : Waiting(queue, k, p) <=> Waiting(Popped, k, p) \/ (k = "ghost_end" /\ p = who)
      /\ \A k, p : Waiting(Popped, k, p)
              => k \in DOMAIN Priority /\ Priority[k] <= Priority["ghost_end"]
  BY Topmost DEF GhostEnd
<1>3. /\ flags' = IF leaves THEN f ELSE flags
      /\ queue' = IF leaves /\ ~AliveWith(f[who])
                  THEN HandlePlayerDeath(who, None, Popped) ELSE Popped
      /\ UNCHANGED <<playing, first, roles, hp, holds, extra, tableVars, firstDead, winners>>
  BY DEF GhostEnd
<1>4. TypeOK
  BY DEF IInv
<1>5. f \in [Player -> SUBSET Flag] /\ \A x \in Player : x # who => f[x] = flags[x]
  BY <1>2, <1>4 DEF TypeOK, Flag
<1> HIDE DEF f, leaves
<1>6. flags' \in [Player -> SUBSET Flag]
  BY <1>3, <1>4, <1>5 DEF TypeOK, Flag
<1>7. \A k \in Hurt \cup Burial \cup {"eliminate"} : ~Waiting(Popped, k, who)
  BY <1>2, Priorities DEF Hurt, Burial
<1>8. Frame
  BY <1>2, <1>3, SameFrame DEF tableVars
<1>9. Good(queue') => TypeOK'
  BY <1>2, <1>3, <1>4, <1>6, Typed DEF TypeOK, tableVars
<1>10. queue' = Popped \/ queue' = HandlePlayerDeath(who, None, Popped)
  BY <1>3
<1>p. PICK p \in Player : p = who
  BY <1>2
<1>11. Alive(p) /\ ~Alive(p)' => queue' = HandlePlayerDeath(p, None, Popped)
  BY <1>3, <1>p DEF Alive
<1>12. \A x \in Player : x # p => (Alive(x)' <=> Alive(x))
  BY <1>3, <1>5, <1>p DEF Alive
<1>13. roles' = roles /\ holds' \subseteq holds
  BY <1>3
<1>14. \A k \in Deadly, x \in Player : Waiting(Popped, k, x) <=> Waiting(queue, k, x)
  BY <1>2 DEF Deadly
<1>16. \A k \in Hurt \cup Burial \cup {"eliminate"} : ~Waiting(Popped, k, p)
  BY <1>7, <1>p
<1>17. queue' = Popped \/ queue' = HandlePlayerDeath(p, None, Popped)
  BY <1>10, <1>p
<1> QED BY <1>2, <1>8, <1>9, <1>11, <1>12, <1>13, <1>14, <1>16, <1>17, GhostLeaves

(***************************************************************************)
(* The moves of the players.                                               *)
(***************************************************************************)

\* What is known when nothing is queued.
LEMMA Resting ==
  ASSUME IInv, AtRest
  PROVE  /\ winners = None /\ queue = <<>> /\ playing # None /\ playing \in Player
         /\ Good(queue) /\ \A k, p : ~Waiting(queue, k, p)
         /\ TypeOK /\ game \in Games /\ ~Decided /\ Alive(first)
<1>1. winners = None /\ queue = <<>> /\ TypeOK /\ game \in Games /\ Good(queue)
  BY DEF AtRest, IInv, TypeOK
<1>2. playing # None
  <2>1. playing = None => queue = <<Request("start", None, None)>>
    BY DEF IInv, Fresh
  <2> QED BY <1>1, <2>1
<1>3. \A k, p : ~Waiting(queue, k, p)
  BY <1>1 DEF Waiting
<1>4. ~Decided /\ Alive(first)
  BY <1>1, <1>2, <1>3 DEF IInv, Undecided, FirstLives
<1> QED BY <1>1, <1>2, <1>3, <1>4 DEF TypeOK

\* A move in which nobody dies.
LEMMA QuietMove ==
  ASSUME IInv, AtRest, NEW K, Adds(queue, queue', K), K \cap Deadly = {}, Frame, Steady, TypeOK'
  PROVE  IInv'
<1>1. \A k \in Deadly, x \in Player : Waiting(queue', k, x) <=> Waiting(queue, k, x)
  BY DEF Adds
<1>2. Good(queue')
  BY DEF Adds
<1> QED BY <1>1, <1>2, Quiet

LEMMA ReadyDeadKeeps == ASSUME IInv, ReadyDead PROVE IInv'
<1>1. /\ AtRest /\ StartNextTurn(flags, queue)
      /\ UNCHANGED <<game, first, order, extra, wws, wwsDeck, used, firstDead, winners>>
  BY DEF ReadyDead
<1>2. playing # None /\ winners = None /\ Good(queue) /\ TypeOK
  BY <1>1, Resting
<1>3. SameLives(flags)
  BY <1>2 DEF SameLives, TypeOK, Flag, Alive
<1>4. Frame /\ Steady /\ TypeOK' /\ Adds(queue, queue', {"pre_turn", "turn_start"})
  BY <1>1, <1>2, <1>3, TurnPasses DEF TypeOK
<1> QED BY <1>1, <1>4, QuietMove DEF Deadly

LEMMA PassKeeps == ASSUME IInv, Pass PROVE IInv'
<1>1. /\ AtRest /\ PassTurn(playing, queue)
      /\ UNCHANGED <<playing, first, playerVars, game, order, scenario, deck, wws, wwsDeck,
                     firstDead, winners>>
  BY DEF Pass, Ready
<1>2. /\ playing # None /\ winners = None /\ playing \in Player /\ Good(queue)
      /\ TypeOK /\ game \in Games
  BY <1>1, Resting
<1>3. /\ Adds(queue, queue', {"check", "ghost_end", "end_turn", "discard_pass"})
      /\ used' \in BOOLEAN
  <2>1. CASE PassWithoutDiscard(playing, queue)
    BY <1>2, <2>1, PassAdds DEF Adds
  <2>2. CASE queue' = Enqueue(queue, Request("discard_pass", playing, None)) /\ UNCHANGED used
    <3>1. "discard_pass" \in DOMAIN Priority \ Kinds
      BY Priorities DEF Kinds
    <3>2. Adds(queue, queue', {"discard_pass"})
      BY <1>2, <2>2, <3>1, AddQuiet
    <3> QED BY <1>2, <2>2, <3>2 DEF Adds, TypeOK
  <2> QED BY <1>1, <2>1, <2>2 DEF PassTurn
<1>4. Frame
  BY <1>1, <1>2, SameFrame DEF playerVars
<1>5. Steady
  BY <1>1 DEF Steady, Alive, playerVars
<1>6. TypeOK'
  BY <1>1, <1>2, <1>3, Typed DEF TypeOK, Flag, playerVars, Adds
<1> QED BY <1>1, <1>3, <1>4, <1>5, <1>6, QuietMove DEF Deadly

\* A play hurts each of its targets once.
LEMMA Volley ==
  ASSUME IInv, AtRest, NEW S \in SUBSET AlivePlayers
  PROVE  Good(Hits(S)) /\ \A i \in DOMAIN Hits(S) : Hits(S)[i].kind = "damage"
<1> DEFINE n == Cardinality(S)
           s == SetToSeq(S)
           h == Hits(S)
<1>1. h = [i \in 1 .. n |-> Request("damage", s[i], playing)]
  BY DEF Hits
<1>2. playing \in Player /\ game \in Games
  BY Resting
<1>f. IsFiniteSet(S)
  BY <1>2, AliveIsFinite, FS_Subset
<1>3. s \in [1 .. n -> S] /\ \A i, j \in 1 .. n : s[i] = s[j] => i = j
  <2>1. ExistsBijection(1 .. n, S)
    BY <1>f, FS_CardinalityType
  <2>2. \E f \in [1 .. n -> S] : IsInjective(f)
    BY <2>1 DEF ExistsBijection, Bijection, Injection
  <2>3. s \in [1 .. n -> S] /\ IsInjective(s)
    BY <2>2 DEF SetToSeq
  <2> HIDE DEF s
  <2>4. DOMAIN s = 1 .. n
    BY <2>3
  <2> QED BY <2>3, <2>4 DEF IsInjective
<1>4. S \subseteq Player
  BY DEF AlivePlayers
<1>5. n \in Nat
  BY <1>f, FS_CardinalityType
<1> HIDE DEF n, s, h
<1>6. /\ DOMAIN h = 1 .. n
      /\ \A i \in 1 .. n : /\ h[i] \in RequestSet /\ h[i].kind = "damage"
                           /\ h[i].who = s[i] /\ s[i] \in Player
  BY <1>1, <1>2, <1>3, <1>4, Priorities DEF Request, RequestSet
<1>7. h \in Seq(RequestSet)
  BY <1>1, <1>5, <1>6
<1>8. Good(h)
  <2>1. Sorted(h)
    BY <1>6, Priorities DEF Sorted
  <2>2. \A kinds : One(h, kinds)
    BY <1>3, <1>6 DEF One
  <2>3. InOrder(h) /\ Known(h)
    BY <1>6 DEF InOrder, Known
  <2> QED BY <1>7, <2>1, <2>2, <2>3 DEF Good, OneDeath
<1> QED BY <1>6, <1>8 DEF h

LEMMA HitKeeps == ASSUME IInv, NEW S \in SUBSET AlivePlayers, Hit(S) PROVE IInv'
<1>1. /\ AtRest /\ queue' = Hits(S)
      /\ UNCHANGED <<playing, first, playerVars, tableVars, firstDead, winners>>
  BY DEF Hit, Ready
<1>2. /\ playing # None /\ winners = None /\ playing \in Player /\ game \in Games
      /\ \A k, p : ~Waiting(queue, k, p)
  BY <1>1, Resting
<1>3. Good(queue') /\ \A i \in DOMAIN queue' : queue'[i].kind = "damage"
  BY <1>1, Volley
<1>4. Adds(queue, queue', {"damage"})
  BY <1>2, <1>3 DEF Adds, Waiting
<1>5. Frame /\ Steady /\ TypeOK'
  BY <1>1, <1>2, <1>3, QueueOnly
<1> QED BY <1>1, <1>4, <1>5, QuietMove DEF Deadly

\* The answer of another player to it is queued behind.
LEMMA MirageKeeps == ASSUME IInv, NEW S \in SUBSET AlivePlayers, Mirage(S) PROVE IInv'
<1>1. /\ AtRest /\ queue' = Enqueue(Hits(S), Request("skip", playing, None))
      /\ UNCHANGED <<playing, first, playerVars, tableVars, firstDead, winners>>
  BY DEF Mirage, Ready
<1>2. /\ playing # None /\ winners = None /\ playing \in Player /\ game \in Games
      /\ \A k, p : ~Waiting(queue, k, p)
  BY <1>1, Resting
<1>3. PICK h : h = Hits(S)
  OBVIOUS
<1>4. Good(h) /\ \A i \in DOMAIN h : h[i].kind = "damage"
  BY <1>1, <1>3, Volley
<1>5. "skip" \in DOMAIN Priority \ Kinds /\ None \in Player \cup {None} /\ 1 \in Nat
  BY Priorities DEF Kinds
<1>6. Adds(h, queue', {"skip"})
  BY <1>1, <1>2, <1>3, <1>4, <1>5, AddQuiet
<1>7. Adds(queue, queue', {"damage", "skip"})
  BY <1>2, <1>4, <1>6 DEF Adds, Waiting
<1>8. Frame /\ Steady /\ TypeOK'
  BY <1>1, <1>2, <1>7, QueueOnly DEF Adds
<1> QED BY <1>1, <1>7, <1>8, QuietMove DEF Deadly

LEMMA UseCardsKeeps == ASSUME IInv, UseCards PROVE IInv'
<1>1. /\ AtRest /\ holds' = holds \ {playing}
      /\ UNCHANGED <<queue, playing, first, roles, flags, hp, extra, tableVars, firstDead, winners>>
  BY DEF UseCards, Ready
<1>2. playing # None /\ winners = None /\ Good(queue) /\ TypeOK
  BY <1>1, Resting
<1>3. Adds(queue, queue', {})
  BY <1>1, <1>2, AddsNothing
<1>4. Frame
  BY <1>1, <1>2, SameFrame DEF tableVars
<1>5. Steady
  BY <1>1 DEF Steady, Alive
<1>6. TypeOK'
  BY <1>1, <1>2, Typed DEF TypeOK, Flag, tableVars
<1> QED BY <1>1, <1>3, <1>4, <1>5, <1>6, QuietMove DEF Deadly

LEMMA GoldRushKeeps == ASSUME IInv, GoldRush PROVE IInv'
<1>1. /\ AtRest /\ extra' = [extra EXCEPT ![playing] = 1]
      /\ UNCHANGED <<queue, playing, first, roles, flags, hp, holds, tableVars, firstDead, winners>>
  BY DEF GoldRush, Ready
<1>2. playing # None /\ winners = None /\ Good(queue) /\ TypeOK
  BY <1>1, Resting
<1>3. Adds(queue, queue', {})
  BY <1>1, <1>2, AddsNothing
<1>4. Frame
  BY <1>1, <1>2, SameFrame DEF tableVars
<1>5. Steady
  BY <1>1 DEF Steady, Alive
<1>e. extra' \in [Player -> Nat]
  BY <1>1, <1>2 DEF TypeOK
<1>6. TypeOK'
  BY <1>1, <1>2, <1>e, Typed DEF TypeOK, Flag, tableVars
<1> QED BY <1>1, <1>3, <1>4, <1>5, <1>6, QuietMove DEF Deadly

LEMMA PlayGhostKeeps == ASSUME IInv, NEW p \in Player, PlayGhost(p) PROVE IInv'
<1>1. /\ AtRest /\ flags' = [flags EXCEPT ![p] = @ \cup {"ghost"}] /\ holds' = holds \cup {p}
      /\ UNCHANGED <<queue, playing, first, roles, hp, extra, tableVars, firstDead, winners>>
  BY DEF PlayGhost, Ready
<1>2. playing # None /\ winners = None /\ Good(queue) /\ TypeOK
  BY <1>1, Resting
<1>3. Adds(queue, queue', {})
  BY <1>1, <1>2, AddsNothing
<1>4. Frame
  BY <1>1, <1>2, SameFrame DEF tableVars
<1>5. Steady
  BY <1>1, <1>2 DEF Steady, Alive, AliveWith, TypeOK
<1>f. flags' \in [Player -> SUBSET Flag]
  BY <1>1, <1>2 DEF TypeOK, Flag
<1>6. TypeOK'
  BY <1>1, <1>2, <1>f, Typed DEF TypeOK, tableVars
<1> QED BY <1>1, <1>3, <1>4, <1>5, <1>6, QuietMove DEF Deadly

LEMMA LoseGhostKeeps == ASSUME IInv, NEW p \in Player, LoseGhost(p) PROVE IInv'
<1> DEFINE f == [flags EXCEPT ![p] = @ \ {"ghost"}]
<1>1. /\ AtRest /\ flags' = f
      /\ queue' = IF AliveWith(f[p]) THEN queue ELSE HandlePlayerDeath(p, None, queue)
      /\ UNCHANGED <<playing, first, roles, hp, holds, extra, tableVars, firstDead, winners>>
  BY DEF LoseGhost, Ready
<1>2. /\ playing # None /\ winners = None /\ Good(queue) /\ TypeOK
      /\ \A k, x : ~Waiting(queue, k, x)
  BY <1>1, Resting
<1>3. f \in [Player -> SUBSET Flag] /\ \A x \in Player : x # p => f[x] = flags[x]
  BY <1>2 DEF TypeOK, Flag
<1> HIDE DEF f
<1>4. Frame
  BY <1>1, <1>2, SameFrame DEF tableVars
<1>5. Good(queue') => TypeOK'
  BY <1>1, <1>2, <1>3, Typed DEF TypeOK, tableVars
<1>6. Alive(p) /\ ~Alive(p)' => queue' = HandlePlayerDeath(p, None, queue)
  BY <1>1 DEF Alive
<1>7. \A x \in Player : x # p => (Alive(x)' <=> Alive(x))
  BY <1>1, <1>3 DEF Alive
<1>8. queue' = queue \/ queue' = HandlePlayerDeath(p, None, queue)
  BY <1>1
<1>9. roles' = roles /\ holds' \subseteq holds
  BY <1>1
<1> QED BY <1>2, <1>4, <1>5, <1>6, <1>7, <1>8, <1>9, GhostLeaves

LEMMA LadyRosaKeeps == ASSUME IInv, LadyRosa PROVE IInv'
<1> DEFINE target == NearestAlive(playing, -Direction)
           here == PositionOf(playing)
           there == PositionOf(target)
<1>1. /\ AtRest /\ used' = TRUE /\ Cardinality(AlivePlayers) > 2
      /\ flags' = [flags EXCEPT ![target] = @ \cup {"skip_turn"}]
      /\ order' = [order EXCEPT ![here] = target, ![there] = playing]
      /\ UNCHANGED <<queue, playing, first, roles, hp, holds, extra, game, scenario,
                     deck, wws, wwsDeck, firstDead, winners>>
  BY DEF LadyRosa, Ready
<1>2. /\ playing # None /\ winners = None /\ playing \in Player /\ Good(queue)
      /\ TypeOK /\ game \in Games
  BY <1>1, Resting
<1>3. order \in [Player -> Player] /\ Seated
  BY <1>2 DEF TypeOK, IInv
<1>4. target \in Player
  <2>1. AlivePlayers # {}
    BY <1>1, FS_EmptySet
  <2>2. PICK d \in {1, -1} : d = -Direction
    BY Directions
  <2>3. PICK p \in Player : p = playing
    BY <1>2
  <2>4. PICK s \in AlivePlayers : TRUE
    BY <2>1
  <2>5. NearestAlive(p, d) \in AlivePlayers
    BY <1>2, <1>3, Neighbour
  <2> QED BY <2>2, <2>3, <2>5 DEF AlivePlayers
<1> HIDE DEF target
<1>5. /\ here \in Player /\ order[here] = playing
      /\ there \in Player /\ order[there] = target
  BY <1>2, <1>3, <1>4, Positions
<1> HIDE DEF here, there
<1>6. order' \in [Player -> Player]
  BY <1>1, <1>2, <1>3, <1>4
<1>7. Player' = Player /\ N' = N
  BY <1>1, SameGame
<1>8. Seated'
  <2> SUFFICES ASSUME NEW p \in Player PROVE \E i \in Player : order'[i] = p
    BY <1>7 DEF Seated
  <2>1. PICK i \in Player : order[i] = p
    BY <1>3 DEF Seated
  <2>2. CASE p = playing
    BY <1>1, <1>3, <1>5, <2>2
  <2>3. CASE p # playing /\ p = target
    <3>1. here # there
      BY <1>5, <2>3
    <3> QED BY <1>1, <1>3, <1>5, <2>3, <3>1
  <2>4. CASE p # playing /\ p # target
    BY <1>1, <1>3, <1>5, <2>1, <2>4
  <2> QED BY <2>2, <2>3, <2>4
<1>9. LargeRoles'
  BY <1>1, <1>7 DEF IInv, LargeRoles
<1>10. Frame
  BY <1>1, <1>2, <1>8, <1>9 DEF Frame
<1>11. Steady
  BY <1>1, <1>2 DEF Steady, Alive, AliveWith, TypeOK
<1>12. flags' \in [Player -> SUBSET Flag]
  BY <1>1, <1>2 DEF TypeOK, Flag
<1>13. TypeOK'
  BY <1>1, <1>2, <1>6, <1>12, Typed DEF TypeOK
<1>14. Adds(queue, queue', {})
  BY <1>1, <1>2, AddsNothing
<1> QED BY <1>1, <1>10, <1>11, <1>13, <1>14, QuietMove DEF Deadly

\* Wild West Show changes who wins; with a sheriff and an outlaw alive there are
\* two players left.
LEMMA ChangeWwsKeeps ==
  ASSUME IInv, NEW card \in wwsDeck \cup {None}, ChangeWws(card)
  PROVE  IInv'
<1>1. /\ AtRest /\ wwsDeck # {} /\ wws' = card /\ used' = FALSE
      /\ wwsDeck' = IF card = "wild_west_show" THEN {} ELSE wwsDeck \ {card}
      /\ UNCHANGED <<queue, playing, first, playerVars, game, order, scenario, deck,
                     firstDead, winners>>
  BY DEF ChangeWws, Ready
<1>2. /\ playing # None /\ winners = None /\ Good(queue) /\ TypeOK /\ game \in Games
      /\ ~Decided /\ Alive(first) /\ \A k, p : ~Waiting(queue, k, p)
  BY <1>1, Resting
<1>3. Player' = Player /\ N' = N /\ RequestSet' = RequestSet
  BY <1>1, SameGame
<1>4. TypeOK'
  BY <1>1, <1>2, Typed DEF TypeOK, Flag, playerVars
<1>5. Good(queue)'
  BY <1>1, <1>2, <1>3 DEF Good, Sorted, OneDeath, One, InOrder, Known
<1>6. Mourned'
  BY <1>1, <1>3 DEF IInv, Mourned, Waiting
<1>7. Buried'
  BY <1>1, <1>3 DEF IInv, Buried, Waiting, Alive, playerVars
<1>8. FirstLives'
  BY <1>1, <1>2 DEF FirstLives, Alive, playerVars
<1>9. ~FreeForAll
  BY <1>1 DEF IInv, ShowIsLast
<1>10. ~Decided'
  <2>1. (game \in Games =>
           (Decided <=>
              IF FreeForAll \/ N <= 3
              THEN \A x, y \in Player : Alive(x) /\ Alive(y) => x = y
              ELSE \/ \A x \in Player : Alive(x) => roles[x] # "sheriff"
                   \/ \A x \in Player : Alive(x) => roles[x] \notin {"outlaw", "renegade"}))'
    BY DecidedIs, PTL
  <2>2. \A x \in Player : Alive(x)' <=> Alive(x)
    BY <1>1 DEF Alive, playerVars
  <2>3. roles' = roles /\ game' = game
    BY <1>1 DEF playerVars
  <2>4. Decided' <=>
          IF FreeForAll' \/ N <= 3
          THEN \A x, y \in Player : Alive(x) /\ Alive(y) => x = y
          ELSE \/ \A x \in Player : Alive(x) => roles[x] # "sheriff"
               \/ \A x \in Player : Alive(x) => roles[x] \notin {"outlaw", "renegade"}
    BY <1>2, <1>3, <2>1, <2>2, <2>3
  <2>5. ~ IF N <= 3
          THEN \A x, y \in Player : Alive(x) /\ Alive(y) => x = y
          ELSE \/ \A x \in Player : Alive(x) => roles[x] # "sheriff"
               \/ \A x \in Player : Alive(x) => roles[x] \notin {"outlaw", "renegade"}
    BY <1>2, <1>9, DecidedIs
  <2>6. ~ (\A x, y \in Player : Alive(x) /\ Alive(y) => x = y)
    <3>1. CASE N <= 3
      BY <2>5, <3>1
    <3>2. CASE ~ (N <= 3)
      <4>1. PICK x \in Player : Alive(x) /\ roles[x] = "sheriff"
        BY <2>5, <3>2
      <4>2. PICK y \in Player : Alive(y) /\ roles[y] \in {"outlaw", "renegade"}
        BY <2>5, <3>2
      <4> QED BY <4>1, <4>2
    <3> QED BY <3>1, <3>2
  <2> QED BY <2>4, <2>5, <2>6
<1>11. Undecided'
  BY <1>10 DEF Undecided
<1>12. ShowIsLast'
  BY <1>1 DEF ShowIsLast, FreeForAll
<1>13. Seated' /\ LargeRoles'
  BY <1>1, <1>3 DEF IInv, Seated, LargeRoles, playerVars
<1>14. Fresh'
  BY <1>1, <1>2 DEF Fresh
<1> QED BY <1>4, <1>5, <1>6, <1>7, <1>8, <1>11, <1>12, <1>13, <1>14 DEF IInv

\* A verdict that names nobody is right.
LEMMA NoWinner ==
  ASSUME IInv, Winners = None
  PROVE  ~Decided /\ Cardinality(AlivePlayers) > 1
<1>1. game \in Games /\ TypeOK
  BY DEF IInv, TypeOK
<1>2. /\ AlivePlayers \subseteq Player /\ \A S : Team(S) \subseteq Player
      /\ \A x : x \in AlivePlayers <=> x \in Player /\ Alive(x)
      /\ \A S, x : x \in Team(S) <=> x \in Player /\ roles[x] \in S
  BY DEF AlivePlayers, Team
<1>3. \A S \in SUBSET Player : S # None
  BY <1>1, Sizes
<1>4. Cardinality(AlivePlayers) \in Nat
  BY <1>1, AliveIsFinite
<1>5. CASE FreeForAll \/ N <= 3
  <2>1. ~ (Cardinality(AlivePlayers) <= 1)
    BY <1>2, <1>3, <1>5 DEF Winners
  <2> QED BY <1>4, <1>5, <2>1 DEF Decided
<1>6. CASE ~ (FreeForAll \/ N <= 3)
  <2>1. AlivePlayers \cap Team({"sheriff"}) # {}
    BY <1>2, <1>3, <1>6 DEF Winners
  <2>2. ~ (AlivePlayers \subseteq Team({"sheriff", "deputy"}))
    BY <1>2, <1>3, <1>6, <2>1 DEF Winners
  <2>3. PICK x \in Player : Alive(x) /\ roles[x] = "sheriff"
    BY <1>2, <2>1
  <2>4. PICK y \in Player : Alive(y) /\ roles[y] \notin {"sheriff", "deputy"}
    BY <1>2, <2>2
  <2>5. roles[y] \in {"outlaw", "renegade"}
    <3>1. N \in Nat
      BY <1>1, Sizes
    <3>2. roles[y] \in LargeRole
      BY <1>6, <3>1 DEF IInv, LargeRoles
    <3> QED BY <2>4, <3>2 DEF LargeRole
  <2>6. ~Decided
    BY <1>1, <1>6, <2>3, <2>4, <2>5, DecidedIs
  <2>7. ~ (\A u, v \in Player : Alive(u) /\ Alive(v) => u = v)
    BY <2>3, <2>4
  <2> QED BY <1>1, <1>4, <2>6, <2>7, AtMostOne
<1> QED BY <1>5, <1>6

LEMMA VerdictKeeps == ASSUME IInv, Verdict PROVE IInv'
<1>1. /\ Top("verdict") /\ playing # None /\ winners = None /\ who \in Player /\ Good(Popped)
      /\ \A k, p : Waiting(queue, k, p) <=> Waiting(Popped, k, p) \/ (k = "verdict" /\ p = who)
      /\ \A k, p : Waiting(Popped, k, p)
              => k \in DOMAIN Priority /\ Priority[k] <= Priority["verdict"]
      /\ by \in Player \cup {None}
  BY Topmost DEF Verdict
<1>2. /\ first' = IF who = first /\ ~Alive(who) /\ Cardinality(AlivePlayers) > 1
                  THEN NearestAlive(who, 1) ELSE first
      /\ winners' = Winners /\ queue' = Popped
      /\ UNCHANGED <<playing, playerVars, tableVars, firstDead>>
  BY DEF Verdict
<1>3. TypeOK /\ game \in Games /\ order \in [Player -> Player] /\ Seated
  BY DEF IInv, TypeOK
<1>4. Player' = Player /\ N' = N /\ RequestSet' = RequestSet
  BY <1>2, SameGame DEF tableVars
<1>5. \A x \in Player : ~Waiting(queue', "eliminate", x)
  BY <1>1, <1>2, Priorities
<1>6. first' = first \/ first' \in AlivePlayers
  <2>1. CASE Cardinality(AlivePlayers) > 1
    <3>1. AlivePlayers # {}
      BY <2>1, FS_EmptySet
    <3>2. PICK s \in AlivePlayers : TRUE
      BY <3>1
    <3>3. PICK p \in Player : p = who
      BY <1>1
    <3>4. NearestAlive(p, 1) \in AlivePlayers
      BY <1>3, <3>2, Neighbour
    <3> QED BY <1>2, <3>3, <3>4
  <2>2. CASE ~ (Cardinality(AlivePlayers) > 1)
    BY <1>2, <2>2
  <2> QED BY <2>1, <2>2
<1>7. first' \in Player
  BY <1>3, <1>6 DEF TypeOK, AlivePlayers
<1>8. winners' = None \/ winners' \subseteq Player
  <2>1. AlivePlayers \subseteq Player /\ \A S : Team(S) \subseteq Player
    BY DEF AlivePlayers, Team
  <2> QED BY <1>1, <1>2, <2>1 DEF Winners
<1>9. TypeOK'
  BY <1>1, <1>2, <1>3, <1>7, <1>8, Typed DEF TypeOK, Flag, playerVars, tableVars
<1>10. Good(queue)'
  BY <1>1, <1>2, <1>4 DEF Good, Sorted, OneDeath, One, InOrder, Known
<1>11. Mourned'
  BY <1>4, <1>5 DEF Mourned, Waiting
<1>12. Buried'
  <2>1. \A x \in Player : x \in holds' /\ ~AliveWith(flags'[x])
          => Waiting(queue', "bury", x) \/ Waiting(queue', "discard_all", x)
    BY <1>1, <1>2 DEF IInv, Buried, Alive, playerVars
  <2> QED BY <1>4, <2>1 DEF Buried, Waiting, Alive
<1>13. FirstLives'
  <2> SUFFICES ASSUME winners' = None, ~AliveWith(flags'[first'])
               PROVE  Waiting(queue', "verdict", first')
    BY DEF FirstLives, Waiting, Alive
  <2>1. Cardinality(AlivePlayers) > 1
    BY <1>2, NoWinner
  <2>2. ~Alive(first')
    BY <1>2 DEF Alive, playerVars
  <2>3. first' = first
    BY <1>6, <2>2 DEF AlivePlayers
  <2>4. who # first
    <3> SUFFICES ASSUME who = first PROVE FALSE
      OBVIOUS
    <3>1. ~Alive(who)
      BY <2>2, <2>3
    <3>2. first' = NearestAlive(who, 1)
      BY <1>2, <2>1, <3>1
    <3>3. AlivePlayers # {}
      BY <2>1, FS_EmptySet
    <3>4. PICK s \in AlivePlayers : TRUE
      BY <3>3
    <3>5. PICK p \in Player : p = who
      BY <1>1
    <3>6. NearestAlive(p, 1) \in AlivePlayers
      BY <1>3, <3>4, Neighbour
    <3> QED BY <2>2, <3>2, <3>5, <3>6 DEF AlivePlayers
  <2>5. Waiting(queue, "verdict", first)
    BY <1>1, <2>2, <2>3 DEF IInv, FirstLives
  <2> QED BY <1>1, <1>2, <2>3, <2>4, <2>5
<1>14. Undecided'
  <2> SUFFICES ASSUME winners' = None, Decided' PROVE FALSE
    BY DEF Undecided
  <2>1. ~Decided
    BY <1>2, NoWinner
  <2>2. \A x \in Player : Alive(x) => Alive(x)' /\ roles'[x] = roles[x]
    BY <1>2 DEF Alive, playerVars
  <2>3. game' = game /\ wws' = wws
    BY <1>2 DEF tableVars
  <2> QED BY <1>3, <2>1, <2>2, <2>3, StillOpen
<1>15. ShowIsLast' /\ Seated' /\ LargeRoles'
  BY <1>2, <1>4 DEF IInv, ShowIsLast, FreeForAll, Seated, LargeRoles, playerVars, tableVars
<1>16. Fresh'
  BY <1>1, <1>2 DEF Fresh
<1> QED BY <1>9, <1>10, <1>11, <1>12, <1>13, <1>14, <1>15, <1>16 DEF IInv

LEMMA StutterKeeps == ASSUME IInv, UNCHANGED vars PROVE IInv'
<1> USE DEF vars, playerVars, tableVars
<1>1. Player' = Player /\ N' = N /\ RequestSet' = RequestSet
  BY SameGame
<1>2. Good(queue') /\ TypeOK
  BY DEF IInv
<1>3. TypeOK'
  BY <1>2, Typed DEF TypeOK, Flag
<1>4. Good(queue)'
  BY <1>1, <1>2 DEF Good, Sorted, OneDeath, One, InOrder, Known
<1>5. Mourned' /\ Buried' /\ FirstLives'
  BY <1>1 DEF IInv, Mourned, Buried, FirstLives, Waiting, Alive
<1>6. Decided' => Decided
  <2>1. \A x \in Player : Alive(x) => Alive(x)' /\ roles'[x] = roles[x]
    BY DEF Alive
  <2> QED BY <1>2, <2>1, StillOpen DEF TypeOK
<1>7. Undecided'
  BY <1>1, <1>6 DEF IInv, Undecided, Waiting
<1>8. ShowIsLast' /\ Seated' /\ LargeRoles'
  BY <1>1 DEF IInv, ShowIsLast, FreeForAll, Seated, LargeRoles
<1>9. Fresh'
  BY <1>1 DEF IInv, Fresh, Request
<1> QED BY <1>3, <1>4, <1>5, <1>7, <1>8, <1>9 DEF IInv

(***************************************************************************)
(* The beginning.                                                          *)
(***************************************************************************)

\* Nobody has won before the first turn, in any deal.
LEMMA OpenAtFirst ==
  ASSUME game \in Games, roles = game.deal, wws = None, \A p \in Player : Alive(p)
  PROVE  ~Decided
<1>1. N \in 3 .. 8 /\ Player = 1 .. N
  BY Sizes
<1>2. DOMAIN game.deal = Player
  BY Sizes
<1>3. ~FreeForAll
  BY TurnFlowAssumption DEF FreeForAll, AllCards, WildWestCards
<1>4. CASE N <= 3
  <2>1. 1 \in Player /\ 2 \in Player
    BY <1>1
  <2> QED BY <1>4, <2>1, DecidedIs
<1>5. CASE ~ (N <= 3)
  <2>1. Len(game.deal) > 3
    BY <1>1, <1>5 DEF N
  <2>2. PICK p \in DOMAIN game.deal : game.deal[p] = "sheriff"
    BY <2>1, TurnFlowAssumption
  <2>3. PICK q \in DOMAIN game.deal : game.deal[q] \in {"outlaw", "renegade"}
    BY <2>1, TurnFlowAssumption
  <2> QED BY <1>2, <1>3, <1>5, <2>2, <2>3, DecidedIs
<1> QED BY <1>4, <1>5

LEMMA StartKeeps == ASSUME IInv, Start PROVE IInv'
<1>1. /\ Top("start") /\ StartNextTurn(flags, Popped)
      /\ UNCHANGED <<game, first, order, extra, wws, wwsDeck, used, firstDead, winners>>
  BY DEF Start
<1>2. winners = None /\ Good(Popped)
  BY <1>1, Topmost
<1>3. TypeOK /\ game \in Games /\ LargeRoles /\ Seated
  BY DEF IInv, TypeOK
<1>4. SameLives(flags)
  BY <1>3 DEF SameLives, TypeOK, Flag, Alive
<1>5. CASE playing # None
  <2>1. Frame /\ Steady /\ TypeOK' /\ Adds(Popped, queue', {"pre_turn", "turn_start"})
    BY <1>1, <1>2, <1>3, <1>4, <1>5, TurnPasses DEF TypeOK
  <2> QED BY <1>1, <2>1, QuietPop DEF Deadly
<1>6. CASE playing = None
  <2>1. /\ queue = <<Request("start", None, None)>> /\ roles = game.deal /\ wws = None
        /\ flags = [p \in Player |-> {}]
    BY <1>6 DEF IInv, Fresh
  <2>2. \A p \in Player : Alive(p)
    BY <2>1 DEF Alive, AliveWith
  <2>3. AlivePlayers # {}
    <3>1. first \in Player
      BY <1>3 DEF TypeOK
    <3> QED BY <2>2, <3>1 DEF AlivePlayers
  <2>4. \A k, p : ~Waiting(Popped, k, p)
    <3>1. Popped = <<>>
      BY <2>1 DEF Popped
    <3> QED BY <3>1 DEF Waiting
  <2>5. /\ Adds(Popped, queue', {"pre_turn", "turn_start"})
        /\ playing' \in Player /\ Steady /\ LargeRoles'
        /\ roles' \in [Player -> Role] /\ flags' \in [Player -> SUBSET Flag]
        /\ hp' \in [Player -> Int] /\ holds' \subseteq Player
        /\ scenario' \in ScenarioCards \cup {None} /\ deck' \subseteq ScenarioCards
    BY <1>1, <1>2, <1>3, <1>4, <2>3, NextTurn
  <2>6. Player' = Player /\ N' = N /\ RequestSet' = RequestSet
    BY <1>1, SameGame
  <2>7. Good(queue') /\ \A k \in Deadly, p \in Player : ~Waiting(queue', k, p)
    BY <2>4, <2>5 DEF Adds, Deadly
  <2>8. TypeOK'
    BY <1>1, <1>3, <2>5, <2>7, Typed DEF TypeOK
  <2>9. Good(queue)'
    BY <2>6, <2>7 DEF Good, Sorted, OneDeath, One, InOrder, Known
  <2>10. Mourned'
    BY <2>6, <2>7 DEF Mourned, Waiting, Deadly
  <2>11. \A p \in Player : AliveWith(flags'[p])
    BY <2>2, <2>5 DEF Steady, Alive
  <2>12. Buried'
    BY <2>6, <2>11 DEF Buried, Alive
  <2>13. FirstLives'
    BY <1>1, <1>3, <2>11 DEF FirstLives, Alive, TypeOK
  <2>14. Undecided'
    <3>1. ~Decided
      BY <1>3, <2>1, <2>2, OpenAtFirst
    <3>2. ~Decided'
      BY <1>1, <1>3, <2>5, <3>1, StillOpen DEF Steady
    <3> QED BY <3>2 DEF Undecided
  <2>15. ShowIsLast' /\ Seated'
    BY <1>1, <1>3, <2>6 DEF IInv, ShowIsLast, FreeForAll, Seated
  <2>16. Fresh'
    <3>1. None \notin Player
      BY <1>3, Sizes
    <3> QED BY <2>5, <3>1 DEF Fresh
  <2> QED BY <2>5, <2>8, <2>9, <2>10, <2>12, <2>13, <2>14, <2>15, <2>16 DEF IInv
<1> QED BY <1>5, <1>6

LEMMA IInvInit == Init => IInv
<1> SUFFICES ASSUME Init PROVE IInv
  OBVIOUS
<1> DEFINE r == Request("start", None, None)
<1>1. /\ game \in Games /\ queue = <<r>> /\ playing = None /\ roles = game.deal
      /\ order = [p \in Player |-> p] /\ first \in Player /\ flags = [p \in Player |-> {}]
      /\ hp = [p \in Player |-> MaxHp] /\ holds = Player /\ extra = [p \in Player |-> 0]
      /\ scenario = None /\ deck = Cards \cap ScenarioCards /\ wws = None
      /\ wwsDeck = Cards \cap WildWestCards /\ used = FALSE /\ firstDead = None
      /\ winners = None
  BY DEF Init
<1>2. N \in 3 .. 8 /\ game.deal \in [Player -> Role] /\ DOMAIN game.deal = Player
  BY <1>1, Sizes
<1>3. r \in RequestSet /\ r.kind = "start" /\ r.who = None
  BY Priorities DEF Request, RequestSet
<1>4. \A p \in Player : Alive(p)
  BY <1>1 DEF Alive, AliveWith
<1> HIDE DEF r
<1>5. queue \in Seq(RequestSet) /\ DOMAIN queue = 1 .. 1 /\ queue[1] = r
  BY <1>1, <1>3
<1>6. Good(queue)
  <2>1. \A i \in DOMAIN queue : i = 1 /\ queue[i] = r
    BY <1>5
  <2>2. Sorted(queue)
    BY <2>1 DEF Sorted
  <2>3. OneDeath(queue) /\ InOrder(queue) /\ Known(queue)
    BY <1>3, <2>1 DEF OneDeath, One, InOrder, Known
  <2> QED BY <1>5, <2>2, <2>3 DEF Good
<1>7. \A k, p : Waiting(queue, k, p) => k = "start"
  BY <1>3, <1>5 DEF Waiting
<1>8. TypeOK
  <2>1. hp \in [Player -> Int] /\ extra \in [Player -> Nat] /\ order \in [Player -> Player]
        /\ flags \in [Player -> SUBSET Flag]
    BY <1>1, TurnFlowAssumption
  <2> QED BY <1>1, <1>2, <1>5, <2>1 DEF TypeOK, RequestSet, Flag
<1>9. Mourned
  BY <1>7 DEF Mourned
<1>10. Buried /\ FirstLives
  BY <1>1, <1>4 DEF Buried, FirstLives
<1>11. Undecided
  BY <1>1 DEF Undecided
<1>12. LargeRoles
  <2>1. N > 3 => \A p \in DOMAIN game.deal : game.deal[p] \in LargeRole
    BY <1>1, TurnFlowAssumption DEF N
  <2> QED BY <1>1, <1>2, <2>1 DEF LargeRoles
<1>13. ShowIsLast
  BY <1>1, TurnFlowAssumption DEF ShowIsLast, FreeForAll, AllCards, WildWestCards
<1>14. Seated
  BY <1>1 DEF Seated
<1>15. Fresh
  BY <1>1 DEF Fresh, r
<1> QED BY <1>6, <1>8, <1>9, <1>10, <1>11, <1>12, <1>13, <1>14, <1>15 DEF IInv

LEMMA IInvNext == IInv /\ [Next]_vars => IInv'
<1> SUFFICES ASSUME IInv, [Next]_vars PROVE IInv'
  OBVIOUS
<1>1. CASE Engine
  BY <1>1, StartKeeps, PreTurnKeeps, PredrawKeeps, JailKeeps, TurnStartKeeps, DrawKeeps,
     DiscardPassKeeps, PassAgainKeeps, CheckKeeps, EndTurnKeeps, SkipKeeps, BangKeeps,
     DamageKeeps, DeathKeeps, EliminateKeeps, RewardKeeps, BuryKeeps, DiscardAllKeeps,
     GhostEndKeeps, VerdictKeeps, ReadyDeadKeeps DEF Engine
<1>2. CASE Pass
  BY <1>2, PassKeeps
<1>3. CASE Play
  <2>1. ASSUME NEW S \in SUBSET AlivePlayers, Hit(S) \/ Mirage(S) PROVE IInv'
    BY <2>1, HitKeeps, MirageKeeps
  <2>2. ASSUME NEW p \in Player, PlayGhost(p) \/ LoseGhost(p) PROVE IInv'
    BY <2>2, PlayGhostKeeps, LoseGhostKeeps
  <2>3. ASSUME NEW card \in wwsDeck \cup {None}, ChangeWws(card) PROVE IInv'
    BY <2>3, ChangeWwsKeeps
  <2> QED BY <1>3, <2>1, <2>2, <2>3, UseCardsKeeps, GoldRushKeeps,
             LadyRosaKeeps DEF Play
<1>4. CASE GameOver \/ UNCHANGED vars
  BY <1>4, StutterKeeps DEF GameOver
<1> QED BY <1>1, <1>2, <1>3, <1>4 DEF Next

LEMMA IInvAlways == Spec => []IInv
BY IInvInit, IInvNext, PTL DEF Spec

(***************************************************************************)
(* The theorems.                                                           *)
(***************************************************************************)

\* Every variable of game, its players and its requests keeps its type.
THEOREM TypeCorrect == Spec => []TypeOK
<1>1. IInv => TypeOK
  BY DEF IInv
<1> QED BY <1>1, IInvAlways, PTL

\* handle_player_death is never run for a player whose death is still queued:
\* nobody is eliminated, buried and paid for twice.
THEOREM DiesOnce == Spec => []EliminatedOnce
<1>1. IInv => EliminatedOnce
  <2> SUFFICES ASSUME IInv, NEW p \in Player PROVE Queued("eliminate", p) <= 1
    BY DEF EliminatedOnce
  <2> DEFINE E == {i \in DOMAIN queue : queue[i].kind = "eliminate" /\ queue[i].who = p}
  <2>1. \A i, j \in E : i = j
    BY DEF IInv, Good, OneDeath, One
  <2>2. E = {} \/ \E i : E = {i}
    BY <2>1
  <2>3. Cardinality(E) = 0 \/ Cardinality(E) = 1
    BY <2>2, FS_EmptySet, FS_Singleton
  <2> QED BY <2>3 DEF Queued
<1> QED BY <1>1, IInvAlways, PTL

\* Whoever dies, in whatever order, is buried before anybody moves, and the
\* place of the first player has passed on.
THEOREM NothingLeftToTheDead == Spec => []DeadHoldNothing
<1>1. IInv => DeadHoldNothing
  <2> SUFFICES ASSUME IInv, AtRest
               PROVE  Alive(first) /\ \A p \in Player : p \in holds => Alive(p)
    BY DEF DeadHoldNothing
  <2>1. Alive(first) /\ \A k, p : ~Waiting(queue, k, p)
    BY Resting
  <2> QED BY <2>1 DEF IInv, Buried
<1> QED BY <1>1, IInvAlways, PTL

\* Whenever a player can move, nobody has won: each death, with its rewards,
\* ghosts and cards, was followed by a verdict that would have said so.
THEOREM WinnersAreDeclared == Spec => []VictoryNoticed
<1>1. IInv => VictoryNoticed
  <2> SUFFICES ASSUME IInv, AtRest PROVE VictoryNoticed
    BY DEF VictoryNoticed
  <2>1. ~Decided /\ game \in Games
    BY Resting
  <2>2. Cardinality(AlivePlayers) \in Nat
    BY <2>1, AliveIsFinite
  <2> QED BY <2>1, <2>2 DEF Decided, VictoryNoticed
<1> QED BY <1>1, IInvAlways, PTL
=============================================================================
