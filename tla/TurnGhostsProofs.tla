--------------------------- MODULE TurnGhostsProofs ---------------------------
(***************************************************************************)
(* The ghosts of Ghost Town, for every number of players and every mixture *)
(* of cards: a ghost is gone in the turns of others, unless its turn was   *)
(* skipped while it had an extra turn left, or a turn was skipped before   *)
(* the verdict on the first player.  That is a condition on one step, and  *)
(* is discharged for games that keep the cards apart that it takes.        *)
(***************************************************************************)
EXTENDS TurnOrderProofs

HasGhost(p) == "temp_ghost" \in flags[p]

(***************************************************************************)
(* The invariant.                                                          *)
(***************************************************************************)

\* A ghost is on turn under Ghost Town, or has used up its turns and leaves
\* next: no draw! of Don Bell will bring it another one.
Haunted ==
  \A p \in Player : HasGhost(p) =>
    \/ p = playing /\ scenario = "ghost_town"
    \/ /\ extra[p] = 0 /\ Waiting(queue, "ghost_end", p)
       /\ \A x : ~Waiting(queue, "check", x)

\* A turn of a ghost ends with its leaving, or with another turn of the ghost.
EndsGhost ==
  \A x : Waiting(queue, "end_turn", x) /\ playing \in Player /\ HasGhost(playing) =>
    extra[playing] > 0 \/ Waiting(queue, "ghost_end", playing)

\* The ghosts leave before the turn ends.
EndLast(q) ==
  \A i, j \in DOMAIN q : q[i].kind = "end_turn" /\ q[j].kind = "ghost_end" => j < i

\* No ghost waits to leave while cards have to be discarded to pass.
PassFirst(q) ==
  \A x, p : Waiting(q, "pass", x) \/ Waiting(q, "discard_pass", x) => ~Waiting(q, "ghost_end", p)

GhostsLeave == Haunted /\ EndsGhost /\ EndLast(queue) /\ PassFirst(queue)

(***************************************************************************)
(* Queueing.                                                               *)
(***************************************************************************)

Closing == {"check", "ghost_end", "end_turn", "pass", "discard_pass", "skip"}

\* e is q with requests added that neither end a turn nor skip it.
Follows(q, e) ==
  /\ TurnQueue(e)
  /\ \A k, p : Waiting(q, k, p) => Waiting(e, k, p)
  /\ \A k \in Closing : \A p : Waiting(e, k, p) => Waiting(q, k, p)
  /\ EndLast(q) => EndLast(e)

LEMMA FollowsItself == ASSUME NEW q, TurnQueue(q) PROVE Follows(q, q)
BY DEF Follows

LEMMA FollowsChain ==
  ASSUME NEW q, NEW s, NEW e, Follows(q, s), Follows(s, e)
  PROVE  Follows(q, e)
BY DEF Follows

LEMMA StillLast ==
  ASSUME NEW q, NEW e, TurnQueue(q), TurnQueue(e), From(Closing, q, e, {})
  PROVE  /\ \A k \in Closing : \A p : Waiting(e, k, p) => Waiting(q, k, p)
         /\ EndLast(q) => EndLast(e)
<1>1. q \in Seq(RequestSet) /\ e \in Seq(RequestSet)
  BY DEF TurnQueue
<1>2. PICK of : Traced(Closing, q, e, {}, of)
  BY DEF From
<1>3. \A i \in DOMAIN e : e[i].kind \in Closing
        => of[i] \in DOMAIN q /\ of[i] # 0 /\ e[i] = q[of[i]]
  BY <1>2 DEF Traced
<1>4. \A i, j \in DOMAIN e : of[i] # 0 /\ of[j] # 0 => (i < j <=> of[i] < of[j])
  <2>1. /\ of \in [DOMAIN e -> DOMAIN q \cup {0}]
        /\ \A i, j \in DOMAIN e : i < j /\ of[i] # 0 /\ of[j] # 0 => of[i] < of[j]
    BY <1>2 DEF Traced
  <2> QED BY <1>1, <2>1, Rising
<1>5. \A k \in Closing : \A p : Waiting(e, k, p) => Waiting(q, k, p)
  BY <1>3 DEF Waiting
<1>6. EndLast(q) => EndLast(e)
  BY <1>3, <1>4 DEF EndLast, Closing
<1> QED BY <1>5, <1>6

LEMMA StillWaiting ==
  ASSUME NEW q, TurnQueue(q), NEW r \in RequestSet, NEW n \in Nat
  PROVE  \A k, p : Waiting(q, k, p) => Waiting(EnqueueTimes(q, r, n), k, p)
<1>1. q \in Seq(RequestSet) /\ Sorted(q)
  BY DEF TurnQueue
<1>2. PICK e : e = EnqueueTimes(q, r, n)
  OBVIOUS
<1>3. PICK m \in 1 .. Len(q) + 1 : Inserted(q, e, r, n, m)
  BY <1>1, <1>2, EnqueueIs
<1>4. Len(q) \in Nat /\ DOMAIN q = 1 .. Len(q) /\ DOMAIN e = 1 .. Len(q) + n
  BY <1>1, <1>3, LenProperties DEF Inserted
<1>5. \A i \in DOMAIN q : \E j \in DOMAIN e : e[j] = q[i]
  <2> TAKE i \in DOMAIN q
  <2>1. CASE i < m
    <3>1. i \in 1 .. m - 1 /\ i \in DOMAIN e
      BY <1>4, <2>1
    <3> QED BY <1>3, <3>1 DEF Inserted
  <2>2. CASE ~ (i < m)
    <3>1. i \in m .. Len(q) /\ i + n \in DOMAIN e
      BY <1>4, <2>2
    <3> QED BY <1>3, <3>1 DEF Inserted
  <2> QED BY <2>1, <2>2
<1> QED BY <1>2, <1>5 DEF Waiting

LEMMA Behind ==
  ASSUME NEW q, TurnQueue(q), NEW kind \in DOMAIN Priority \ Closing,
         NEW p \in Player \cup {None}, NEW b \in Player \cup {None}, NEW n \in Nat
  PROVE  /\ Follows(q, EnqueueTimes(q, Request(kind, p, b), n))
         /\ Follows(q, Enqueue(q, Request(kind, p, b)))
<1>1. \A m \in Nat : Follows(q, EnqueueTimes(q, Request(kind, p, b), m))
  <2> TAKE m \in Nat
  <2>1. PICK K : K = Closing
    OBVIOUS
  <2>2. PICK r \in RequestSet : r = Request(kind, p, b)
    BY DEF Request, RequestSet
  <2>3. PICK e : e = EnqueueTimes(q, r, m)
    OBVIOUS
  <2>4. TurnQueue(e) /\ From(K, q, e, {})
    BY <2>1, <2>2, <2>3, QuietlyQueued
  <2>5. \A k, x : Waiting(q, k, x) => Waiting(e, k, x)
    BY <2>3, StillWaiting
  <2> QED BY <2>1, <2>2, <2>3, <2>4, <2>5, StillLast DEF Follows
<1>2. Enqueue(q, Request(kind, p, b)) = EnqueueTimes(q, Request(kind, p, b), 1) /\ 1 \in Nat
  BY DEF Enqueue
<1> QED BY <1>1, <1>2

LEMMA DeathBehind ==
  ASSUME playing \in Player \cup {None}, NEW q, TurnQueue(q), NEW p \in Player,
         NEW killer \in Player \cup {None}
  PROVE  Follows(q, HandlePlayerDeath(p, killer, q))
<1> DEFINE credited == Credited(killer)
           out == Enqueue(q, Request("eliminate", p, credited))
           paid == IF credited # None THEN Enqueue(out, Request("reward", p, credited)) ELSE out
           gone == Enqueue(paid, Request("bury", p, None))
           d == Enqueue(gone, Request("verdict", p, credited))
<1>1. credited \in Player \cup {None}
  BY DEF Credited
<1>2. d = HandlePlayerDeath(p, killer, q)
  BY DEF HandlePlayerDeath
<1> HIDE DEF credited
<1>3. {"eliminate", "reward", "bury", "verdict"} \subseteq DOMAIN Priority \ Closing
  BY Priorities DEF Closing
<1>4. Follows(q, out) /\ TurnQueue(out)
  BY <1>1, <1>3, Behind DEF Follows
<1> HIDE DEF out
<1>5. Follows(out, paid) /\ TurnQueue(paid)
  <2>1. CASE credited # None
    <3>1. paid = Enqueue(out, Request("reward", p, credited))
      BY <2>1
    <3> HIDE DEF paid
    <3> QED BY <1>1, <1>3, <1>4, <3>1, Behind DEF Follows
  <2>2. CASE credited = None
    BY <1>4, <2>2, FollowsItself
  <2> QED BY <2>1, <2>2
<1> HIDE DEF paid
<1>6. Follows(paid, gone) /\ TurnQueue(gone)
  BY <1>1, <1>3, <1>5, Behind DEF Follows
<1> HIDE DEF gone
<1>7. Follows(gone, d)
  BY <1>1, <1>3, <1>6, Behind
<1> HIDE DEF d
<1> QED BY <1>2, <1>4, <1>5, <1>6, <1>7, FollowsChain

(***************************************************************************)
(* The steps that end no turn.                                             *)
(***************************************************************************)

\* The step leaves q but for what ends no turn, and haunts nobody.
Calm(q) ==
  /\ Follows(q, queue') /\ game' = game /\ playing' = playing /\ scenario' = scenario
  /\ deck' = deck
  /\ \A p \in Player : HasGhost(p)' => HasGhost(p)

\* What is taken from the top is r.
LEMMA CalmLeaves ==
  ASSUME game \in Games, GhostsLeave, NEW q, TurnQueue(q), EndLast(q), Calm(q),
         \A k, p : Waiting(q, k, p) => Waiting(queue, k, p),
         \A p \in Player : Waiting(queue, "ghost_end", p) /\ ~Waiting(q, "ghost_end", p)
           => extra[p] > 0 \/ ~HasGhost(p)',
         \/ extra' = extra
         \/ /\ \E x : Waiting(queue, "check", x)
            /\ \A p \in Player : extra'[p] = extra[p] \/ extra'[p] > 0,
         extra \in [Player -> Nat]
  PROVE  GhostsLeave'
<1>0. Player' = Player
  BY SameGame DEF Calm
<1>1. /\ \A k, p : Waiting(q, k, p) => Waiting(queue', k, p)
      /\ \A k \in Closing : \A p : Waiting(queue', k, p) => Waiting(q, k, p)
      /\ EndLast(queue')
  BY DEF Calm, Follows
<1>2. PassFirst(queue')
  BY <1>1 DEF GhostsLeave, PassFirst, Closing
<1>3. ASSUME NEW p \in Player, HasGhost(p)'
      PROVE  \/ p = playing /\ scenario = "ghost_town"
             \/ /\ extra'[p] = 0 /\ Waiting(queue', "ghost_end", p)
                /\ \A x : ~Waiting(queue', "check", x)
  <2>1. HasGhost(p)
    BY <1>3 DEF Calm
  <2>2. CASE p = playing /\ scenario = "ghost_town"
    BY <2>2
  <2>3. CASE /\ extra[p] = 0 /\ Waiting(queue, "ghost_end", p)
             /\ \A x : ~Waiting(queue, "check", x)
    <3>1. extra' = extra
      BY <2>3
    <3>2. Waiting(q, "ghost_end", p)
      BY <1>3, <2>3
    <3> QED BY <1>1, <2>3, <3>1, <3>2 DEF Closing
  <2> QED BY <2>1, <2>2, <2>3 DEF GhostsLeave, Haunted
<1>4. ASSUME NEW x, Waiting(queue', "end_turn", x), playing \in Player, HasGhost(playing)'
      PROVE  extra'[playing] > 0 \/ Waiting(queue', "ghost_end", playing)
  <2>1. HasGhost(playing) /\ Waiting(queue, "end_turn", x)
    BY <1>1, <1>4 DEF Calm, Closing
  <2>2. extra[playing] > 0 \/ Waiting(queue, "ghost_end", playing)
    BY <1>4, <2>1 DEF GhostsLeave, EndsGhost
  <2>3. extra[playing] > 0 \/ Waiting(q, "ghost_end", playing)
    BY <1>4, <2>2 DEF HasGhost, Calm
  <2>4. extra[playing] > 0 => extra'[playing] > 0
    BY <1>4
  <2> QED BY <1>1, <2>3, <2>4
<1>5. Haunted'
  BY <1>0, <1>3 DEF Haunted, Calm
<1>6. EndsGhost'
  BY <1>0, <1>4 DEF EndsGhost, Calm
<1> QED BY <1>1, <1>2, <1>5, <1>6 DEF GhostsLeave

LEMMA Taken ==
  ASSUME IInv, NEW kind, Top(kind)
  PROVE  /\ TurnQueue(Popped) /\ Good(Popped) /\ (EndLast(queue) => EndLast(Popped))
         /\ \A k, p : Waiting(queue, k, p) <=> Waiting(Popped, k, p) \/ (k = kind /\ p = who)
         /\ winners = None
         /\ kind # "start" => who \in Player
<1>1. /\ \A k, p : Waiting(queue, k, p) <=> Waiting(Popped, k, p) \/ (k = kind /\ p = who)
      /\ Good(Popped) /\ winners = None /\ (kind # "start" => who \in Player)
  BY Topmost
<1>2. TurnQueue(queue) /\ queue # <<>>
  BY DEF IInv, Good, TurnQueue, Top
<1>3. PICK K : K = Closing
  OBVIOUS
<1>4. TurnQueue(Popped) /\ From(K, queue, Popped, {})
  BY <1>2, Popping DEF Popped
<1>5. EndLast(queue) => EndLast(Popped)
  BY <1>2, <1>3, <1>4, StillLast
<1> QED BY <1>1, <1>4, <1>5

\* Pushed before everything by the predraw checks.
LEMMA Before ==
  ASSUME NEW q, TurnQueue(q), NEW s \in Seq(RequestSet), NEW e, e = s \o q, TurnQueue(e),
         \A i \in DOMAIN s : s[i].kind \notin Closing
  PROVE  Follows(q, e)
<1>1. /\ Len(q) \in Nat /\ DOMAIN q = 1 .. Len(q)
      /\ Len(s) \in Nat /\ DOMAIN s = 1 .. Len(s)
  BY LenProperties DEF TurnQueue
<1>2. /\ DOMAIN e = 1 .. Len(s) + Len(q)
      /\ \A i \in 1 .. Len(s) : e[i] = s[i]
      /\ \A i \in 1 .. Len(q) : e[i + Len(s)] = q[i]
  BY <1>1 DEF TurnQueue
<1>3. \A i \in DOMAIN e :
        /\ i \in Int
        /\ \/ i \in DOMAIN s /\ e[i] = s[i]
           \/ i - Len(s) \in DOMAIN q /\ e[i] = q[i - Len(s)]
  <2> TAKE i \in DOMAIN e
  <2>1. CASE i <= Len(s)
    <3>1. i \in 1 .. Len(s)
      BY <1>1, <1>2, <2>1
    <3> QED BY <1>1, <1>2, <3>1
  <2>2. CASE ~ (i <= Len(s))
    <3>1. i - Len(s) \in 1 .. Len(q) /\ (i - Len(s)) + Len(s) = i /\ i \in Int
      BY <1>1, <1>2, <2>2
    <3> QED BY <1>1, <1>2, <3>1
  <2> QED BY <2>1, <2>2
<1>4. \A i \in DOMAIN q : i + Len(s) \in DOMAIN e /\ e[i + Len(s)] = q[i]
  BY <1>1, <1>2
<1>5. \A k, p : Waiting(q, k, p) => Waiting(e, k, p)
  BY <1>4 DEF Waiting
<1>6. \A k \in Closing : \A p : Waiting(e, k, p) => Waiting(q, k, p)
  BY <1>3 DEF Waiting
<1>7. \A i, j \in Int : i - Len(s) < j - Len(s) => i < j
  BY <1>1
<1>8. EndLast(q) => EndLast(e)
  BY <1>3, <1>7 DEF EndLast, Closing
<1> QED BY <1>5, <1>6, <1>8 DEF Follows

\* A request that is run ends no turn.
LEMMA EngineCalm ==
  ASSUME IInv,
         TurnStart \/ Draw \/ Check \/ Bang \/ Damage \/ Death \/ Eliminate \/ Reward \/ Bury
           \/ DiscardAll \/ GhostEnd \/ Verdict
  PROVE  Calm(Popped)
<1>0. playing \in Player \cup {None} /\ flags \in [Player -> SUBSET Flag]
  BY DEF IInv, TypeOK, Flag
<1>1. \A kind : Top(kind) /\ kind # "start" =>
        TurnQueue(Popped) /\ who \in Player /\ by \in Player \cup {None}
  BY Taken, Topmost
<1>2. \A kind : Top(kind) /\ queue' = Popped => Follows(Popped, queue')
  BY Taken, FollowsItself
<1>3. \A kind, k, x, b : Top(kind) /\ kind # "start"
          /\ k \in DOMAIN Priority \ Closing /\ x \in Player \cup {None} /\ b \in Player \cup {None}
          /\ queue' = Enqueue(Popped, Request(k, x, b)) => Follows(Popped, queue')
  BY <1>1, Behind
<1>4. \A kind, killer : Top(kind) /\ kind # "start" /\ killer \in Player \cup {None}
          /\ queue' = HandlePlayerDeath(who, killer, Popped) => Follows(Popped, queue')
  BY <1>0, <1>1, DeathBehind
<1>5. {"damage", "death", "eliminate", "reward", "bury", "bang", "discard_all", "draw",
       "sheriff_discard", "verdict"} \subseteq DOMAIN Priority \ Closing
  BY Priorities DEF Closing
<1>6. ASSUME Follows(Popped, queue'), UNCHANGED <<playing, flags, tableVars>>
      PROVE  Calm(Popped)
  BY <1>6 DEF Calm, HasGhost, tableVars
<1>7. ASSUME Follows(Popped, queue'), UNCHANGED <<playing, tableVars>>, NEW p, NEW F,
             "temp_ghost" \notin F,
             flags' = [flags EXCEPT ![p] = @ \cup F] \/ flags' = [flags EXCEPT ![p] = @ \ F]
      PROVE  Calm(Popped)
  BY <1>0, <1>7 DEF Calm, HasGhost, tableVars
<1>8. CASE TurnStart
  <2>1. Top("turn_start") /\ UNCHANGED <<playing, flags, tableVars>>
        /\ (queue' = Popped \/ queue' = Enqueue(Popped, Request("draw", who, None)))
    BY <1>8 DEF TurnStart, playerVars
  <2> QED BY <1>1, <1>2, <1>3, <1>5, <1>6, <2>1
<1>9. CASE Draw
  BY <1>2, <1>6, <1>9 DEF Draw
<1>10. CASE Check
  BY <1>2, <1>6, <1>10 DEF Check
<1>11. CASE Bang
  BY <1>1, <1>2, <1>3, <1>5, <1>6, <1>11 DEF Bang, playerVars
<1>12. CASE Damage
  <2>1. Top("damage") /\ UNCHANGED <<playing, flags, tableVars>>
        /\ (queue' = Popped \/ queue' = Enqueue(Popped, Request("death", who, by)))
    BY <1>12 DEF Damage
  <2> QED BY <1>1, <1>2, <1>3, <1>5, <1>6, <2>1
<1>13. CASE Death
  BY <1>1, <1>2, <1>4, <1>6, <1>13 DEF Death
<1>14. CASE Eliminate
  BY <1>2, <1>6, <1>7, <1>14 DEF Eliminate
<1>15. CASE Reward
  <2>1. Top("reward") /\ UNCHANGED <<playing, flags, tableVars>>
        /\ (queue' = Popped \/ queue' = Enqueue(Popped, Request("sheriff_discard", by, None)))
    BY <1>15 DEF Reward
  <2> QED BY <1>1, <1>2, <1>3, <1>5, <1>6, <2>1
<1>16. CASE Bury
  <2>1. Top("bury") /\ UNCHANGED <<playing, flags, tableVars>>
        /\ (queue' = Popped \/ queue' = Enqueue(Popped, Request("discard_all", who, None)))
    BY <1>16 DEF Bury, playerVars
  <2> QED BY <1>1, <1>2, <1>3, <1>5, <1>6, <2>1
<1>17. CASE DiscardAll
  <2>1. (Top("discard_all") \/ Top("sheriff_discard")) /\ UNCHANGED <<playing, tableVars>>
        /\ (queue' = Popped \/ queue' = HandlePlayerDeath(who, None, Popped))
        /\ flags' = [flags EXCEPT ![who] = @ \ {"ghost"}]
    BY <1>17 DEF DiscardAll
  <2> QED BY <1>2, <1>4, <1>7, <2>1
<1>18. CASE GhostEnd
  <2>1. Top("ghost_end") /\ UNCHANGED <<playing, tableVars>>
        /\ (queue' = Popped \/ queue' = HandlePlayerDeath(who, None, Popped))
        /\ (flags' = flags \/ flags' = [flags EXCEPT ![who] = @ \ {"temp_ghost"}])
    BY <1>18 DEF GhostEnd
  <2>2. Follows(Popped, queue')
    BY <1>2, <1>4, <2>1
  <2> QED BY <1>0, <2>1, <2>2 DEF Calm, HasGhost, tableVars
<1>19. CASE Verdict
  BY <1>2, <1>6, <1>19 DEF Verdict, playerVars
<1> QED BY <1>8, <1>9, <1>10, <1>11, <1>12, <1>13, <1>14, <1>15, <1>16, <1>17, <1>18, <1>19

\* Nor do the steps in which a turn begins.
LEMMA BeginningCalm ==
  ASSUME IInv, PreTurn \/ Predraw
  PROVE  Calm(Popped)
<1>1. \A kind : Top(kind) /\ kind # "start" => TurnQueue(Popped) /\ who \in Player
  BY Taken
<1>2. ASSUME Follows(Popped, queue'), UNCHANGED <<playing, playerVars, game, scenario, deck>>
      PROVE  Calm(Popped)
  BY <1>2 DEF Calm, HasGhost, playerVars
<1>3. {"bang", "predraw", "damage", "jail"} \subseteq DOMAIN Priority \ Closing
  BY Priorities DEF Closing
<1>4. CASE PreTurn
  <2>1. Top("pre_turn") /\ UNCHANGED <<playing, playerVars, game, scenario, deck>>
    BY <1>4 DEF PreTurn, tableVars
  <2>2. game.maxHit \in Nat
    BY TurnFlowAssumption DEF IInv, TypeOK
  <2>3. PICK bangs \in Nat :
          queue' = Enqueue(EnqueueTimes(Popped, Request("bang", who, None), bangs),
                           Request("predraw", who, None))
    BY <1>4, <2>2 DEF PreTurn
  <2>4. PICK s : s = EnqueueTimes(Popped, Request("bang", who, None), bangs)
    OBVIOUS
  <2>5. Follows(Popped, s) /\ TurnQueue(s)
    BY <1>1, <1>3, <2>1, <2>4, Behind DEF Follows
  <2>6. Follows(s, queue')
    BY <1>1, <1>3, <2>1, <2>3, <2>4, <2>5, Behind
  <2> QED BY <1>2, <2>1, <2>5, <2>6, FollowsChain
<1>5. CASE Predraw
  <2>1. Top("predraw") /\ UNCHANGED <<playing, playerVars, game, scenario, deck>>
    BY <1>5 DEF Predraw, tableVars
  <2>2. TurnQueue(queue')
    BY <1>5, <2>1, PredrawKeeps DEF IInv, Good, TurnQueue, RequestSet, Player, N
  <2>3. CASE queue' = Popped
    BY <1>1, <1>2, <2>1, <2>3, FollowsItself
  <2>4. CASE queue' # Popped
    <3> DEFINE r == Request("jail", who, None)
               d == Request("damage", who, None)
    <3>1. queue' = <<r>> \o Popped \/ queue' = <<d, r>> \o Popped
      BY <1>5, <2>4 DEF Predraw
    <3>2. /\ r \in RequestSet /\ r.kind \notin Closing
          /\ d \in RequestSet /\ d.kind \notin Closing
      BY <1>1, <1>3, <2>1 DEF Request, RequestSet
    <3> HIDE DEF r, d
    <3>3. PICK s \in Seq(RequestSet) :
            queue' = s \o Popped /\ \A i \in DOMAIN s : s[i].kind \notin Closing
      <4>1. <<r>> \in Seq(RequestSet) /\ <<d, r>> \in Seq(RequestSet)
        BY <3>2
      <4>2. /\ \A i \in DOMAIN <<r>> : <<r>>[i].kind \notin Closing
            /\ \A i \in DOMAIN <<d, r>> : <<d, r>>[i].kind \notin Closing
        BY <3>2
      <4> QED BY <3>1, <4>1, <4>2
    <3> QED BY <1>1, <1>2, <2>1, <2>2, <3>3, Before
  <2> QED BY <2>3, <2>4
<1> QED BY <1>4, <1>5

\* A jailed turn begins, or passes to another.
LEMMA JailIs ==
  ASSUME IInv, Turning(FALSE), Jail
  PROVE  Calm(Popped) \/ (SkipTurn(who, Popped) /\ queue' # Popped)
<1>1. Top("jail") /\ game' = game
  BY DEF Jail
<1>2. TurnQueue(Popped) /\ Good(Popped) /\ who \in Player
  BY <1>1, Taken
<1>3. flags \in [Player -> SUBSET Flag] /\ game \in Games
  BY DEF IInv, TypeOK, Flag
<1>4. CASE queue' = Popped /\ UNCHANGED <<playing, playerVars, scenario, deck>>
  BY <1>1, <1>2, <1>4, FollowsItself DEF Calm, HasGhost, playerVars
<1>5. ASSUME SkipTurn(who, Popped), queue' = Popped PROVE Calm(Popped)
  <2> DEFINE f == [flags EXCEPT ![who] = @ \ {"extra_turn"}]
  <2>1. PICK q : q = OnTurnEnd(who, TRUE, Popped)
    OBVIOUS
  <2>2. "jail" \in Steps /\ FALSE \in BOOLEAN /\ TRUE \in BOOLEAN
    BY DEF Steps, Beginning
  <2>3. TurnQueue(q) /\ Good(q) /\ NoneOf(q, Steps) /\ NoneOf(Popped, Steps)
    BY <1>1, <2>1, <2>2, EndQueued, OnTop
  <2>4. StartNextTurn(f, q)
    BY <1>5, <2>1 DEF SkipTurn
  <2>5. SameLives(f) /\ \A p \in Player : "temp_ghost" \in f[p] => HasGhost(p)
    <3>1. SameLives(f)
      BY <1>2, <1>3 DEF SameLives, Alive, AliveWith, Flag
    <3> QED BY <1>2, <1>3, <3>1 DEF HasGhost
  <2> HIDE DEF f
  <2>6. CASE AlivePlayers = {}
    <3>1. UNCHANGED <<playing, scenario, deck>> /\ flags' = f
      BY <2>4, <2>6 DEF StartNextTurn
    <3> QED BY <1>1, <1>2, <1>5, <2>5, <3>1, FollowsItself DEF Calm, HasGhost
  <2>7. CASE playing' \in Player /\ StartOfTurn(playing', q)
    <3>1. PICK p \in Player : p = playing'
      BY <2>7
    <3>2. StartOfTurn(p, q)
      BY <2>7, <3>1
    <3>3. \E i \in DOMAIN queue' : queue'[i].kind = "pre_turn"
      BY <1>3, <2>3, <3>2, TurnBegins
    <3> QED BY <1>5, <2>3, <3>3 DEF NoneOf, Steps, Beginning
  <2> QED BY <1>1, <2>3, <2>4, <2>5, <2>6, <2>7, NextTurnIs
<1>6. \/ SkipTurn(who, Popped)
      \/ queue' = Popped /\ UNCHANGED <<playing, playerVars, scenario, deck>>
  BY DEF Jail
<1> QED BY <1>4, <1>5, <1>6

\* And with nothing queued only Mirage and the passing of a turn end one.
LEMMA RestCalm ==
  ASSUME IInv, Play
  PROVE  AtRest /\ (Calm(queue) \/ \E S \in SUBSET AlivePlayers : Mirage(S))
<1>1. AtRest
  BY DEF Play, Hit, Mirage, UseCards, GoldRush, PlayGhost, LoseGhost, ChangeWws, LadyRosa, Ready
<1>2. TurnQueue(queue) /\ queue = <<>> /\ DOMAIN queue = {} /\ playing \in Player
  BY <1>1, AtRestIs, Resting
<1>3. flags \in [Player -> SUBSET Flag]
  BY DEF IInv, TypeOK, Flag
<1>4. ASSUME Follows(queue, queue'), UNCHANGED <<playing, game, scenario, deck>>, NEW p, NEW F,
             "temp_ghost" \notin F,
             flags' = [flags EXCEPT ![p] = @ \cup F] \/ flags' = [flags EXCEPT ![p] = @ \ F]
      PROVE  Calm(queue)
  BY <1>3, <1>4 DEF Calm, HasGhost
<1>5. queue' = queue => Follows(queue, queue')
  BY <1>2, FollowsItself
<1>6. ASSUME Follows(queue, queue'), UNCHANGED <<playing, flags, game, scenario, deck>>
      PROVE  Calm(queue)
  BY <1>6 DEF Calm, HasGhost
<1>7. ASSUME NEW S \in SUBSET AlivePlayers, Hit(S)
      PROVE  Calm(queue)
  <2>1. UNCHANGED <<playing, flags, game, scenario, deck>>
    BY <1>7 DEF Hit, playerVars, tableVars
  <2>2. TurnQueue(queue') /\ \A i \in DOMAIN queue' : queue'[i].kind = "damage"
    BY <1>1, <1>7, Volley DEF Hit, Good, TurnQueue
  <2>3. \A i \in DOMAIN queue' : queue'[i].kind \notin Closing
    BY <2>2 DEF Closing
  <2>4. Follows(queue, queue')
    BY <1>2, <2>2, <2>3 DEF Follows, Waiting, EndLast, Closing
  <2> QED BY <1>6, <2>1, <2>4
<1>8. ASSUME UseCards \/ GoldRush PROVE Calm(queue)
  <2>1. UNCHANGED <<queue, playing, flags, game, scenario, deck>>
    BY <1>8 DEF UseCards, GoldRush, tableVars
  <2> QED BY <1>5, <1>6, <2>1
<1>9. ASSUME NEW p \in Player, PlayGhost(p) \/ LoseGhost(p) PROVE Calm(queue)
  <2>1. /\ UNCHANGED <<playing, game, scenario, deck>>
        /\ queue' = queue \/ queue' = HandlePlayerDeath(p, None, queue)
        /\ \/ flags' = [flags EXCEPT ![p] = @ \cup {"ghost"}]
           \/ flags' = [flags EXCEPT ![p] = @ \ {"ghost"}]
    BY <1>9 DEF PlayGhost, LoseGhost, tableVars
  <2>2. PICK q : q = queue
    OBVIOUS
  <2>3. Follows(q, HandlePlayerDeath(p, None, q))
    BY <1>2, <2>2, DeathBehind
  <2>4. Follows(queue, queue')
    BY <1>5, <2>1, <2>2, <2>3
  <2> QED BY <1>4, <2>1, <2>4
<1>10. ASSUME NEW card \in wwsDeck \cup {None}, ChangeWws(card) PROVE Calm(queue)
  <2>1. UNCHANGED <<queue, playing, flags, game, scenario, deck>>
    BY <1>10 DEF ChangeWws, playerVars
  <2> QED BY <1>5, <1>6, <2>1
<1>11. ASSUME LadyRosa PROVE Calm(queue)
  <2>1. /\ UNCHANGED <<queue, playing, game, scenario, deck>>
        /\ flags' = [flags EXCEPT ![NearestAlive(playing, -Direction)] = @ \cup {"skip_turn"}]
    BY <1>11 DEF LadyRosa
  <2> QED BY <1>4, <1>5, <2>1
<1>12. Calm(queue) \/ \E S \in SUBSET AlivePlayers : Mirage(S)
  BY <1>7, <1>8, <1>9, <1>10, <1>11 DEF Play
<1> QED BY <1>1, <1>12

(***************************************************************************)
(* The steps that end a turn.                                              *)
(***************************************************************************)

\* Only Ghost Town makes ghosts of its kind, of the player whose turn begins.
LEMMA Haunting ==
  ASSUME game \in Games, flags \in [Player -> SUBSET Flag],
         scenario = "ghost_town" => Alive(first),
         NEW f \in [Player -> SUBSET Flag], NEW q, StartNextTurn(f, q), game' = game
  PROVE  /\ \A p \in Player : HasGhost(p)' =>
              \/ "temp_ghost" \in f[p]
              \/ p = playing' /\ scenario' = "ghost_town" /\ scenario = "ghost_town"
         /\ scenario' \in deck \cup {None, scenario} /\ deck' \subseteq deck
<1>1. CASE AlivePlayers = {}
  BY <1>1 DEF StartNextTurn, HasGhost
<1>2. CASE AlivePlayers # {}
  <2>1. PICK next, passed :
          /\ Revive(next, [p \in Player |-> IF p \in passed THEN f[p] \ {"skip_turn"} ELSE f[p]])
          /\ StartOfTurn(next, q) /\ SwitchTurn(next)
    <3>1. \E next, passed :
            /\ Revive(next, [p \in Player |-> IF p \in passed THEN f[p] \ {"skip_turn"} ELSE f[p]])
            /\ StartOfTurn(next, q) /\ SwitchTurn(next)
      BY <1>2 DEF StartNextTurn
    <3> QED BY <3>1
  <2> DEFINE g == [p \in Player |-> IF p \in passed THEN f[p] \ {"skip_turn"} ELSE f[p]]
  <2>2. /\ g \in [Player -> SUBSET Flag] /\ Revive(next, g) /\ playing' = next
        /\ \A p \in Player : "temp_ghost" \in g[p] => "temp_ghost" \in f[p]
    BY <2>1 DEF StartOfTurn
  <2> HIDE DEF g
  <2>3. /\ None # "ghost_town" /\ None # "dead_man" /\ None # "bone_orchard"
    BY TurnFlowAssumption DEF AllCards, ScenarioCards, WildWestCards
  <2>4. scenario' \in deck \cup {None, scenario} /\ deck' \subseteq deck
    BY <2>1 DEF SwitchTurn
  <2>5. CASE Reviver(next) = "ghost_town"
    <3>1. scenario = "ghost_town" /\ ~Alive(next)
      BY <2>3, <2>5 DEF Reviver
    <3>2. scenario' = scenario
      BY <2>1, <2>3, <2>5, <3>1 DEF SwitchTurn
    <3>3. flags' = [g EXCEPT ![next] = @ \cup {"temp_ghost"}]
      BY <2>2, <2>3, <2>5 DEF Revive
    <3>4. \A p \in Player : HasGhost(p)' => "temp_ghost" \in g[p] \/ p = next
      BY <2>2, <3>3 DEF HasGhost
    <3> QED BY <2>2, <2>4, <3>1, <3>2, <3>4
  <2>6. CASE Reviver(next) # "ghost_town"
    <3>1. Reviver(next) = None \/ Reviver(next) \in {"dead_man", "bone_orchard"}
      BY <2>6, ReviverIs
    <3>2. flags' = g \/ flags' = [g EXCEPT ![next] = @ \ {"dead"}]
      BY <2>2, <2>3, <3>1 DEF Revive
    <3>3. \A p \in Player : HasGhost(p)' => "temp_ghost" \in g[p]
      BY <2>2, <3>2 DEF HasGhost
    <3> QED BY <2>2, <2>4, <3>3
  <2> QED BY <2>5, <2>6
<1> QED BY <1>1, <1>2

\* The turn passes when all ghosts are about to leave.
LEMMA NextHaunts ==
  ASSUME IInv, winners = None, scenario = "ghost_town" => Alive(first),
         NEW f, SameLives(f), \A p \in Player : "temp_ghost" \in f[p] => HasGhost(p),
         NEW q, Good(q), StartNextTurn(f, q), game' = game, extra' = extra,
         \A k \in {"end_turn", "pass", "discard_pass"} : \A p : ~Waiting(q, k, p),
         \A p \in Player : HasGhost(p) =>
           extra[p] = 0 /\ Waiting(q, "ghost_end", p) /\ \A x : ~Waiting(q, "check", x)
  PROVE  GhostsLeave'
<1>1. /\ game \in Games /\ flags \in [Player -> SUBSET Flag]
      /\ f \in [Player -> SUBSET Flag] /\ Player' = Player
  BY SameGame DEF IInv, TypeOK, Flag, SameLives
<1>2. Adds(q, queue', {"pre_turn", "turn_start"})
  BY NextTurn DEF IInv
<1>3. /\ \A k, p : Waiting(q, k, p) => Waiting(queue', k, p)
      /\ \A k \in Closing : \A p : Waiting(queue', k, p) => Waiting(q, k, p)
  BY <1>2 DEF Adds, Closing
<1>4. \A k \in {"end_turn", "pass", "discard_pass"} : \A p : ~Waiting(queue', k, p)
  BY <1>3 DEF Closing
<1>5. \A p \in Player : HasGhost(p)' =>
        \/ "temp_ghost" \in f[p]
        \/ p = playing' /\ scenario' = "ghost_town" /\ scenario = "ghost_town"
  BY <1>1, Haunting
<1>6. Haunted'
  <2> SUFFICES ASSUME NEW p \in Player, HasGhost(p)'
               PROVE  \/ p = playing' /\ scenario' = "ghost_town"
                      \/ /\ extra'[p] = 0 /\ Waiting(queue', "ghost_end", p)
                         /\ \A x : ~Waiting(queue', "check", x)
    BY <1>1 DEF Haunted
  <2>1. CASE "temp_ghost" \in f[p]
    BY <1>3, <2>1 DEF Closing
  <2>2. CASE p = playing' /\ scenario' = "ghost_town"
    BY <2>2
  <2> QED BY <1>5, <2>1, <2>2
<1>7. EndsGhost' /\ PassFirst(queue')
  BY <1>4 DEF EndsGhost, PassFirst
<1>8. EndLast(queue')
  BY <1>4 DEF EndLast, Waiting
<1> QED BY <1>6, <1>7, <1>8 DEF GhostsLeave

\* end_turn is queued behind the ghosts that leave.
LEMMA LastQueued ==
  ASSUME NEW q, TurnQueue(q), \A p : ~Waiting(q, "end_turn", p),
         NEW r \in RequestSet, r.kind = "end_turn"
  PROVE  EndLast(Enqueue(q, r))
<1>1. q \in Seq(RequestSet) /\ Sorted(q)
  BY DEF TurnQueue
<1>2. PICK n \in Nat : n = 1
  OBVIOUS
<1>3. PICK e : e = EnqueueTimes(q, r, n)
  OBVIOUS
<1>4. PICK m \in 1 .. Len(q) + 1 : Inserted(q, e, r, n, m)
  BY <1>1, <1>3, EnqueueIs
<1>5. Len(q) \in Nat /\ DOMAIN q = 1 .. Len(q) /\ DOMAIN e = 1 .. Len(q) + n
  BY <1>1, <1>4, LenProperties DEF Inserted
<1>6. \A i \in DOMAIN e :
        /\ i \in Int /\ (i < m \/ i = m \/ i > m)
        /\ i < m => i \in DOMAIN q /\ e[i] = q[i]
        /\ i > m => e[i] = q[i - n] /\ i - n \in DOMAIN q /\ Priority[e[i].kind] < Priority[r.kind]
  <2> TAKE i \in DOMAIN e
  <2>1. i < m => i \in 1 .. m - 1 /\ i \in DOMAIN q
    BY <1>5
  <2>2. i > m => i - n \in m .. Len(q) /\ (i - n) + n = i
    BY <1>2, <1>5
  <2>3. i \in Int /\ (i < m \/ i = m \/ i > m)
    BY <1>5
  <2>4. i > m => i - n \in DOMAIN q
    BY <1>5, <2>2
  <2> QED BY <1>4, <2>1, <2>2, <2>3, <2>4 DEF Inserted
<1>7. \A i \in DOMAIN e : e[i].kind = "end_turn" => i = m
  BY <1>6 DEF Waiting
<1>8. \A i \in DOMAIN e : e[i].kind = "ghost_end" => i < m
  <2> SUFFICES ASSUME NEW i \in DOMAIN e, e[i].kind = "ghost_end" PROVE i < m
    OBVIOUS
  <2>1. Priority["ghost_end"] = Priority["end_turn"]
    BY Priorities
  <2>2. Priority["end_turn"] \in Int
    BY Priorities
  <2>3. ~ (i > m)
    BY <1>6, <2>1, <2>2
  <2>4. e[m] = r
    <3>1. m \in m .. m + n - 1
      BY <1>2, <1>5
    <3> QED BY <1>4, <3>1 DEF Inserted
  <2>5. i # m
    BY <2>4
  <2> QED BY <1>6, <2>3, <2>5
<1>9. EndLast(e)
  BY <1>7, <1>8 DEF EndLast
<1> QED BY <1>2, <1>3, <1>9 DEF Enqueue

\* The turn is passed: a ghost leaves with it.
LEMMA PassHaunts ==
  ASSUME IInv, Haunted, NEW q, TurnQueue(q), Good(q), playing \in Player,
         PassWithoutDiscard(playing, q), UNCHANGED <<game, playing, flags, extra, scenario>>,
         \A p : ~Waiting(queue, "ghost_end", p),
         \A k \in {"end_turn", "pass", "discard_pass"} : \A p : ~Waiting(q, k, p)
  PROVE  GhostsLeave'
<1>0. game \in Games /\ Player' = Player /\ FALSE \in BOOLEAN
  BY SameGame DEF IInv, TypeOK
<1>1. PICK s : s = OnTurnEnd(playing, FALSE, q)
  OBVIOUS
<1>2. PICK r \in RequestSet : r = Request("end_turn", playing, None)
  BY Priorities DEF Request, RequestSet
<1>3. queue' = Enqueue(s, r)
  BY <1>1, <1>2 DEF PassWithoutDiscard
<1>4. TurnQueue(s) /\ Adds(q, s, {"check", "ghost_end"})
  BY <1>0, <1>1, TurnEndQueued, TurnEndAdds
<1>5. r.kind = "end_turn" /\ \A p : ~Waiting(s, "end_turn", p)
  BY <1>2, <1>4 DEF Request, Adds
<1>6. EndLast(queue')
  BY <1>3, <1>4, <1>5, LastQueued
<1>7. Adds(q, queue', {"check", "ghost_end", "end_turn"})
  BY <1>0, PassAdds
<1>8. PassFirst(queue')
  BY <1>7 DEF Adds, PassFirst
<1>9. \A p \in Player : HasGhost(p)' => p = playing /\ scenario = "ghost_town"
  BY DEF Haunted, HasGhost
<1>10. Haunted'
  BY <1>0, <1>9 DEF Haunted
<1>11. ASSUME scenario = "ghost_town" PROVE Waiting(queue', "ghost_end", playing)
  <2>1. PICK c : Good(c) /\ s = Enqueue(c, Request("ghost_end", playing, None))
    <3> DEFINE c == IF ~FALSE /\ "don_bell" \in Cards /\ "extra_turn" \notin flags[playing]
                    THEN Enqueue(q, Request("check", playing, None)) ELSE q
    <3>1. s = Enqueue(c, Request("ghost_end", playing, None))
      BY <1>1, <1>11 DEF OnTurnEnd
    <3>2. "check" \in DOMAIN Priority \ Kinds /\ None \in Player \cup {None} /\ 1 \in Nat
      BY Priorities DEF Kinds
    <3>3. Good(c)
      BY <1>0, <3>2, AddQuiet DEF Adds
    <3> HIDE DEF c
    <3> QED BY <3>1, <3>3
  <2>2. "ghost_end" \in DOMAIN Priority \ Kinds /\ None \in Player \cup {None} /\ 1 \in Nat
    BY Priorities DEF Kinds
  <2>3. Waiting(s, "ghost_end", playing)
    BY <1>0, <2>1, <2>2, AddQuiet
  <2>4. \A k, p : Waiting(s, k, p) => Waiting(EnqueueTimes(s, r, 1), k, p)
    BY <1>4, StillWaiting
  <2> QED BY <1>3, <2>3, <2>4 DEF Enqueue
<1>12. HasGhost(playing)' => Waiting(queue', "ghost_end", playing)
  BY <1>9, <1>11 DEF HasGhost
<1>13. EndsGhost'
  BY <1>0, <1>12 DEF EndsGhost, HasGhost
<1> QED BY <1>6, <1>8, <1>10, <1>13 DEF GhostsLeave

\* The cards to discard come first.
LEMMA DiscardHaunts ==
  ASSUME IInv, Haunted, NEW q, Good(q), playing \in Player, NEW kind \in {"pass", "discard_pass"},
         queue' = Enqueue(q, Request(kind, playing, None)),
         UNCHANGED <<game, playing, flags, extra, scenario>>,
         \A k \in {"end_turn", "ghost_end"} : \A p : ~Waiting(q, k, p),
         \A p : ~Waiting(queue, "ghost_end", p)
  PROVE  GhostsLeave'
<1>0. game \in Games /\ Player' = Player
  BY SameGame DEF IInv, TypeOK
<1>1. kind \in DOMAIN Priority \ Kinds /\ None \in Player \cup {None} /\ 1 \in Nat
  BY Priorities DEF Kinds
<1>2. Adds(q, queue', {kind})
  BY <1>0, <1>1, AddQuiet
<1>3. \A k \in {"end_turn", "ghost_end"} : \A p : ~Waiting(queue', k, p)
  BY <1>2 DEF Adds
<1>4. \A p \in Player : HasGhost(p)' => p = playing /\ scenario = "ghost_town"
  BY DEF Haunted, HasGhost
<1>5. Haunted'
  BY <1>0, <1>4 DEF Haunted
<1>6. EndsGhost' /\ PassFirst(queue')
  BY <1>3 DEF EndsGhost, PassFirst
<1>7. EndLast(queue')
  BY <1>3 DEF EndLast, Waiting
<1> QED BY <1>5, <1>6, <1>7 DEF GhostsLeave

(***************************************************************************)
(* Every action.                                                           *)
(***************************************************************************)

LEMMA EngineHaunts ==
  ASSUME IInv, GhostsLeave,
         \/ TurnStart \/ Draw \/ Check \/ Bang \/ Damage \/ Death \/ Eliminate \/ Reward \/ Bury
         \/ DiscardAll \/ GhostEnd \/ Verdict
         \/ PreTurn \/ Predraw \/ (Jail /\ Calm(Popped))
  PROVE  GhostsLeave'
<1>0. /\ game \in Games /\ extra \in [Player -> Nat] /\ flags \in [Player -> SUBSET Flag]
      /\ EndLast(queue)
  BY DEF IInv, TypeOK, Flag, GhostsLeave
<1>1. Calm(Popped)
  BY EngineCalm, BeginningCalm
<1>2. PICK q : q = Popped
  OBVIOUS
<1>3. Calm(q)
  BY <1>1, <1>2
<1>4. ASSUME NEW kind, Top(kind), kind # "ghost_end",
             \/ extra' = extra
             \/ kind = "check" /\ \A p \in Player : extra'[p] = extra[p] \/ extra'[p] > 0
      PROVE  GhostsLeave'
  <2>1. TurnQueue(q) /\ EndLast(q)
        /\ \A k, p : Waiting(queue, k, p) <=> Waiting(q, k, p) \/ (k = kind /\ p = who)
    BY <1>0, <1>2, <1>4, Taken
  <2>2. \A p \in Player : Waiting(queue, "ghost_end", p) => Waiting(q, "ghost_end", p)
    BY <1>4, <2>1
  <2>3. \/ extra' = extra
        \/ /\ \E x : Waiting(queue, "check", x)
           /\ \A p \in Player : extra'[p] = extra[p] \/ extra'[p] > 0
    BY <1>4, <2>1
  <2> QED BY <1>0, <1>3, <2>1, <2>2, <2>3, CalmLeaves
<1>5. CASE Check
  <2>1. Top("check") /\ extra' \in {extra, [extra EXCEPT ![who] = @ + 1]}
    BY <1>5 DEF Check
  <2>2. extra' = extra \/ \A p \in Player : extra'[p] = extra[p] \/ extra'[p] > 0
    BY <1>0, <2>1
  <2> QED BY <1>4, <2>1, <2>2
<1>6. CASE GhostEnd
  <2>1. /\ Top("ghost_end") /\ extra' = extra
        /\ extra[who] = 0 /\ "temp_ghost" \in flags[who]
             => flags' = [flags EXCEPT ![who] = @ \ {"temp_ghost"}]
    BY <1>6 DEF GhostEnd
  <2>2. /\ TurnQueue(q) /\ EndLast(q)
        /\ \A k, p : Waiting(queue, k, p) <=> Waiting(q, k, p) \/ (k = "ghost_end" /\ p = who)
        /\ who \in Player
    BY <1>0, <1>2, <2>1, Taken
  <2>3. extra[who] > 0 \/ "temp_ghost" \notin flags'[who]
    <3>0. extra[who] \in Nat
      BY <1>0, <2>2
    <3>1. CASE extra[who] = 0 /\ "temp_ghost" \in flags[who]
      BY <1>0, <2>1, <2>2, <3>1 DEF HasGhost
    <3>2. CASE "temp_ghost" \notin flags[who]
      BY <1>1, <2>2, <3>2 DEF Calm, HasGhost
    <3> QED BY <3>0, <3>1, <3>2
  <2>4. \A p \in Player : Waiting(queue, "ghost_end", p) /\ ~Waiting(q, "ghost_end", p)
          => extra[p] > 0 \/ ~HasGhost(p)'
    <3> SUFFICES ASSUME NEW p \in Player, Waiting(queue, "ghost_end", p),
                        ~Waiting(q, "ghost_end", p)
                 PROVE  extra[p] > 0 \/ ~HasGhost(p)'
      OBVIOUS
    <3>1. p = who
      BY <2>2
    <3> QED BY <2>1, <2>3, <3>1 DEF HasGhost
  <2>5. \A k, p : Waiting(q, k, p) => Waiting(queue, k, p)
    BY <2>2
  <2> QED BY <1>0, <1>3, <2>1, <2>2, <2>4, <2>5, CalmLeaves
<1>7. CASE TurnStart \/ Draw \/ Bang \/ Damage \/ Death \/ Eliminate \/ Reward \/ Bury
             \/ DiscardAll \/ Verdict \/ PreTurn \/ Predraw
  <2>1. /\ extra' = extra
        /\ \E kind \in {"turn_start", "draw", "bang", "damage", "death", "eliminate", "reward",
                        "bury", "discard_all", "sheriff_discard", "verdict", "pre_turn",
                        "predraw"} : Top(kind)
    BY <1>7 DEF TurnStart, Draw, Bang, Damage, Death, Eliminate, Reward, Bury, DiscardAll, Verdict,
       PreTurn, Predraw, playerVars
  <2> QED BY <1>4, <2>1
<1>8. CASE Jail /\ Calm(Popped)
  <2>1. Top("jail") /\ extra' = extra
    BY <1>8 DEF Jail, playerVars
  <2> QED BY <1>4, <2>1
<1> QED BY <1>5, <1>6, <1>7, <1>8

LEMMA PlayHaunts == ASSUME IInv, GhostsLeave, Play PROVE GhostsLeave'
<1>0. /\ game \in Games /\ extra \in [Player -> Nat] /\ flags \in [Player -> SUBSET Flag]
      /\ EndLast(queue)
  BY DEF IInv, TypeOK, Flag, GhostsLeave
<1>1. AtRest
  BY DEF Play, Hit, Mirage, UseCards, GoldRush, PlayGhost, LoseGhost, ChangeWws, LadyRosa, Ready
<1>2. /\ TurnQueue(queue) /\ playing \in Player /\ DOMAIN queue = {}
      /\ \A k, p : ~Waiting(queue, k, p)
  BY <1>1, AtRestIs, Resting
<1>3. \A p \in Player : HasGhost(p) => p = playing /\ scenario = "ghost_town"
  BY <1>2 DEF GhostsLeave, Haunted
<1>4. ASSUME NEW S \in SUBSET AlivePlayers, Mirage(S) PROVE GhostsLeave'
  <2>1. UNCHANGED <<game, playing, flags, scenario>>
    BY <1>4 DEF Mirage, playerVars, tableVars
  <2>2. \A i \in DOMAIN queue' : queue'[i].kind \in {"damage", "skip"}
    BY <1>4, Answered DEF Request
  <2>3. \A k, p : Waiting(queue', k, p) => k \in {"damage", "skip"}
    BY <2>2 DEF Waiting
  <2>4. Haunted'
    BY <1>3, <2>1, SameGame DEF Haunted, HasGhost
  <2>5. EndsGhost' /\ PassFirst(queue')
    BY <2>3 DEF EndsGhost, PassFirst
  <2>6. EndLast(queue')
    BY <2>2 DEF EndLast
  <2> QED BY <2>4, <2>5, <2>6 DEF GhostsLeave
<1>5. CASE Calm(queue)
  <2>1. PICK q : q = queue
    OBVIOUS
  <2>2. Calm(q) /\ TurnQueue(q) /\ EndLast(q) /\ \A k, p : Waiting(q, k, p) <=> Waiting(queue, k, p)
    BY <1>0, <1>2, <1>5, <2>1
  <2>3. CASE ~GoldRush
    <3>1. extra' = extra
      BY <2>3 DEF Play, Hit, Mirage, UseCards, PlayGhost, LoseGhost, ChangeWws, LadyRosa, playerVars
    <3> QED BY <1>0, <2>2, <3>1, CalmLeaves
  <2>4. CASE GoldRush
    <3>1. UNCHANGED <<queue, game, playing, flags, scenario>>
      BY <2>4 DEF GoldRush, tableVars
    <3>2. Haunted'
      BY <1>3, <3>1, SameGame DEF Haunted, HasGhost
    <3>3. EndsGhost' /\ PassFirst(queue') /\ EndLast(queue')
      BY <1>2, <3>1 DEF EndsGhost, PassFirst, EndLast
    <3> QED BY <3>2, <3>3 DEF GhostsLeave
  <2> QED BY <2>3, <2>4
<1> QED BY <1>4, <1>5, RestCalm

LEMMA PassedHaunts == ASSUME IInv, GhostsLeave, Pass PROVE GhostsLeave'
<1>1. AtRest /\ PassTurn(playing, queue) /\ UNCHANGED <<game, playing, flags, extra, scenario>>
  BY DEF Pass, Ready, playerVars
<1>2. /\ TurnQueue(queue) /\ Good(queue) /\ playing \in Player
      /\ \A k, p : ~Waiting(queue, k, p)
  BY <1>1, AtRestIs, Resting
<1>3. PICK q : q = queue
  OBVIOUS
<1>4. Haunted /\ TurnQueue(q) /\ Good(q) /\ \A k, p : ~Waiting(q, k, p)
  BY <1>2, <1>3 DEF GhostsLeave
<1>5. CASE queue' = Enqueue(queue, Request("discard_pass", playing, None))
  BY <1>1, <1>2, <1>3, <1>4, <1>5, DiscardHaunts
<1>6. CASE PassWithoutDiscard(playing, queue)
  <2>1. PassWithoutDiscard(playing, q)
    BY <1>3, <1>6
  <2> QED BY <1>1, <1>2, <1>4, <2>1, PassHaunts
<1> QED BY <1>1, <1>5, <1>6 DEF PassTurn

LEMMA DiscardPassHaunts ==
  ASSUME IInv, Turning(FALSE), GhostsLeave, DiscardPass \/ PassAgain
  PROVE  GhostsLeave'
<1>1. PICK kind \in {"discard_pass", "pass"} :
        /\ Top(kind) /\ UNCHANGED <<game, playing, flags, extra, scenario>>
        /\ IF kind = "discard_pass" THEN queue' = Enqueue(Popped, Request("pass", who, None))
                                    ELSE PassWithoutDiscard(who, Popped)
  BY DEF DiscardPass, PassAgain, playerVars, tableVars
<1>2. kind \in Steps /\ FALSE \in BOOLEAN /\ kind # "start"
  BY DEF Steps, Ending
<1>3. who = playing /\ NoneOf(Popped, Steps)
  BY <1>1, <1>2, OnTop
<1>4. PICK q : q = Popped
  OBVIOUS
<1>5. /\ TurnQueue(q) /\ Good(q) /\ playing \in Player
      /\ \A k, p : Waiting(queue, k, p) <=> Waiting(q, k, p) \/ (k = kind /\ p = who)
  BY <1>1, <1>2, <1>3, <1>4, Taken
<1>6. \A p : ~Waiting(queue, "ghost_end", p)
  BY <1>1, <1>5 DEF GhostsLeave, PassFirst
<1>7. \A k \in {"end_turn", "pass", "discard_pass"} : \A p : ~Waiting(q, k, p)
  BY <1>3, <1>4 DEF NoneOf, Waiting, Steps, Ending
<1>8. \A p : ~Waiting(q, "ghost_end", p)
  BY <1>5, <1>6
<1>9. Haunted
  BY DEF GhostsLeave
<1>10. CASE kind = "discard_pass"
  <2>1. queue' = Enqueue(q, Request("pass", playing, None))
    BY <1>1, <1>3, <1>4, <1>10
  <2> QED BY <1>1, <1>5, <1>6, <1>7, <1>8, <1>9, <2>1, DiscardHaunts
<1>11. CASE kind = "pass"
  <2>1. PassWithoutDiscard(playing, q)
    BY <1>1, <1>3, <1>4, <1>11
  <2> QED BY <1>1, <1>5, <1>6, <1>7, <1>9, <2>1, PassHaunts
<1> QED BY <1>1, <1>10, <1>11

\* The turn of a ghost that is skipped was its last, and no turn is skipped under
\* Ghost Town while the first player waits for the verdict.
SpentWhenSkipped ==
  Skip \/ (Jail /\ queue' # Popped) =>
    /\ HasGhost(who) => extra[who] = 0
    /\ scenario = "ghost_town" => Alive(first)

\* A turn that is skipped leaves nothing but the ghost that leaves.
LEMMA SkippedTurn ==
  ASSUME IInv, Turning(FALSE), NEW kind \in {"jail", "skip"}, Top(kind),
         SkipTurn(who, Popped), NEW q, q = OnTurnEnd(who, TRUE, Popped)
  PROVE  LET f == [flags EXCEPT ![who] = @ \ {"extra_turn"}]
         IN  /\ StartNextTurn(f, q) /\ SameLives(f) /\ Good(q) /\ winners = None
             /\ \A p \in Player : "temp_ghost" \in f[p] => HasGhost(p)
             /\ who = playing
             /\ \A p : ~Waiting(queue, "check", p) /\ ~Waiting(q, "check", p)
             /\ \A k \in {"end_turn", "pass", "discard_pass", "skip"} : \A p : ~Waiting(q, k, p)
             /\ \A p : Waiting(queue, "ghost_end", p) => Waiting(q, "ghost_end", p)
             /\ scenario = "ghost_town" => Waiting(q, "ghost_end", who)
<1> DEFINE f == [flags EXCEPT ![who] = @ \ {"extra_turn"}]
<1>0. game \in Games /\ flags \in [Player -> SUBSET Flag]
  BY DEF IInv, TypeOK, Flag
<1>1. /\ winners = None /\ who \in Player /\ Good(Popped)
      /\ \A k, p : Waiting(queue, k, p) <=> Waiting(Popped, k, p) \/ (k = kind /\ p = who)
      /\ \A k, p : Waiting(Popped, k, p) => k \in DOMAIN Priority /\ Priority[k] <= Priority[kind]
  BY Topmost
<1>2. who = playing /\ NoneOf(Popped, Steps)
  <2>1. kind \in Steps /\ FALSE \in BOOLEAN
    BY DEF Steps, Beginning, Ending
  <2> QED BY <2>1, OnTop
<1>3. \A p : ~Waiting(queue, "check", p)
  <2>1. ~ (Priority["check"] <= Priority["jail"]) /\ ~ (Priority["check"] <= Priority["skip"])
    BY Priorities
  <2> QED BY <1>1, <2>1
<1>4. StartNextTurn(f, q)
  BY DEF SkipTurn
<1>5. SameLives(f) /\ \A p \in Player : "temp_ghost" \in f[p] => HasGhost(p)
  <2>1. SameLives(f)
    BY <1>0, <1>1 DEF SameLives, Alive, AliveWith, Flag
  <2> QED BY <1>0, <2>1 DEF HasGhost
<1>6. Adds(Popped, q, {"check", "ghost_end"})
  BY <1>0, <1>1, TurnEndAdds
<1>7. \A k \in {"end_turn", "pass", "discard_pass", "skip"} : \A p : ~Waiting(Popped, k, p)
  BY <1>2 DEF NoneOf, Waiting, Steps, Ending
<1>8. \A k \in {"end_turn", "pass", "discard_pass", "skip"} : \A p : ~Waiting(q, k, p)
  BY <1>6, <1>7 DEF Adds
<1>9. /\ scenario = "ghost_town" => Waiting(q, "ghost_end", who)
      /\ \A x : ~Waiting(q, "check", x)
  <2>1. "ghost_end" \in DOMAIN Priority \ Kinds /\ None \in Player \cup {None} /\ 1 \in Nat
    BY Priorities DEF Kinds
  <2>2. \A x : ~Waiting(Popped, "check", x)
    BY <1>1, <1>3
  <2>3. CASE scenario = "ghost_town"
    <3>1. q = Enqueue(Popped, Request("ghost_end", who, None))
      BY <2>3 DEF OnTurnEnd
    <3>2. PICK e : e = Enqueue(Popped, Request("ghost_end", who, None))
      OBVIOUS
    <3>3. Adds(Popped, e, {"ghost_end"}) /\ Waiting(e, "ghost_end", who)
      BY <1>0, <1>1, <2>1, <3>2, AddQuiet
    <3>4. \A x : ~Waiting(e, "check", x)
      BY <2>2, <3>3 DEF Adds
    <3> QED BY <3>1, <3>2, <3>3, <3>4
  <2>4. CASE scenario # "ghost_town"
    <3>1. q = Popped
      BY <2>4 DEF OnTurnEnd
    <3> QED BY <2>2, <2>4, <3>1
  <2> QED BY <2>3, <2>4
<1>10. Good(q) /\ \A p : Waiting(queue, "ghost_end", p) => Waiting(q, "ghost_end", p)
  <2>1. Good(q)
    BY <1>6 DEF Adds
  <2>2. \A p : Waiting(queue, "ghost_end", p) => Waiting(Popped, "ghost_end", p)
    BY <1>1
  <2>3. \A p : Waiting(Popped, "ghost_end", p) => Waiting(q, "ghost_end", p)
    BY <1>6 DEF Adds
  <2> QED BY <2>1, <2>2, <2>3
<1> HIDE DEF f
<1>11. /\ StartNextTurn(f, q) /\ SameLives(f) /\ Good(q) /\ winners = None
       /\ \A p \in Player : "temp_ghost" \in f[p] => HasGhost(p)
       /\ who = playing
       /\ \A p : ~Waiting(queue, "check", p) /\ ~Waiting(q, "check", p)
       /\ \A k \in {"end_turn", "pass", "discard_pass", "skip"} : \A p : ~Waiting(q, k, p)
       /\ \A p : Waiting(queue, "ghost_end", p) => Waiting(q, "ghost_end", p)
       /\ scenario = "ghost_town" => Waiting(q, "ghost_end", who)
  BY <1>1, <1>2, <1>3, <1>4, <1>5, <1>8, <1>9, <1>10
<1> QED BY <1>11 DEF f

LEMMA SkipHaunts ==
  ASSUME IInv, Turning(FALSE), GhostsLeave, NEW kind \in {"jail", "skip"}, Top(kind),
         SkipTurn(who, Popped), game' = game, extra' = extra,
         HasGhost(who) => extra[who] = 0, scenario = "ghost_town" => Alive(first)
  PROVE  GhostsLeave'
<1>1. PICK q : q = OnTurnEnd(who, TRUE, Popped)
  OBVIOUS
<1>2. PICK f :
        /\ StartNextTurn(f, q) /\ SameLives(f) /\ Good(q) /\ winners = None
        /\ \A p \in Player : "temp_ghost" \in f[p] => HasGhost(p)
        /\ who = playing
        /\ \A p : ~Waiting(queue, "check", p) /\ ~Waiting(q, "check", p)
        /\ \A k \in {"end_turn", "pass", "discard_pass", "skip"} : \A p : ~Waiting(q, k, p)
        /\ \A p : Waiting(queue, "ghost_end", p) => Waiting(q, "ghost_end", p)
        /\ scenario = "ghost_town" => Waiting(q, "ghost_end", who)
  BY <1>1, SkippedTurn
<1>3. ASSUME NEW p \in Player, HasGhost(p)
      PROVE  extra[p] = 0 /\ Waiting(q, "ghost_end", p) /\ \A x : ~Waiting(q, "check", x)
  <2>1. CASE p = playing /\ scenario = "ghost_town"
    BY <1>2, <1>3, <2>1
  <2>2. CASE extra[p] = 0 /\ Waiting(queue, "ghost_end", p)
    BY <1>2, <2>2
  <2> QED BY <1>3, <2>1, <2>2 DEF GhostsLeave, Haunted
<1>4. \A k \in {"end_turn", "pass", "discard_pass"} : \A p : ~Waiting(q, k, p)
  BY <1>2
<1> QED BY <1>2, <1>3, <1>4, NextHaunts

\* At the end of a turn the ghosts that leave have left.
LEMMA EndTurnHaunts ==
  ASSUME IInv, Turning(FALSE), GhostsLeave, EndTurn
  PROVE  GhostsLeave'
<1>0. /\ game \in Games /\ flags \in [Player -> SUBSET Flag] /\ extra \in [Player -> Nat]
      /\ game' = game /\ Player' = Player /\ FALSE \in BOOLEAN
  BY SameGame DEF IInv, TypeOK, Flag, EndTurn
<1>1. Top("end_turn")
  BY DEF EndTurn
<1>2. /\ winners = None /\ who \in Player /\ Good(Popped)
      /\ \A k, p : Waiting(queue, k, p) <=> Waiting(Popped, k, p) \/ (k = "end_turn" /\ p = who)
      /\ \A k, p : Waiting(Popped, k, p)
           => k \in DOMAIN Priority /\ Priority[k] <= Priority["end_turn"]
  BY <1>1, Topmost
<1>3. who = playing /\ NoneOf(Popped, Steps)
  BY <1>0, <1>1, OnTop DEF Steps, Ending
<1>4. \A p : ~Waiting(queue, "ghost_end", p)
  <2>1. TurnQueue(queue) /\ queue # <<>> /\ Head(queue).kind = "end_turn"
    BY <1>1 DEF IInv, Good, TurnQueue, Top
  <2>2. 1 \in DOMAIN queue /\ queue[1] = Head(queue) /\ queue \in Seq(RequestSet)
    BY <2>1, Popping DEF TurnQueue
  <2>3. \A j \in DOMAIN queue : ~ (j < 1)
    BY <2>2, LenProperties
  <2> QED BY <2>1, <2>2, <2>3 DEF GhostsLeave, EndLast, Waiting
<1>5. Alive(first)
  <2>1. ~ (Priority["verdict"] <= Priority["end_turn"])
    BY Priorities
  <2> QED BY <1>2, <2>1 DEF IInv, FirstLives
<1>6. \A p \in Player : HasGhost(p) => p = playing /\ scenario = "ghost_town" /\ extra[p] > 0
  <2> TAKE p \in Player
  <2> HAVE HasGhost(p)
  <2>1. p = playing /\ scenario = "ghost_town"
    BY <1>4 DEF GhostsLeave, Haunted
  <2>2. Waiting(queue, "end_turn", who)
    BY <1>2
  <2> QED BY <1>4, <2>1, <2>2 DEF GhostsLeave, EndsGhost
<1>7. \A k \in {"end_turn", "pass", "discard_pass"} : \A p : ~Waiting(Popped, k, p)
  BY <1>3 DEF NoneOf, Waiting, Steps, Ending
<1>8. CASE extra[who] = 0
  <2> DEFINE f == [flags EXCEPT ![who] = @ \ {"extra_turn"}]
  <2>1. StartNextTurn(f, Popped) /\ extra' = extra
    BY <1>8 DEF EndTurn
  <2>2. SameLives(f) /\ \A p \in Player : "temp_ghost" \in f[p] => HasGhost(p)
    <3>1. SameLives(f)
      BY <1>0, <1>2 DEF SameLives, Alive, AliveWith, Flag
    <3> QED BY <1>0, <3>1 DEF HasGhost
  <2> HIDE DEF f
  <2>3. \A p \in Player : ~HasGhost(p)
    BY <1>0, <1>3, <1>6, <1>8
  <2>4. PICK q : q = Popped
    OBVIOUS
  <2>5. /\ Good(q) /\ StartNextTurn(f, q)
        /\ \A k \in {"end_turn", "pass", "discard_pass"} : \A p : ~Waiting(q, k, p)
    BY <1>2, <1>7, <2>1, <2>4
  <2> QED BY <1>0, <1>2, <1>5, <2>1, <2>2, <2>3, <2>5, NextHaunts
<1>9. CASE extra[who] # 0
  <2>1. StartOfTurn(who, Popped) /\ scenario' = scenario
        /\ flags' = [flags EXCEPT ![who] = @ \cup {"extra_turn"}]
    BY <1>9 DEF EndTurn
  <2>2. playing' = who /\ Adds(Popped, queue', {"pre_turn", "turn_start"})
    BY <1>0, <1>2, <2>1, StartOfTurnAdds
  <2>3. \A p \in Player : HasGhost(p)' => HasGhost(p)
    BY <1>0, <2>1 DEF HasGhost
  <2>4. Haunted'
    BY <1>0, <1>3, <1>6, <2>1, <2>2, <2>3 DEF Haunted
  <2>5. \A k \in {"end_turn", "pass", "discard_pass"} : \A p : ~Waiting(queue', k, p)
    BY <1>7, <2>2 DEF Adds
  <2>6. EndsGhost' /\ PassFirst(queue')
    BY <2>5 DEF EndsGhost, PassFirst
  <2>7. EndLast(queue')
    BY <2>5 DEF EndLast, Waiting
  <2> QED BY <2>4, <2>6, <2>7 DEF GhostsLeave
<1> QED BY <1>8, <1>9

LEMMA StartHaunts ==
  ASSUME IInv, Turning(FALSE), GhostsLeave, Start \/ ReadyDead
  PROVE  GhostsLeave'
<1>1. PICK q : q = IF Start THEN Popped ELSE queue
  OBVIOUS
<1>2. StartNextTurn(flags, q) /\ game' = game /\ extra' = extra
  BY <1>1 DEF Start, ReadyDead
<1>3. SameLives(flags) /\ \A p \in Player : "temp_ghost" \in flags[p] => HasGhost(p)
  BY DEF SameLives, IInv, TypeOK, Flag, Alive, HasGhost
<1>4. CASE Start
  <2>1. Top("start")
    BY <1>4 DEF Start
  <2>2. winners = None /\ Good(q)
        /\ \A k, p : Waiting(queue, k, p) <=> Waiting(q, k, p) \/ (k = "start" /\ p = who)
    BY <1>1, <1>4, <2>1, Taken
  <2>3. playing = None
    <3>1. 1 \in DOMAIN queue /\ queue[1].kind = "start"
      <4>1. TurnQueue(queue) /\ queue # <<>>
        BY <2>1 DEF IInv, Good, TurnQueue, Top
      <4> QED BY <2>1, <4>1, Popping DEF Top
    <3> QED BY <3>1 DEF Turning, Single
  <2>4. queue = <<Request("start", None, None)>> /\ flags = [p \in Player |-> {}]
    BY <2>3 DEF IInv, Fresh
  <2>5. \A p \in Player : ~HasGhost(p)
    BY <2>4 DEF HasGhost
  <2>6. \A k, p : Waiting(queue, k, p) => k = "start"
    BY <2>4 DEF Waiting, Request
  <2>7. /\ Alive(first)
        /\ \A k \in {"end_turn", "pass", "discard_pass"} : \A p : ~Waiting(q, k, p)
    BY <2>2, <2>6 DEF IInv, FirstLives
  <2> QED BY <1>2, <1>3, <2>2, <2>5, <2>7, NextHaunts
<1>5. CASE ReadyDead /\ ~Start
  <2>1. AtRest /\ ~Alive(playing) /\ q = queue
    BY <1>1, <1>5 DEF ReadyDead
  <2>2. Good(q) /\ winners = None /\ \A k, p : ~Waiting(queue, k, p) /\ ~Waiting(q, k, p)
    BY <2>1, Resting
  <2>3. Alive(first) /\ \A p \in Player : ~HasGhost(p)
    <3>1. Alive(first)
      BY <2>2 DEF IInv, FirstLives
    <3> QED BY <2>1, <2>2, <3>1 DEF GhostsLeave, Haunted, HasGhost, Alive, AliveWith
  <2> QED BY <1>2, <1>3, <2>2, <2>3, NextHaunts
<1> QED BY <1>4, <1>5

LEMMA GhostsLeaveNext ==
  IInv /\ Turning(FALSE) /\ GhostsLeave /\ [Next]_vars /\ SpentWhenSkipped => GhostsLeave'
<1> SUFFICES ASSUME IInv, Turning(FALSE), GhostsLeave, [Next]_vars, SpentWhenSkipped
             PROVE  GhostsLeave'
  OBVIOUS
<1>1. CASE TurnStart \/ Draw \/ Check \/ Bang \/ Damage \/ Death \/ Eliminate \/ Reward \/ Bury
             \/ DiscardAll \/ GhostEnd \/ Verdict \/ PreTurn \/ Predraw
  BY <1>1, EngineHaunts
<1>2. CASE Jail
  <2>1. Top("jail") /\ game' = game
    BY <1>2 DEF Jail
  <2>2. CASE Calm(Popped)
    BY <1>2, <2>2, EngineHaunts
  <2>3. CASE SkipTurn(who, Popped) /\ queue' # Popped
    <3>1. extra' = extra
      BY <1>2 DEF Jail, playerVars
    <3>2. (HasGhost(who) => extra[who] = 0) /\ (scenario = "ghost_town" => Alive(first))
      BY <1>2, <2>3 DEF SpentWhenSkipped
    <3> QED BY <2>1, <2>3, <3>1, <3>2, SkipHaunts
  <2> QED BY <1>2, <2>2, <2>3, JailIs
<1>3. CASE Skip
  <2>1. Top("skip") /\ SkipTurn(who, Popped) /\ game' = game /\ extra' = extra
    BY <1>3 DEF Skip
  <2>2. (HasGhost(who) => extra[who] = 0) /\ (scenario = "ghost_town" => Alive(first))
    BY <1>3 DEF SpentWhenSkipped
  <2> QED BY <2>1, <2>2, SkipHaunts
<1>4. CASE Start \/ ReadyDead
  BY <1>4, StartHaunts
<1>5. CASE EndTurn
  BY <1>5, EndTurnHaunts
<1>6. CASE DiscardPass \/ PassAgain
  BY <1>6, DiscardPassHaunts
<1>7. CASE Pass
  BY <1>7, PassedHaunts
<1>8. CASE Play
  BY <1>8, PlayHaunts
<1>9. CASE GameOver \/ UNCHANGED vars
  <2>1. UNCHANGED <<game, queue, playing, flags, extra, scenario>>
    BY <1>9 DEF GameOver, vars, playerVars, tableVars
  <2> QED BY <2>1, SameGame DEF GhostsLeave, Haunted, EndsGhost, HasGhost
<1> QED BY <1>1, <1>2, <1>3, <1>4, <1>5, <1>6, <1>7, <1>8, <1>9 DEF Next, Engine

(***************************************************************************)
(* The ghosts are gone in the turns of others.                             *)
(***************************************************************************)

\* What GhostsInTurn says of the games it is about.
OnlyInTurn ==
  AtRest \/ Top("pre_turn") \/ Top("predraw") \/ Top("turn_start") \/ Top("draw") =>
    \A p \in Player : HasGhost(p) => p = playing

LEMMA GoneInTurn == IInv /\ GhostsLeave => OnlyInTurn
<1> SUFFICES ASSUME IInv, GhostsLeave,
                    AtRest \/ Top("pre_turn") \/ Top("predraw") \/ Top("turn_start") \/ Top("draw"),
                    NEW p \in Player, HasGhost(p)
             PROVE  p = playing
  BY DEF OnlyInTurn
<1>1. ~Waiting(queue, "ghost_end", p)
  <2>1. CASE AtRest
    BY <2>1, Resting
  <2>2. ASSUME NEW kind \in {"pre_turn", "predraw", "turn_start", "draw"}, Top(kind)
        PROVE  ~Waiting(queue, "ghost_end", p)
    <3>1. /\ \A k, x : Waiting(queue, k, x) <=> Waiting(Popped, k, x) \/ (k = kind /\ x = who)
          /\ \A k, x : Waiting(Popped, k, x) => Priority[k] <= Priority[kind]
      BY <2>2, Topmost
    <3>2. ~ (Priority["ghost_end"] <= Priority[kind])
      BY <2>2, Priorities
    <3> QED BY <2>2, <3>1, <3>2
  <2> QED BY <2>1, <2>2
<1> QED BY <1>1 DEF GhostsLeave, Haunted, HasGhost

LEMMA GhostsLeaveInit == Init => GhostsLeave
<1> SUFFICES ASSUME Init PROVE GhostsLeave
  OBVIOUS
<1>1. queue = <<Request("start", None, None)>> /\ flags = [p \in Player |-> {}]
  BY DEF Init
<1>2. \A i \in DOMAIN queue : queue[i].kind = "start"
  BY <1>1 DEF Request
<1>3. \A p \in Player : ~HasGhost(p)
  BY <1>1 DEF HasGhost
<1> QED BY <1>2, <1>3 DEF GhostsLeave, Haunted, EndsGhost, EndLast, PassFirst, Waiting

\* A ghost of Ghost Town is gone before any step of another player's turn, in
\* every game, as long as no turn of a ghost is skipped while it has another left,
\* nor any turn before the verdict on the first player: no draw! for an extra
\* turn, no discarding and no other death comes between.
THEOREM GhostsLeaveInTime == Spec /\ [][SpentWhenSkipped]_vars => []OnlyInTurn
<1>1. IInv /\ Turning(FALSE) /\ GhostsLeave /\ [Next]_vars /\ [SpentWhenSkipped]_vars
        => GhostsLeave'
  <2>1. UNCHANGED vars /\ IInv /\ GhostsLeave => GhostsLeave'
    <3> SUFFICES ASSUME UNCHANGED vars, IInv, GhostsLeave PROVE GhostsLeave'
      OBVIOUS
    <3>1. UNCHANGED <<game, queue, playing, flags, extra, scenario>>
      BY DEF vars, playerVars, tableVars
    <3> QED BY <3>1, SameGame DEF GhostsLeave, Haunted, EndsGhost, HasGhost
  <2> QED BY <2>1, GhostsLeaveNext
<1> QED BY <1>1, GhostsLeaveInit, GoneInTurn, TurningAlways, IInvAlways, PTL DEF Spec

(***************************************************************************)
(* What the cards of the game allow.                                       *)
(***************************************************************************)

Ghostless == scenario # "ghost_town" /\ "ghost_town" \notin deck /\ \A p \in Player : ~HasGhost(p)
NoSkips == \A p : ~Waiting(queue, "skip", p)
NoExtraTurns == (\A p \in Player : extra[p] = 0) /\ \A p : ~Waiting(queue, "check", p)

Dealt ==
  /\ "ghost_town" \notin Cards => Ghostless
  /\ "mirage" \notin Cards => NoSkips
  /\ Cards \cap {"gold_rush", "don_bell"} = {} => NoExtraTurns

\* A step that ends no turn adds nothing to them.
LEMMA CalmDeals ==
  ASSUME Dealt, NEW q, Calm(q), \A k, p : Waiting(q, k, p) => Waiting(queue, k, p),
         extra' = extra \/ "gold_rush" \in Cards \/ "don_bell" \in Cards
  PROVE  Dealt'
<1>1. Player' = Player /\ Cards' = Cards
  BY SameGame DEF Calm
<1>2. \A k \in Closing : \A p : Waiting(queue', k, p) => Waiting(queue, k, p)
  BY DEF Calm, Follows
<1>3. Ghostless => Ghostless'
  BY <1>1 DEF Ghostless, Calm
<1>4. NoSkips => NoSkips'
  BY <1>2 DEF NoSkips, Closing
<1>5. NoExtraTurns /\ extra' = extra => NoExtraTurns'
  BY <1>1, <1>2 DEF NoExtraTurns, Closing
<1> QED BY <1>1, <1>3, <1>4, <1>5 DEF Dealt

\* Nor does the end of one, or a step of it.
LEMMA StepDeals ==
  ASSUME Dealt, game' = game, extra' = extra, UNCHANGED <<flags, scenario, deck>>,
         \A k \in {"check", "skip"} : \A p : Waiting(queue', k, p) => Waiting(queue, k, p)
           \/ (k = "check" /\ "don_bell" \in Cards) \/ (k = "skip" /\ "mirage" \in Cards)
  PROVE  Dealt'
<1>1. Player' = Player /\ Cards' = Cards
  BY SameGame
<1>2. Ghostless => Ghostless'
  BY <1>1 DEF Ghostless, HasGhost
<1>3. NoSkips /\ "mirage" \notin Cards => NoSkips'
  BY DEF NoSkips
<1>4. NoExtraTurns /\ "don_bell" \notin Cards => NoExtraTurns'
  BY <1>1 DEF NoExtraTurns
<1> QED BY <1>1, <1>2, <1>3, <1>4 DEF Dealt

\* Nor does the turn that begins, but for the ghost Ghost Town makes.
LEMMA NextDeals ==
  ASSUME IInv, Dealt, winners = None,
         NEW f, SameLives(f), \A p \in Player : "temp_ghost" \in f[p] => HasGhost(p),
         NEW q, Good(q), StartNextTurn(f, q), game' = game, extra' = extra,
         \A k \in {"check", "skip"} : \A p : Waiting(q, k, p) => Waiting(queue, k, p)
  PROVE  Dealt'
<1>1. /\ game \in Games /\ flags \in [Player -> SUBSET Flag]
      /\ f \in [Player -> SUBSET Flag] /\ Player' = Player /\ Cards' = Cards
  BY SameGame DEF IInv, TypeOK, Flag, SameLives
<1>2. Adds(q, queue', {"pre_turn", "turn_start"})
  BY NextTurn DEF IInv
<1>3. \A k \in {"check", "skip"} : \A p : Waiting(queue', k, p) => Waiting(queue, k, p)
  BY <1>2 DEF Adds
<1>4. None # "ghost_town"
  BY TurnFlowAssumption DEF AllCards, ScenarioCards
<1>5. ASSUME Ghostless PROVE Ghostless'
  <2>1. scenario = "ghost_town" => Alive(first)
    BY <1>5 DEF Ghostless
  <2>2. /\ \A p \in Player : HasGhost(p)' => "temp_ghost" \in f[p] \/ scenario = "ghost_town"
        /\ scenario' \in deck \cup {None, scenario} /\ deck' \subseteq deck
    BY <1>1, <2>1, Haunting
  <2> QED BY <1>1, <1>4, <1>5, <2>2 DEF Ghostless
<1>6. NoSkips => NoSkips'
  BY <1>3 DEF NoSkips
<1>7. NoExtraTurns => NoExtraTurns'
  BY <1>1, <1>3 DEF NoExtraTurns
<1> QED BY <1>1, <1>5, <1>6, <1>7 DEF Dealt

LEMMA SkipDeals ==
  ASSUME IInv, Turning(FALSE), Dealt, NEW kind \in {"jail", "skip"}, Top(kind),
         SkipTurn(who, Popped), game' = game, extra' = extra
  PROVE  Dealt'
<1>1. PICK q : q = OnTurnEnd(who, TRUE, Popped)
  OBVIOUS
<1>2. PICK f :
        /\ StartNextTurn(f, q) /\ SameLives(f) /\ Good(q) /\ winners = None
        /\ \A p \in Player : "temp_ghost" \in f[p] => HasGhost(p)
        /\ who = playing
        /\ \A p : ~Waiting(queue, "check", p) /\ ~Waiting(q, "check", p)
        /\ \A k \in {"end_turn", "pass", "discard_pass", "skip"} : \A p : ~Waiting(q, k, p)
        /\ \A p : Waiting(queue, "ghost_end", p) => Waiting(q, "ghost_end", p)
        /\ scenario = "ghost_town" => Waiting(q, "ghost_end", who)
  BY <1>1, SkippedTurn
<1>3. \A k \in {"check", "skip"} : \A p : ~Waiting(q, k, p)
  BY <1>2
<1> QED BY <1>2, <1>3, NextDeals

LEMMA EngineDeals ==
  ASSUME IInv, Dealt,
         \/ TurnStart \/ Draw \/ Check \/ Bang \/ Damage \/ Death \/ Eliminate \/ Reward \/ Bury
         \/ DiscardAll \/ GhostEnd \/ Verdict
         \/ PreTurn \/ Predraw \/ (Jail /\ Calm(Popped))
  PROVE  Dealt'
<1>1. Calm(Popped)
  BY EngineCalm, BeginningCalm
<1>2. \E kind \in DOMAIN Priority : Top(kind) /\ (Check => kind = "check")
  BY Priorities DEF TurnStart, Draw, Check, Bang, Damage, Death, Eliminate, Reward, Bury,
     DiscardAll, GhostEnd, Verdict, PreTurn, Predraw, Jail
<1>3. PICK q : q = Popped
  OBVIOUS
<1>4. Calm(q) /\ (\A k, p : Waiting(q, k, p) => Waiting(queue, k, p))
      /\ (Check => \E p : Waiting(queue, "check", p))
  BY <1>1, <1>2, <1>3, Taken
<1>5. extra' = extra \/ "gold_rush" \in Cards \/ "don_bell" \in Cards
  <2>1. CASE Check
    BY <1>4, <2>1 DEF Dealt, NoExtraTurns
  <2>2. CASE ~Check
    BY <2>2 DEF TurnStart, Draw, Bang, Damage, Death, Eliminate, Reward, Bury, DiscardAll,
       GhostEnd, Verdict, PreTurn, Predraw, Jail, playerVars
  <2> QED BY <2>1, <2>2
<1> QED BY <1>4, <1>5, CalmDeals

\* Don Bell alone makes players draw! for another turn.
LEMMA PassDeals ==
  ASSUME IInv, Dealt, NEW q, Good(q), playing \in Player, PassWithoutDiscard(playing, q),
         UNCHANGED <<game, flags, extra, scenario, deck>>,
         \A k \in {"check", "skip"} : \A p : Waiting(q, k, p) => Waiting(queue, k, p)
  PROVE  Dealt'
<1>0. game \in Games
  BY DEF IInv, TypeOK
<1>1. Adds(q, queue', {"check", "ghost_end", "end_turn"})
  BY <1>0, PassAdds
<1>2. ASSUME "don_bell" \notin Cards PROVE Adds(q, queue', {"ghost_end", "end_turn"})
  <2>1. {"ghost_end", "end_turn"} \subseteq DOMAIN Priority \ Kinds
        /\ None \in Player \cup {None} /\ 1 \in Nat
    BY Priorities DEF Kinds
  <2>2. PICK s : s = IF scenario = "ghost_town"
                     THEN Enqueue(q, Request("ghost_end", playing, None)) ELSE q
    OBVIOUS
  <2>3. queue' = Enqueue(s, Request("end_turn", playing, None))
    BY <1>2, <2>2 DEF PassWithoutDiscard, OnTurnEnd
  <2>4. Adds(q, s, {"ghost_end"})
    <3>1. Adds(q, Enqueue(q, Request("ghost_end", playing, None)), {"ghost_end"})
      BY <1>0, <2>1, AddQuiet
    <3>2. Adds(q, q, {"ghost_end"})
      BY DEF Adds
    <3> QED BY <2>2, <3>1, <3>2
  <2>5. Good(s)
    BY <2>4 DEF Adds
  <2>6. Adds(s, queue', {"end_turn"})
    BY <1>0, <2>1, <2>3, <2>5, AddQuiet
  <2> QED BY <2>4, <2>6 DEF Adds
<1>3. \A k \in {"check", "skip"} : \A p : Waiting(queue', k, p) => Waiting(queue, k, p)
        \/ (k = "check" /\ "don_bell" \in Cards) \/ (k = "skip" /\ "mirage" \in Cards)
  <2>1. \A p : Waiting(queue', "skip", p) => Waiting(queue, "skip", p)
    BY <1>1 DEF Adds
  <2>2. ASSUME "don_bell" \notin Cards
        PROVE  \A p : Waiting(queue', "check", p) => Waiting(queue, "check", p)
    BY <1>2, <2>2 DEF Adds
  <2> QED BY <2>1, <2>2
<1> QED BY <1>3, StepDeals

LEMMA PassingDeals ==
  ASSUME IInv, Turning(FALSE), Dealt, DiscardPass \/ PassAgain \/ Pass
  PROVE  Dealt'
<1>1. PICK q : q = IF Pass THEN queue ELSE Popped
  OBVIOUS
<1>2. /\ UNCHANGED <<game, flags, extra, scenario, deck>>
      /\ PassWithoutDiscard(playing, q) \/
           \E kind \in {"pass", "discard_pass"} : queue' = Enqueue(q, Request(kind, playing, None))
      /\ Good(q) /\ playing \in Player /\ \A k, p : Waiting(q, k, p) => Waiting(queue, k, p)
  <2>1. CASE Pass
    <3>1. AtRest /\ PassTurn(playing, queue) /\ UNCHANGED <<game, flags, extra, scenario, deck>>
      BY <2>1 DEF Pass, Ready, playerVars
    <3> QED BY <1>1, <2>1, <3>1, Resting DEF PassTurn
  <2>2. CASE ~Pass
    <3>1. PICK kind \in {"discard_pass", "pass"} :
            /\ Top(kind) /\ UNCHANGED <<game, flags, extra, scenario, deck>>
            /\ \/ queue' = Enqueue(Popped, Request("pass", who, None))
               \/ PassWithoutDiscard(who, Popped)
      BY <2>2 DEF DiscardPass, PassAgain, playerVars, tableVars
    <3>2. kind \in Steps /\ FALSE \in BOOLEAN /\ kind # "start"
      BY DEF Steps, Ending
    <3>3. who = playing
      BY <3>1, <3>2, OnTop
    <3>4. Good(Popped) /\ who \in Player /\ \A k, p : Waiting(Popped, k, p) => Waiting(queue, k, p)
      BY <3>1, <3>2, Taken
    <3> QED BY <1>1, <2>2, <3>1, <3>3, <3>4
  <2> QED BY <2>1, <2>2
<1>3. CASE PassWithoutDiscard(playing, q)
  BY <1>2, <1>3, PassDeals
<1>4. ASSUME NEW kind \in {"pass", "discard_pass"},
             queue' = Enqueue(q, Request(kind, playing, None))
      PROVE  Dealt'
  <2>1. kind \in DOMAIN Priority \ Kinds /\ None \in Player \cup {None} /\ 1 \in Nat
    BY Priorities DEF Kinds
  <2>2. game \in Games
    BY DEF IInv, TypeOK
  <2>3. Adds(q, queue', {kind})
    BY <1>2, <1>4, <2>1, <2>2, AddQuiet
  <2>4. \A k \in {"check", "skip"} : \A p : Waiting(queue', k, p) => Waiting(queue, k, p)
    BY <1>2, <2>3 DEF Adds
  <2> QED BY <1>2, <2>4, StepDeals
<1> QED BY <1>2, <1>3, <1>4


LEMMA EndTurnDeals ==
  ASSUME IInv, Turning(FALSE), Dealt, EndTurn
  PROVE  Dealt'
<1>0. /\ game \in Games /\ flags \in [Player -> SUBSET Flag] /\ extra \in [Player -> Nat]
      /\ game' = game /\ Player' = Player /\ Cards' = Cards
  BY SameGame DEF IInv, TypeOK, Flag, EndTurn
<1>1. Top("end_turn")
  BY DEF EndTurn
<1>2. /\ winners = None /\ who \in Player /\ Good(Popped)
      /\ \A k, p : Waiting(queue, k, p) <=> Waiting(Popped, k, p) \/ (k = "end_turn" /\ p = who)
      /\ \A k, p : Waiting(Popped, k, p)
           => k \in DOMAIN Priority /\ Priority[k] <= Priority["end_turn"]
  BY <1>1, Topmost
<1>4. CASE extra[who] = 0
  <2> DEFINE f == [flags EXCEPT ![who] = @ \ {"extra_turn"}]
  <2>1. StartNextTurn(f, Popped) /\ extra' = extra
    BY <1>4 DEF EndTurn
  <2>2. SameLives(f) /\ \A p \in Player : "temp_ghost" \in f[p] => HasGhost(p)
    <3>1. SameLives(f)
      BY <1>0, <1>2 DEF SameLives, Alive, AliveWith, Flag
    <3> QED BY <1>0, <3>1 DEF HasGhost
  <2> HIDE DEF f
  <2>3. PICK q : q = Popped
    OBVIOUS
  <2>4. /\ Good(q) /\ StartNextTurn(f, q)
        /\ \A k \in {"check", "skip"} : \A p : Waiting(q, k, p) => Waiting(queue, k, p)
    BY <1>2, <2>1, <2>3
  <2> QED BY <1>0, <1>2, <2>1, <2>2, <2>4, NextDeals
<1>5. CASE extra[who] # 0
  <2>1. StartOfTurn(who, Popped) /\ UNCHANGED <<scenario, deck>>
        /\ flags' = [flags EXCEPT ![who] = @ \cup {"extra_turn"}]
    BY <1>5 DEF EndTurn
  <2>2. Adds(Popped, queue', {"pre_turn", "turn_start"})
    BY <1>0, <1>2, <2>1, StartOfTurnAdds
  <2>3. Ghostless => Ghostless'
    BY <1>0, <2>1 DEF Ghostless, HasGhost
  <2>4. NoSkips => NoSkips'
    BY <1>2, <2>2 DEF NoSkips, Adds
  <2>5. ~NoExtraTurns
    BY <1>2, <1>5 DEF NoExtraTurns
  <2> QED BY <1>0, <2>3, <2>4, <2>5 DEF Dealt
<1> QED BY <1>4, <1>5

LEMMA StartDeals ==
  ASSUME IInv, Turning(FALSE), Dealt, Start \/ ReadyDead
  PROVE  Dealt'
<1>1. PICK q : q = IF Start THEN Popped ELSE queue
  OBVIOUS
<1>2. StartNextTurn(flags, q) /\ game' = game /\ extra' = extra
  BY <1>1 DEF Start, ReadyDead
<1>3. SameLives(flags) /\ \A p \in Player : "temp_ghost" \in flags[p] => HasGhost(p)
  BY DEF SameLives, IInv, TypeOK, Flag, Alive, HasGhost
<1>4. CASE Start
  <2>1. Top("start")
    BY <1>4 DEF Start
  <2>2. winners = None /\ Good(q)
        /\ \A k, p : Waiting(queue, k, p) <=> Waiting(q, k, p) \/ (k = "start" /\ p = who)
    BY <1>1, <1>4, <2>1, Taken
  <2>3. \A k \in {"check", "skip"} : \A p : Waiting(q, k, p) => Waiting(queue, k, p)
    BY <2>2
  <2> QED BY <1>2, <1>3, <2>2, <2>3, NextDeals
<1>5. CASE ReadyDead /\ ~Start
  <2>1. AtRest /\ q = queue
    BY <1>1, <1>5 DEF ReadyDead
  <2>2. Good(q) /\ winners = None /\ \A k, p : ~Waiting(queue, k, p) /\ ~Waiting(q, k, p)
    BY <2>1, Resting
  <2> QED BY <1>2, <1>3, <2>2, NextDeals
<1> QED BY <1>4, <1>5

LEMMA PlayDeals == ASSUME IInv, Dealt, Play PROVE Dealt'
<1>1. ASSUME NEW S \in SUBSET AlivePlayers, Mirage(S) PROVE Dealt'
  <2>1. "mirage" \in Cards /\ UNCHANGED <<game, flags, extra, scenario, deck>>
    BY <1>1 DEF Mirage, playerVars, tableVars
  <2>2. \A i \in DOMAIN queue' : queue'[i].kind \in {"damage", "skip"}
    BY <1>1, Answered DEF Request
  <2>3. \A k, p : Waiting(queue', k, p) => k \in {"damage", "skip"}
    BY <2>2 DEF Waiting
  <2> QED BY <2>1, <2>3, StepDeals
<1>2. CASE Calm(queue)
  <2>1. PICK q : q = queue
    OBVIOUS
  <2>2. Calm(q) /\ \A k, p : Waiting(q, k, p) => Waiting(queue, k, p)
    BY <1>2, <2>1
  <2>3. extra' = extra \/ "gold_rush" \in Cards
    BY DEF Play, Hit, Mirage, UseCards, GoldRush, PlayGhost, LoseGhost, ChangeWws, LadyRosa, playerVars
  <2> QED BY <2>2, <2>3, CalmDeals
<1> QED BY <1>1, <1>2, RestCalm

LEMMA DealtNext == IInv /\ Turning(FALSE) /\ Dealt /\ [Next]_vars => Dealt'
<1> SUFFICES ASSUME IInv, Turning(FALSE), Dealt, [Next]_vars PROVE Dealt'
  OBVIOUS
<1>1. CASE TurnStart \/ Draw \/ Check \/ Bang \/ Damage \/ Death \/ Eliminate \/ Reward \/ Bury
             \/ DiscardAll \/ GhostEnd \/ Verdict \/ PreTurn \/ Predraw
  BY <1>1, EngineDeals
<1>2. CASE Jail
  <2>1. CASE Calm(Popped)
    BY <1>2, <2>1, EngineDeals
  <2>2. CASE SkipTurn(who, Popped)
    <3>1. Top("jail") /\ game' = game /\ extra' = extra
      BY <1>2 DEF Jail, playerVars
    <3> QED BY <2>2, <3>1, SkipDeals
  <2> QED BY <1>2, <2>1, <2>2, JailIs
<1>3. CASE Skip
  <2>1. Top("skip") /\ SkipTurn(who, Popped) /\ game' = game /\ extra' = extra
    BY <1>3 DEF Skip
  <2> QED BY <2>1, SkipDeals
<1>4. CASE Start \/ ReadyDead
  BY <1>4, StartDeals
<1>5. CASE EndTurn
  BY <1>5, EndTurnDeals
<1>6. CASE DiscardPass \/ PassAgain \/ Pass
  BY <1>6, PassingDeals
<1>7. CASE Play
  BY <1>7, PlayDeals
<1>8. CASE GameOver \/ UNCHANGED vars
  <2>1. UNCHANGED <<game, queue, flags, extra, scenario, deck>>
    BY <1>8 DEF GameOver, vars, playerVars, tableVars
  <2> QED BY <2>1, SameGame DEF Dealt, Ghostless, NoSkips, NoExtraTurns, HasGhost
<1> QED BY <1>1, <1>2, <1>3, <1>4, <1>5, <1>6, <1>7, <1>8 DEF Next, Engine

LEMMA DealtInit == Init => Dealt
<1> SUFFICES ASSUME Init PROVE Dealt
  OBVIOUS
<1>1. /\ queue = <<Request("start", None, None)>> /\ flags = [p \in Player |-> {}]
      /\ extra = [p \in Player |-> 0] /\ scenario = None /\ deck = Cards \cap ScenarioCards
  BY DEF Init
<1>2. None # "ghost_town"
  BY TurnFlowAssumption DEF AllCards, ScenarioCards
<1>3. "ghost_town" \notin Cards => Ghostless
  BY <1>1, <1>2 DEF Ghostless, HasGhost
<1>4. \A k, p : Waiting(queue, k, p) => k = "start"
  BY <1>1 DEF Waiting, Request
<1> QED BY <1>1, <1>3, <1>4 DEF Dealt, NoSkips, NoExtraTurns

LEMMA DealtAlways == Spec => []Dealt
<1>1. IInv /\ Turning(FALSE) /\ Dealt /\ [Next]_vars => Dealt'
  BY DealtNext
<1> QED BY <1>1, DealtInit, TurningAlways, IInvAlways, PTL DEF Spec

(***************************************************************************)
(* Games that keep the cards apart.                                        *)
(***************************************************************************)

LEMMA SpentInTime == IInv /\ Dealt /\ GhostsApart /\ [Next]_vars => SpentWhenSkipped
<1> SUFFICES ASSUME IInv, Dealt, GhostsApart, Skip \/ (Jail /\ queue' # Popped)
             PROVE  /\ HasGhost(who) => extra[who] = 0
                    /\ scenario = "ghost_town" => Alive(first)
  BY DEF SpentWhenSkipped
<1>1. CASE "ghost_town" \notin Cards
  <2>1. Ghostless
    BY <1>1 DEF Dealt
  <2>2. who \in Player
    BY Taken DEF Skip, Jail
  <2> QED BY <2>1, <2>2 DEF Ghostless
<1>2. CASE "ghost_town" \in Cards
  <2>1. "mirage" \notin Cards /\ ("jail" \notin Cards \/ Cards \cap {"gold_rush", "don_bell"} = {})
    BY <1>2 DEF GhostsApart
  <2>2. ~Skip
    <3>1. Skip => Waiting(queue, "skip", who)
      BY Taken DEF Skip
    <3> QED BY <2>1, <3>1 DEF Dealt, NoSkips
  <2>3. Top("jail") /\ "jail" \in Cards
    BY <2>2 DEF Jail
  <2>4. who \in Player /\ extra[who] = 0
    <3>1. who \in Player
      BY <2>3, Taken
    <3> QED BY <2>1, <2>3, <3>1 DEF Dealt, NoExtraTurns
  <2>5. Alive(first)
    <3>1. /\ winners = None
          /\ \A k, p : Waiting(queue, k, p) <=> Waiting(Popped, k, p) \/ (k = "jail" /\ p = who)
          /\ \A k, p : Waiting(Popped, k, p) => Priority[k] <= Priority["jail"]
      BY <2>3, Topmost
    <3>2. ~ (Priority["verdict"] <= Priority["jail"])
      BY Priorities
    <3> QED BY <3>1, <3>2 DEF IInv, FirstLives
  <2> QED BY <2>4, <2>5
<1> QED BY <1>1, <1>2

\* A ghost of Ghost Town is gone before any step of another player's turn, in
\* games in which Ghost Town meets neither Mirage nor both the jail and a card
\* that gives extra turns.
THEOREM GhostsLeaveWhenApart == Spec => []GhostsInTurn
<1>1. IInv /\ Turning(FALSE) /\ Dealt /\ (GhostsApart => GhostsLeave) /\ [Next]_vars
        => (GhostsApart => GhostsLeave)'
  <2> SUFFICES ASSUME IInv, Turning(FALSE), Dealt, GhostsApart => GhostsLeave, [Next]_vars,
                      GhostsApart'
               PROVE  GhostsLeave'
    OBVIOUS
  <2>1. GhostsApart
    BY GameStays DEF GhostsApart, Cards
  <2> QED BY <2>1, SpentInTime, GhostsLeaveNext
<1>2. Init => (GhostsApart => GhostsLeave)
  BY GhostsLeaveInit
<1>3. Spec => [](GhostsApart => GhostsLeave)
  BY <1>1, <1>2, TurningAlways, DealtAlways, IInvAlways, PTL DEF Spec
<1>4. IInv /\ (GhostsApart => GhostsLeave) => GhostsInTurn
  BY GoneInTurn DEF GhostsInTurn, OnlyInTurn, HasGhost
<1> QED BY <1>3, <1>4, IInvAlways, PTL
=============================================================================
