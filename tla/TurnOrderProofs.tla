--------------------------- MODULE TurnOrderProofs ---------------------------
(***************************************************************************)
(* The order of the requests of a turn, for every number of players and    *)
(* every mixture of cards: there is one turn at a time, at one of its      *)
(* steps, and only the player on turn draws.  That a draw comes last of its*)
(* turn holds unless a jailed turn comes back to the player in jail, which *)
(* takes the jail and Lady Rosa.                                           *)
(***************************************************************************)
EXTENDS TurnFlowProofs

(***************************************************************************)
(* The order of the requests.                                              *)
(***************************************************************************)

Beginning == {"pre_turn", "predraw", "jail"}
Ending == {"start", "skip", "discard_pass", "pass", "end_turn"}

\* A turn is at one of these steps at a time.
Steps == Beginning \cup Ending
OfTurn == Steps \cup {"turn_start", "draw"}

Single(q, p) ==
  \A i, j \in DOMAIN q :
    /\ q[i].kind \in Steps => q[i].who = p
    /\ q[i].kind \in Steps /\ q[j].kind \in Steps => i = j
    /\ q[i].kind = "start" => p = None

\* A draw is the next to be run, of the player on turn.
DrawFirst(q) == \A i \in DOMAIN q : q[i].kind = "draw" => i = 1 /\ InTurn(q[i].who)

\* Where the player on turn starts it: last of all that begins turns, while the
\* starts of turns that were skipped come first, and are dropped.
Starts(q, p) ==
  \A i, j \in DOMAIN q :
    /\ q[i].kind = "draw" =>
         q[i].who = p /\ q[j].kind \notin Steps /\ (q[j].kind = "draw" => i = j)
    /\ q[i].kind \in Ending \cup {"draw"} => q[j].kind # "turn_start"
    /\ q[i].kind = "turn_start" /\ q[i].who = p /\ i # j =>
         (q[j].kind \in {"pre_turn", "turn_start"} => j < i)
    /\ q[i].kind \in {"predraw", "jail"} /\ q[j].kind = "turn_start" => q[j].who = p
    /\ q[i].kind = "turn_start" /\ q[i].who # p /\ q[j].kind = "pre_turn" => i < j

TurnQueue(q) == q \in Seq(RequestSet) /\ Sorted(q)

\* The requests of the kinds K in e are, in the same order, those of q, and at
\* most one more, of R: of[i] is the place of e[i] in q, or 0.
Traced(K, q, e, R, of) ==
  /\ of \in [DOMAIN e -> DOMAIN q \cup {0}]
  /\ \A i \in DOMAIN e : of[i] # 0 => e[i] = q[of[i]]
  /\ \A i \in DOMAIN e : of[i] = 0 /\ e[i].kind \in K => e[i] \in R
  /\ \A i, j \in DOMAIN e : i < j /\ of[i] # 0 /\ of[j] # 0 => of[i] < of[j]
  /\ \A i, j \in DOMAIN e :
       of[i] = 0 /\ of[j] = 0 /\ e[i].kind \in K /\ e[j].kind \in K => i = j

From(K, q, e, R) == \E of : Traced(K, q, e, R, of)

(***************************************************************************)
(* Queueing and popping.                                                   *)
(***************************************************************************)

LEMMA Enqueued ==
  ASSUME NEW K, NEW q, TurnQueue(q), NEW r \in RequestSet, NEW n \in Nat,
         n <= 1 \/ r.kind \notin K, NEW e, e = EnqueueTimes(q, r, n)
  PROVE  /\ TurnQueue(e) /\ From(K, q, e, {r}) /\ (r.kind \notin K => From(K, q, e, {}))
<1>1. q \in Seq(RequestSet) /\ Sorted(q)
  BY DEF TurnQueue
<1>m. PICK m \in 1 .. Len(q) + 1 : Inserted(q, e, r, n, m)
  BY <1>1, EnqueueIs
<1>2. /\ e \in Seq(RequestSet) /\ DOMAIN e = 1 .. Len(q) + n
      /\ \A i \in 1 .. m - 1 : e[i] = q[i] /\ Priority[q[i].kind] >= Priority[r.kind]
      /\ \A i \in m .. m + n - 1 : e[i] = r
      /\ \A i \in m .. Len(q) : e[i + n] = q[i] /\ Priority[q[i].kind] < Priority[r.kind]
  BY <1>m DEF Inserted
<1>3. /\ Len(q) \in Nat /\ DOMAIN q = 1 .. Len(q)
      /\ \A i \in DOMAIN q : Priority[q[i].kind] \in Int /\ q[i].kind \in DOMAIN Priority
      /\ Priority[r.kind] \in Int
  BY <1>1, QueueType, PriorityInt DEF RequestSet
<1> DEFINE of == [i \in DOMAIN e |-> IF i < m THEN i ELSE IF i < m + n THEN 0 ELSE i - n]
<1>4. of \in [DOMAIN e -> DOMAIN q \cup {0}]
  BY <1>2, <1>3
<1>5. \A i \in DOMAIN e :
        /\ of[i] # 0 => of[i] \in DOMAIN q /\ e[i] = q[of[i]]
        /\ of[i] = 0 => e[i] = r
        /\ of[i] = 0 <=> i \in m .. m + n - 1
        /\ i < m => of[i] = i /\ Priority[e[i].kind] >= Priority[r.kind]
        /\ i >= m + n => of[i] = i - n /\ Priority[e[i].kind] < Priority[r.kind]
        /\ of[i] = 0 => ~ (i < m) /\ ~ (i >= m + n)
        /\ i \in Int /\ (i < m \/ i \in m .. m + n - 1 \/ i >= m + n)
  <2> TAKE i \in DOMAIN e
  <2>0. /\ i \in Int /\ i >= 1 /\ i <= Len(q) + n /\ m \in Int /\ m >= 1
        /\ i < m \/ i \in m .. m + n - 1 \/ i >= m + n
    BY <1>2, <1>3
  <2>1. CASE i < m
    <3>1. i \in 1 .. m - 1 /\ i \in DOMAIN q /\ ~ (i >= m + n) /\ i \notin m .. m + n - 1 /\ i # 0
      BY <1>3, <2>0, <2>1
    <3>2. of[i] = i
      BY <2>1
    <3> QED BY <1>2, <2>0, <2>1, <3>1, <3>2
  <2>2. CASE i \in m .. m + n - 1
    <3>1. ~ (i < m) /\ i < m + n /\ ~ (i >= m + n)
      BY <1>3, <2>0, <2>2
    <3>2. of[i] = 0
      BY <3>1
    <3> QED BY <1>2, <2>0, <2>2, <3>1, <3>2
  <2>3. CASE i >= m + n
    <3>0. i - n \in Int /\ i - n >= m /\ i - n <= Len(q)
      BY <1>3, <2>0, <2>3
    <3>1. i - n \in m .. Len(q) /\ (i - n) + n = i /\ i - n \in DOMAIN q
      BY <1>3, <2>0, <3>0
    <3>2. e[i] = q[i - n] /\ Priority[q[i - n].kind] < Priority[r.kind]
      BY <1>2, <3>1
    <3>3. ~ (i < m) /\ ~ (i < m + n) /\ i \notin m .. m + n - 1 /\ i - n # 0
      BY <1>3, <2>0, <2>3
    <3>4. of[i] = i - n
      BY <3>3
    <3> QED BY <2>0, <2>3, <3>1, <3>2, <3>3, <3>4
  <2> QED BY <2>0, <2>1, <2>2, <2>3
<1> HIDE DEF of
<1>6. \A i, j \in DOMAIN e : i < j /\ of[i] # 0 /\ of[j] # 0 => of[i] < of[j]
  <2> SUFFICES ASSUME NEW i \in DOMAIN e, NEW j \in DOMAIN e, i < j, of[i] # 0, of[j] # 0
               PROVE  of[i] < of[j]
    OBVIOUS
  <2>1. CASE i < m /\ j < m
    BY <1>5, <2>1
  <2>2. CASE i < m /\ j >= m + n
    <3>1. of[i] = i /\ of[j] = j - n /\ i \in Int /\ j \in Int
      BY <1>5, <2>2
    <3> QED BY <2>2, <3>1
  <2>3. CASE i >= m + n /\ j >= m + n
    <3>1. of[i] = i - n /\ of[j] = j - n /\ i \in Int /\ j \in Int
      BY <1>5, <2>3
    <3> QED BY <3>1
  <2>4. CASE i >= m + n /\ j < m
    BY <1>5, <2>4
  <2> QED BY <1>5, <2>1, <2>2, <2>3, <2>4
<1>7. n <= 1 => \A i, j \in DOMAIN e : of[i] = 0 /\ of[j] = 0 => i = j
  <2> HAVE n <= 1
  <2> TAKE i, j \in DOMAIN e
  <2> QED BY <1>2, <1>3, <1>5
<1>8. From(K, q, e, {r}) /\ (r.kind \notin K => From(K, q, e, {}))
  <2>1. Traced(K, q, e, {r}, of)
    BY <1>4, <1>5, <1>6, <1>7 DEF Traced
  <2>2. r.kind \notin K => Traced(K, q, e, {}, of)
    BY <1>5, <2>1 DEF Traced
  <2> QED BY <2>1, <2>2 DEF From
<1>9. Sorted(e)
  <2> SUFFICES ASSUME NEW i \in DOMAIN e, NEW j \in DOMAIN e, i < j
               PROVE  Priority[e[i].kind] >= Priority[e[j].kind]
    BY DEF Sorted
  <2>1. Priority[e[i].kind] \in Int /\ Priority[e[j].kind] \in Int
    BY <1>2, QueueType
  <2>2. CASE of[i] # 0 /\ of[j] # 0
    <3>1. of[i] < of[j] /\ of[i] \in DOMAIN q /\ of[j] \in DOMAIN q
      BY <1>5, <1>6, <2>2
    <3>2. e[i] = q[of[i]] /\ e[j] = q[of[j]]
      BY <1>5, <2>2
    <3> QED BY <1>1, <3>1, <3>2 DEF Sorted
  <2>3. CASE of[i] = 0 /\ of[j] = 0
    <3>1. e[i] = r /\ e[j] = r
      BY <1>5, <2>3
    <3> QED BY <1>3, <3>1
  <2>4. CASE of[i] = 0 /\ of[j] # 0
    <3>0. /\ i \in Int /\ j \in Int /\ ~ (i < m) /\ e[i] = r
          /\ j < m \/ j >= m + n
      BY <1>5, <2>4
    <3>1. e[i] = r /\ j >= m + n
      BY <3>0
    <3> QED BY <1>3, <1>5, <2>1, <3>1
  <2>5. CASE of[i] # 0 /\ of[j] = 0
    <3>0. /\ i \in Int /\ j \in Int /\ ~ (j >= m + n) /\ e[j] = r
          /\ i < m \/ i >= m + n
      BY <1>5, <2>5
    <3>1. e[j] = r /\ i < m
      BY <3>0
    <3> QED BY <1>3, <1>5, <2>1, <3>1
  <2> QED BY <2>2, <2>3, <2>4, <2>5
<1>10. TurnQueue(e)
  BY <1>2, <1>9 DEF TurnQueue
<1> QED BY <1>8, <1>10

\* What is queued with the least priority is the last.
LEMMA QueuedLast ==
  ASSUME NEW q, TurnQueue(q), NEW r \in RequestSet, Priority[r.kind] = -10
  PROVE  /\ TurnQueue(Enqueue(q, r)) /\ DOMAIN Enqueue(q, r) = 1 .. Len(q) + 1
         /\ Enqueue(q, r)[Len(q) + 1] = r /\ \A i \in 1 .. Len(q) : Enqueue(q, r)[i] = q[i]
<1>1. PICK n \in Nat : n = 1
  OBVIOUS
<1>2. PICK e : e = EnqueueTimes(q, r, n)
  OBVIOUS
<1>3. q \in Seq(RequestSet) /\ Sorted(q)
  BY DEF TurnQueue
<1>4. TurnQueue(e)
  <2>1. \A m \in Nat : \A s : m <= 1 /\ s = EnqueueTimes(q, r, m)
          => TurnQueue(s) /\ From({}, q, s, {r})
    BY Enqueued
  <2> QED BY <1>1, <1>2, <2>1
<1>5. PICK m \in 1 .. Len(q) + 1 : Inserted(q, e, r, n, m)
  BY <1>2, <1>3, EnqueueIs
<1>6. /\ e \in Seq(RequestSet) /\ DOMAIN e = 1 .. Len(q) + 1
      /\ \A i \in 1 .. m - 1 : e[i] = q[i]
      /\ \A i \in m .. m + n - 1 : e[i] = r
      /\ \A i \in m .. Len(q) : Priority[q[i].kind] < Priority[r.kind]
  BY <1>1, <1>5 DEF Inserted
<1>7. Len(q) \in Nat /\ DOMAIN q = 1 .. Len(q)
  BY <1>3, LenProperties
<1>8. m = Len(q) + 1
  <2> SUFFICES ASSUME m # Len(q) + 1 PROVE FALSE
    OBVIOUS
  <2>1. m \in m .. Len(q) /\ m \in DOMAIN q
    BY <1>7
  <2>2. Priority[q[m].kind] < -10
    BY <1>6, <2>1
  <2>3. \A k \in DOMAIN Priority : Priority[k] >= -10
    BY Priorities
  <2>4. q[m].kind \in DOMAIN Priority /\ Priority[q[m].kind] \in Int
    BY <1>3, <2>1, QueueType
  <2> QED BY <2>2, <2>3, <2>4
<1>9. m \in m .. m + n - 1 /\ \A i \in 1 .. Len(q) : i \in 1 .. m - 1
  BY <1>1, <1>7, <1>8
<1>10. e[Len(q) + 1] = r /\ \A i \in 1 .. Len(q) : e[i] = q[i]
  BY <1>6, <1>8, <1>9
<1>11. Enqueue(q, r) = e
  BY <1>1, <1>2 DEF Enqueue
<1> QED BY <1>4, <1>6, <1>10, <1>11

LEMMA Popping ==
  ASSUME NEW K, NEW q, TurnQueue(q), q # <<>>
  PROVE  /\ TurnQueue(Tail(q)) /\ From(K, q, Tail(q), {})
         /\ 1 \in DOMAIN q /\ q[1] = Head(q)
         /\ \A i \in DOMAIN Tail(q) : i + 1 \in DOMAIN q /\ i + 1 # 1 /\ Tail(q)[i] = q[i + 1]
         /\ \A i \in DOMAIN Tail(q) : Priority[Tail(q)[i].kind] <= Priority[Head(q).kind]
<1> DEFINE t == Tail(q)
           h == Head(q)
<1>1. /\ q \in Seq(RequestSet) /\ Len(q) \in Nat /\ DOMAIN q = 1 .. Len(q)
      /\ \A i \in DOMAIN q : Priority[q[i].kind] \in Int
  BY QueueType DEF TurnQueue
<1>2. /\ Len(q) >= 1 /\ h = q[1] /\ t \in Seq(RequestSet) /\ Len(t) = Len(q) - 1
      /\ \A i \in 1 .. Len(t) : t[i] = q[i + 1]
  BY <1>1, HeadTailProperties, EmptySeq
<1>3. DOMAIN t = 1 .. Len(t)
  BY <1>2, LenProperties
<1> HIDE DEF t, h
<1>4. \A i \in DOMAIN t :
        i \in Int /\ i + 1 \in DOMAIN q /\ i + 1 > 1 /\ i + 1 # 0 /\ t[i] = q[i + 1]
  BY <1>1, <1>2, <1>3
<1>5. 1 \in DOMAIN q
  BY <1>1, <1>2
<1>6. Sorted(t)
  <2> SUFFICES ASSUME NEW i \in DOMAIN t, NEW j \in DOMAIN t, i < j
               PROVE  Priority[t[i].kind] >= Priority[t[j].kind]
    BY DEF Sorted
  <2>1. i + 1 < j + 1
    BY <1>4
  <2> QED BY <1>4, <2>1 DEF TurnQueue, Sorted
<1>7. \A i \in DOMAIN t : Priority[t[i].kind] <= Priority[h.kind]
  <2> TAKE i \in DOMAIN t
  <2>1. Priority[q[1].kind] >= Priority[q[i + 1].kind]
    BY <1>4, <1>5 DEF TurnQueue, Sorted
  <2> QED BY <1>1, <1>2, <1>4, <1>5, <2>1
<1>8. From(K, q, t, {})
  <2> DEFINE of == [i \in DOMAIN t |-> i + 1]
  <2>1. of \in [DOMAIN t -> DOMAIN q \cup {0}] /\ \A i \in DOMAIN t : of[i] = i + 1 /\ of[i] # 0
    BY <1>4
  <2> HIDE DEF of
  <2>2. \A i, j \in DOMAIN t : i < j => of[i] < of[j]
    BY <1>4, <2>1
  <2>3. Traced(K, q, t, {}, of)
    BY <1>4, <2>1, <2>2 DEF Traced
  <2> QED BY <2>3 DEF From
<1> QED BY <1>2, <1>4, <1>5, <1>6, <1>7, <1>8 DEF TurnQueue, t, h

\* What the draw!s of predraw put on top; d stands for the dynamite.
LEMMA Pushing ==
  ASSUME NEW K, NEW q \in Seq(RequestSet), NEW r \in RequestSet, NEW d \in RequestSet,
         d.kind \notin K
  PROVE  /\ From(K, q, <<r>> \o q, {r})
         /\ From(K, q, <<d, r>> \o q, {r})
<1>1. Len(q) \in Nat /\ DOMAIN q = 1 .. Len(q)
  BY LenProperties
<1>2. ASSUME NEW s \in Seq(RequestSet), NEW m \in {1, 2}, Len(s) = m, s[m] = r,
             m = 2 => s[1] = d
      PROVE  From(K, q, s \o q, {r})
  <2>0. PICK e : e = s \o q
    OBVIOUS
  <2>1. /\ e \in Seq(RequestSet) /\ Len(e) = m + Len(q)
        /\ \A i \in 1 .. m + Len(q) : e[i] = IF i <= m THEN s[i] ELSE q[i - m]
    BY <1>1, <1>2, <2>0, ConcatProperties
  <2>2. DOMAIN e = 1 .. m + Len(q)
    BY <1>1, <1>2, <2>1, LenProperties
  <2> DEFINE of == [i \in DOMAIN e |-> IF i <= m THEN 0 ELSE i - m]
  <2>3. of \in [DOMAIN e -> DOMAIN q \cup {0}]
    BY <1>1, <2>2
  <2>4. \A i \in DOMAIN e :
          /\ i \in Int /\ i >= 1
          /\ of[i] = 0 <=> i <= m
          /\ i > m => of[i] = i - m /\ e[i] = q[i - m]
          /\ i <= m => e[i] = s[i]
    BY <1>1, <2>1, <2>2
  <2> HIDE DEF of
  <2>5. \A i \in DOMAIN e : of[i] # 0 => e[i] = q[of[i]]
    BY <2>4
  <2>6. \A i \in DOMAIN e : of[i] = 0 /\ e[i].kind \in K => i = m /\ e[i] = r
    BY <1>2, <2>4
  <2>7. \A i, j \in DOMAIN e : i < j /\ of[i] # 0 /\ of[j] # 0 => of[i] < of[j]
    <3> TAKE i, j \in DOMAIN e
    <3> QED BY <2>4
  <2>8. Traced(K, q, e, {r}, of)
    BY <2>3, <2>5, <2>6, <2>7 DEF Traced
  <2> QED BY <2>0, <2>8 DEF From
<1>3. <<r>> \in Seq(RequestSet) /\ Len(<<r>>) = 1 /\ <<r>>[1] = r
  OBVIOUS
<1>4. /\ <<d, r>> \in Seq(RequestSet) /\ Len(<<d, r>>) = 2 /\ <<d, r>>[2] = r
      /\ <<d, r>>[1] = d
  OBVIOUS
<1>5. From(K, q, <<r>> \o q, {r})
  <2> DEFINE s == <<r>>
  <2>1. s \in Seq(RequestSet) /\ Len(s) = 1 /\ s[1] = r
    BY <1>3
  <2> HIDE DEF s
  <2>m. PICK m \in {1, 2} : m = 1
    OBVIOUS
  <2>2. Len(s) = m /\ s[m] = r /\ (m = 2 => s[1] = d)
    BY <2>1, <2>m
  <2>3. From(K, q, s \o q, {r})
    BY <1>2, <2>1, <2>2
  <2> QED BY <2>3 DEF s
<1>6. From(K, q, <<d, r>> \o q, {r})
  <2> DEFINE s == <<d, r>>
  <2>1. s \in Seq(RequestSet) /\ Len(s) = 2 /\ s[2] = r /\ s[1] = d
    BY <1>4
  <2> HIDE DEF s
  <2>2. From(K, q, s \o q, {r})
    BY <1>2, <2>1
  <2> QED BY <2>2 DEF s
<1> QED BY <1>5, <1>6

LEMMA FromItself == ASSUME NEW K, NEW q \in Seq(RequestSet) PROVE From(K, q, q, {})
<1> DEFINE of == [i \in DOMAIN q |-> i]
<1>1. Len(q) \in Nat /\ DOMAIN q = 1 .. Len(q)
  BY LenProperties
<1>2. Traced(K, q, q, {}, of)
  BY <1>1 DEF Traced
<1> QED BY <1>2 DEF From

LEMMA FromChain ==
  ASSUME NEW K, NEW q \in Seq(RequestSet), NEW s \in Seq(RequestSet), NEW e \in Seq(RequestSet),
         NEW R, NEW S, From(K, q, s, R), From(K, s, e, S), R = {} \/ S = {}
  PROVE  From(K, q, e, R \cup S)
<1>1. PICK f : Traced(K, q, s, R, f)
  BY DEF From
<1>2. PICK g : Traced(K, s, e, S, g)
  BY DEF From
<1>3. /\ Len(q) \in Nat /\ DOMAIN q = 1 .. Len(q) /\ Len(s) \in Nat /\ DOMAIN s = 1 .. Len(s)
      /\ Len(e) \in Nat /\ DOMAIN e = 1 .. Len(e)
  BY LenProperties
<1> DEFINE of == [i \in DOMAIN e |-> IF g[i] = 0 THEN 0 ELSE f[g[i]]]
<1>4. /\ of \in [DOMAIN e -> DOMAIN q \cup {0}]
      /\ \A i \in DOMAIN e : /\ of[i] = IF g[i] = 0 THEN 0 ELSE f[g[i]]
                             /\ g[i] # 0 => g[i] \in DOMAIN s /\ e[i] = s[g[i]]
  BY <1>1, <1>2 DEF Traced
<1> HIDE DEF of
<1>5. \A i \in DOMAIN e : of[i] # 0 => e[i] = q[of[i]]
  BY <1>1, <1>4 DEF Traced
<1>6. \A i \in DOMAIN e : of[i] = 0 /\ e[i].kind \in K => e[i] \in R \cup S
  BY <1>1, <1>2, <1>4 DEF Traced
<1>7. \A i, j \in DOMAIN e : i < j /\ of[i] # 0 /\ of[j] # 0 => of[i] < of[j]
  BY <1>1, <1>2, <1>4 DEF Traced
<1>8. ASSUME NEW i \in DOMAIN e, NEW j \in DOMAIN e, of[i] = 0, of[j] = 0,
             e[i].kind \in K, e[j].kind \in K
      PROVE  i = j
  <2>1. CASE S = {}
    <3>1. g[i] # 0 /\ g[j] # 0
      BY <1>2, <1>8, <2>1 DEF Traced
    <3>2. g[i] = g[j]
      BY <1>1, <1>4, <1>8, <3>1 DEF Traced
    <3>3. ~ (i < j) /\ ~ (j < i)
      <4>1. g[i] \in Nat /\ g[j] \in Nat
        BY <1>3, <1>4, <3>1
      <4>2. ~ (g[i] < g[j]) /\ ~ (g[j] < g[i])
        BY <3>2, <4>1
      <4> QED BY <1>2, <3>1, <4>2 DEF Traced
    <3> QED BY <1>3, <3>3
  <2>2. CASE R = {}
    <3>1. g[i] = 0 /\ g[j] = 0
      BY <1>1, <1>4, <1>8, <2>2 DEF Traced
    <3> QED BY <1>2, <1>8, <3>1 DEF Traced
  <2> QED BY <2>1, <2>2
<1>9. Traced(K, q, e, R \cup S, of)
  BY <1>4, <1>5, <1>6, <1>7, <1>8 DEF Traced
<1> QED BY <1>9 DEF From

(***************************************************************************)
(* What keeps the requests in order.                                       *)
(***************************************************************************)

NoneOf(q, kinds) == \A i \in DOMAIN q : q[i].kind \notin kinds

LEMMA Rising ==
  ASSUME NEW q \in Seq(RequestSet), NEW e \in Seq(RequestSet),
         NEW of \in [DOMAIN e -> DOMAIN q \cup {0}],
         \A i, j \in DOMAIN e : i < j /\ of[i] # 0 /\ of[j] # 0 => of[i] < of[j]
  PROVE  \A i, j \in DOMAIN e : of[i] # 0 /\ of[j] # 0 =>
           (i < j <=> of[i] < of[j]) /\ (of[i] = of[j] => i = j)
<1>1. /\ Len(q) \in Nat /\ DOMAIN q = 1 .. Len(q)
      /\ Len(e) \in Nat /\ DOMAIN e = 1 .. Len(e)
  BY LenProperties
<1>2. \A i \in DOMAIN e : of[i] \in Int /\ i \in Int
  BY <1>1
<1> QED BY <1>2

LEMMA TurnTraces ==
  ASSUME NEW q \in Seq(RequestSet), NEW e \in Seq(RequestSet), NEW R, NEW of,
         Traced(OfTurn, q, e, R, of)
  PROVE  /\ \A i \in DOMAIN e : e[i].kind \in OfTurn /\ e[i] \notin R
              => of[i] \in DOMAIN q /\ of[i] # 0 /\ e[i] = q[of[i]]
         /\ \A i, j \in DOMAIN e : of[i] # 0 /\ of[j] # 0 =>
              (i < j <=> of[i] < of[j]) /\ (of[i] = of[j] => i = j)
<1>1. /\ of \in [DOMAIN e -> DOMAIN q \cup {0}]
      /\ \A i, j \in DOMAIN e : i < j /\ of[i] # 0 /\ of[j] # 0 => of[i] < of[j]
  BY DEF Traced
<1>2. \A i, j \in DOMAIN e : of[i] # 0 /\ of[j] # 0 =>
        (i < j <=> of[i] < of[j]) /\ (of[i] = of[j] => i = j)
  BY <1>1, Rising
<1>3. \A i \in DOMAIN e : e[i].kind \in OfTurn /\ e[i] \notin R
        => of[i] \in DOMAIN q /\ of[i] # 0 /\ e[i] = q[of[i]]
  BY DEF Traced
<1> QED BY <1>2, <1>3

LEMMA StillInOrder ==
  ASSUME NEW q \in Seq(RequestSet), NEW e \in Seq(RequestSet), From(OfTurn, q, e, {}), NEW p
  PROVE  /\ Single(q, p) => Single(e, p)
         /\ Starts(q, p) => Starts(e, p)
         /\ \A kinds \in SUBSET OfTurn : NoneOf(q, kinds) => NoneOf(e, kinds)
<1>1. PICK of : Traced(OfTurn, q, e, {}, of)
  BY DEF From
<1>2. /\ \A i \in DOMAIN e : e[i].kind \in OfTurn
            => of[i] \in DOMAIN q /\ of[i] # 0 /\ e[i] = q[of[i]]
      /\ \A i, j \in DOMAIN e : of[i] # 0 /\ of[j] # 0 =>
           (i < j <=> of[i] < of[j]) /\ (of[i] = of[j] => i = j)
  BY <1>1, TurnTraces
<1>3. Steps \subseteq OfTurn /\ "draw" \in OfTurn /\ "turn_start" \in OfTurn
      /\ Ending \subseteq Steps /\ "start" \in Steps
      /\ "pre_turn" \in Steps /\ "predraw" \in Steps /\ "jail" \in Steps
  BY DEF OfTurn, Steps, Beginning, Ending
<1>4. Single(q, p) => Single(e, p)
  BY <1>2, <1>3 DEF Single
<1>5. ASSUME Starts(q, p), NEW i \in DOMAIN e, NEW j \in DOMAIN e
      PROVE  /\ e[i].kind = "draw" =>
                  e[i].who = p /\ e[j].kind \notin Steps /\ (e[j].kind = "draw" => i = j)
             /\ e[i].kind \in Ending \cup {"draw"} => e[j].kind # "turn_start"
             /\ e[i].kind = "turn_start" /\ e[i].who = p /\ i # j =>
                  (e[j].kind \in {"pre_turn", "turn_start"} => j < i)
             /\ e[i].kind \in {"predraw", "jail"} /\ e[j].kind = "turn_start" => e[j].who = p
             /\ e[i].kind = "turn_start" /\ e[i].who # p /\ e[j].kind = "pre_turn" => i < j
  <2>1. CASE e[i].kind \in OfTurn /\ e[j].kind \in OfTurn
    <3>1. /\ of[i] \in DOMAIN q /\ e[i] = q[of[i]] /\ of[j] \in DOMAIN q /\ e[j] = q[of[j]]
          /\ (i < j <=> of[i] < of[j]) /\ (j < i <=> of[j] < of[i]) /\ (of[i] = of[j] => i = j)
      BY <1>2, <2>1
    <3> QED BY <1>5, <3>1 DEF Starts
  <2>2. CASE e[j].kind \notin OfTurn /\ e[i].kind \in OfTurn
    <3>1. of[i] \in DOMAIN q /\ e[i] = q[of[i]]
      BY <1>2, <2>2
    <3> QED BY <1>3, <1>5, <2>2, <3>1 DEF Starts
  <2>3. CASE e[i].kind \notin OfTurn
    BY <1>3, <2>3
  <2> QED BY <2>1, <2>2, <2>3
<1>6. Starts(q, p) => Starts(e, p)
  <2> HAVE Starts(q, p)
  <2> QED BY <1>5 DEF Starts
<1>7. \A kinds \in SUBSET OfTurn : NoneOf(q, kinds) => NoneOf(e, kinds)
  BY <1>2 DEF NoneOf
<1> QED BY <1>4, <1>6, <1>7

\* A turn takes its next step, r.
LEMMA StepJoins ==
  ASSUME NEW q \in Seq(RequestSet), NEW e \in Seq(RequestSet), NEW r,
         From(OfTurn, q, e, {r}), NEW p,
         NoneOf(q, Steps), r.kind \in Steps \ {"start", "pre_turn"}, r.who = p
  PROVE  /\ Single(e, p)
         /\ Starts(q, p) /\ NoneOf(q, {"draw"})
            /\ (r.kind \in Ending => NoneOf(q, {"turn_start"}))
            /\ (\A i \in DOMAIN q : q[i].kind = "turn_start" => q[i].who = p)
              => Starts(e, p)
         /\ NoneOf(q, {"draw"}) => NoneOf(e, {"draw"})
<1>1. PICK of : Traced(OfTurn, q, e, {r}, of)
  BY DEF From
<1>2. /\ \A i \in DOMAIN e : e[i].kind \in OfTurn /\ e[i] # r
            => of[i] \in DOMAIN q /\ of[i] # 0 /\ e[i] = q[of[i]]
      /\ \A i, j \in DOMAIN e : of[i] # 0 /\ of[j] # 0 =>
           (i < j <=> of[i] < of[j]) /\ (of[i] = of[j] => i = j)
  BY <1>1, TurnTraces
<1>3. Steps \subseteq OfTurn /\ "draw" \in OfTurn \ Steps /\ "turn_start" \in OfTurn \ Steps
      /\ Ending \subseteq Steps /\ "start" \in Steps /\ "skip" \in Steps
      /\ "pre_turn" \in Steps /\ "predraw" \in Steps /\ "jail" \in Steps
  BY DEF OfTurn, Steps, Beginning, Ending
<1>4. \A i \in DOMAIN e : e[i].kind \in Steps => e[i] = r /\ of[i] = 0
  <2> SUFFICES ASSUME NEW i \in DOMAIN e, e[i].kind \in Steps PROVE e[i] = r /\ of[i] = 0
    OBVIOUS
  <2>1. of[i] # 0 => of[i] \in DOMAIN q /\ e[i] = q[of[i]]
    BY <1>1 DEF Traced
  <2>2. of[i] = 0
    BY <2>1 DEF NoneOf
  <2> QED BY <1>1, <1>3, <2>2 DEF Traced
<1>5. \A i, j \in DOMAIN e : e[i].kind \in Steps /\ e[j].kind \in Steps => i = j
  BY <1>1, <1>3, <1>4 DEF Traced
<1>6. Single(e, p)
  BY <1>3, <1>4, <1>5 DEF Single
<1>7. ASSUME Starts(q, p), NoneOf(q, {"draw"}),
             r.kind \in Ending => NoneOf(q, {"turn_start"}),
             \A i \in DOMAIN q : q[i].kind = "turn_start" => q[i].who = p
      PROVE  Starts(e, p)
  <2>1. \A i \in DOMAIN e : e[i].kind = "turn_start"
          => of[i] \in DOMAIN q /\ of[i] # 0 /\ e[i] = q[of[i]] /\ e[i].who = p
    BY <1>2, <1>3, <1>7
  <2>2. \A i \in DOMAIN e : e[i].kind # "draw"
    BY <1>2, <1>3, <1>7 DEF NoneOf
  <2>3. \A i \in DOMAIN e : e[i].kind # "pre_turn"
    BY <1>3, <1>4
  <2>4. \A i, j \in DOMAIN e : e[i].kind = "turn_start" /\ e[j].kind = "turn_start" => i = j
    <3> SUFFICES ASSUME NEW i \in DOMAIN e, NEW j \in DOMAIN e, e[i].kind = "turn_start",
                        e[j].kind = "turn_start", i # j
                 PROVE  FALSE
      OBVIOUS
    <3>1. /\ of[i] \in DOMAIN q /\ q[of[i]].kind = "turn_start" /\ q[of[i]].who = p
          /\ of[j] \in DOMAIN q /\ q[of[j]].kind = "turn_start" /\ q[of[j]].who = p
          /\ of[i] # of[j]
      BY <1>2, <2>1
    <3>2. of[j] < of[i] /\ of[i] < of[j]
      BY <1>7, <3>1 DEF Starts
    <3>3. of[i] \in Int /\ of[j] \in Int
      BY <3>1, LenProperties
    <3> QED BY <3>2, <3>3
  <2>5. \A i, j \in DOMAIN e : e[i].kind \in Ending => e[j].kind # "turn_start"
    <3> SUFFICES ASSUME NEW i \in DOMAIN e, NEW j \in DOMAIN e, e[i].kind \in Ending,
                        e[j].kind = "turn_start"
                 PROVE  FALSE
      OBVIOUS
    <3>1. e[i] = r
      BY <1>3, <1>4
    <3> QED BY <1>7, <2>1, <3>1 DEF NoneOf
  <2> QED BY <2>1, <2>2, <2>3, <2>4, <2>5 DEF Starts
<1>8. NoneOf(q, {"draw"}) => NoneOf(e, {"draw"})
  BY <1>2, <1>3 DEF NoneOf
<1> QED BY <1>6, <1>7, <1>8

\* The player on turn draws when its turn has started.
LEMMA DrawJoins ==
  ASSUME NEW q \in Seq(RequestSet), NEW e \in Seq(RequestSet), NEW r,
         From(OfTurn, q, e, {r}), NEW p,
         r.kind = "draw", r.who = p
  PROVE  /\ Single(q, p) => Single(e, p)
         /\ NoneOf(q, OfTurn) => Starts(e, p)
<1>1. PICK of : Traced(OfTurn, q, e, {r}, of)
  BY DEF From
<1>2. /\ \A i \in DOMAIN e : e[i].kind \in OfTurn /\ e[i] # r
            => of[i] \in DOMAIN q /\ of[i] # 0 /\ e[i] = q[of[i]]
      /\ \A i, j \in DOMAIN e : of[i] # 0 /\ of[j] # 0 =>
           (i < j <=> of[i] < of[j]) /\ (of[i] = of[j] => i = j)
  BY <1>1, TurnTraces
<1>3. Steps \subseteq OfTurn /\ "draw" \in OfTurn \ Steps /\ "turn_start" \in OfTurn \ Steps
      /\ Ending \subseteq Steps /\ "start" \in Steps /\ "skip" \in Steps
      /\ "pre_turn" \in Steps /\ "predraw" \in Steps /\ "jail" \in Steps
  BY DEF OfTurn, Steps, Beginning, Ending
<1>4. Single(q, p) => Single(e, p)
  BY <1>2, <1>3 DEF Single
<1>5. ASSUME NoneOf(q, OfTurn) PROVE Starts(e, p)
  <2>1. \A i \in DOMAIN e : e[i].kind \in OfTurn => e[i] = r /\ of[i] = 0
    <3> SUFFICES ASSUME NEW i \in DOMAIN e, e[i].kind \in OfTurn PROVE e[i] = r /\ of[i] = 0
      OBVIOUS
    <3>1. of[i] # 0 => of[i] \in DOMAIN q /\ e[i] = q[of[i]]
      BY <1>1 DEF Traced
    <3>2. of[i] = 0
      BY <1>5, <3>1 DEF NoneOf
    <3> QED BY <1>1, <3>2 DEF Traced
  <2>2. \A i, j \in DOMAIN e : e[i].kind = "draw" /\ e[j].kind = "draw" => i = j
    BY <1>1, <1>3, <2>1 DEF Traced
  <2>3. \A i \in DOMAIN e : e[i].kind \in OfTurn => e[i].kind = "draw" /\ e[i].who = p
    BY <2>1
  <2> QED BY <1>3, <2>2, <2>3 DEF Starts
<1> QED BY <1>4, <1>5

\* Before all that begins turns.
LEMMA DrawIsFirst ==
  ASSUME NEW q, TurnQueue(q), NEW r \in RequestSet, r.kind = "draw", NoneOf(q, {"draw"}),
         \A i \in DOMAIN q : Priority[q[i].kind] <= Priority["turn_start"]
  PROVE  \A i \in DOMAIN Enqueue(q, r) :
           Enqueue(q, r)[i].kind = "draw" => i = 1 /\ Enqueue(q, r)[i] = r
<1>1. PICK n \in Nat : n = 1
  OBVIOUS
<1>2. PICK e : e = EnqueueTimes(q, r, n)
  OBVIOUS
<1>3. q \in Seq(RequestSet) /\ Sorted(q)
  BY DEF TurnQueue
<1>4. PICK m \in 1 .. Len(q) + 1 : Inserted(q, e, r, n, m)
  BY <1>2, <1>3, EnqueueIs
<1>5. Len(q) \in Nat /\ DOMAIN q = 1 .. Len(q) /\ DOMAIN e = 1 .. Len(q) + n
  BY <1>3, <1>4, LenProperties DEF Inserted
<1>6. m = 1
  <2> SUFFICES ASSUME m # 1 PROVE FALSE
    OBVIOUS
  <2>1. 1 \in 1 .. m - 1 /\ 1 \in DOMAIN q
    BY <1>5
  <2>2. Priority[q[1].kind] >= Priority["draw"]
    BY <1>4, <2>1 DEF Inserted
  <2>3. Priority[q[1].kind] \in Int /\ Priority[q[1].kind] <= Priority["turn_start"]
    BY <1>3, <2>1, QueueType
  <2> QED BY <2>2, <2>3, Priorities
<1>7. \A i \in DOMAIN e : i # 1 => i - n \in m .. Len(q) /\ (i - n) + n = i /\ i - n \in DOMAIN q
  BY <1>1, <1>5, <1>6
<1>8. \A i \in DOMAIN e : i # 1 => e[i].kind # "draw"
  BY <1>4, <1>7 DEF Inserted, NoneOf
<1>9. 1 \in m .. m + n - 1
  BY <1>1, <1>6
<1>10. e[1] = r
  BY <1>4, <1>9 DEF Inserted
<1> QED BY <1>1, <1>2, <1>8, <1>10 DEF Enqueue

\* A turn begins: its two requests are the last of all.
LEMMA TurnBegins ==
  ASSUME game \in Games, NEW q, TurnQueue(q), NEW p \in Player, NoneOf(q, Steps),
         StartOfTurn(p, q)
  PROVE  /\ playing' = p /\ Single(queue', p)
         /\ NoneOf(q, {"draw"}) => NoneOf(queue', {"draw"})
         /\ \E i \in DOMAIN queue' : queue'[i].kind = "pre_turn"
         /\ NoneOf(q, {"draw"})
            /\ (\A i \in DOMAIN q : q[i].kind = "turn_start" => q[i].who # p)
              => Starts(queue', p)
<1> DEFINE r == Request("pre_turn", p, None)
           t == Request("turn_start", p, None)
           s == Enqueue(q, r)
           e == Enqueue(s, t)
<1>1. /\ r \in RequestSet /\ r.kind = "pre_turn" /\ r.who = p /\ Priority[r.kind] = -10
      /\ t \in RequestSet /\ t.kind = "turn_start" /\ t.who = p /\ Priority[t.kind] = -10
  BY Priorities DEF Request, RequestSet
<1>2. playing' = p /\ queue' = e
  BY DEF StartOfTurn
<1> HIDE DEF r, t
<1>3. /\ TurnQueue(s) /\ DOMAIN s = 1 .. Len(q) + 1 /\ s[Len(q) + 1] = r
      /\ \A i \in 1 .. Len(q) : s[i] = q[i]
  BY <1>1, QueuedLast
<1> HIDE DEF s
<1>4. /\ DOMAIN e = 1 .. Len(s) + 1 /\ e[Len(s) + 1] = t
      /\ \A i \in 1 .. Len(s) : e[i] = s[i]
  BY <1>1, <1>3, QueuedLast
<1> HIDE DEF e
<1>5. /\ Len(q) \in Nat /\ DOMAIN q = 1 .. Len(q) /\ Len(s) = Len(q) + 1
  <2>1. Len(q) \in Nat /\ DOMAIN q = 1 .. Len(q) /\ Len(s) \in Nat /\ DOMAIN s = 1 .. Len(s)
    BY <1>3, LenProperties DEF TurnQueue
  <2> QED BY <1>3, <2>1
<1>6. /\ DOMAIN e = 1 .. Len(q) + 2 /\ e[Len(q) + 1] = r /\ e[Len(q) + 2] = t
      /\ \A i \in 1 .. Len(q) : e[i] = q[i]
  BY <1>3, <1>4, <1>5
<1>7. \A i \in DOMAIN e :
        /\ i \in Int
        /\ \/ i \in DOMAIN q /\ i < Len(q) + 1 /\ e[i] = q[i]
           \/ i = Len(q) + 1 /\ e[i] = r
           \/ i = Len(q) + 2 /\ e[i] = t
  BY <1>5, <1>6
<1>8. None \notin Player /\ p # None
  BY Sizes
<1>9. Steps \subseteq OfTurn /\ "draw" \in OfTurn \ Steps /\ "turn_start" \in OfTurn \ Steps
      /\ Ending \subseteq Steps /\ "start" \in Steps /\ "skip" \in Steps
      /\ "pre_turn" \in Steps \ Ending /\ "predraw" \in Steps /\ "jail" \in Steps
  BY DEF OfTurn, Steps, Beginning, Ending
<1>10. \A i \in DOMAIN e : e[i].kind \in Steps => i = Len(q) + 1 /\ e[i] = r
  BY <1>1, <1>7, <1>9 DEF NoneOf
<1>11. Single(e, p)
  BY <1>1, <1>9, <1>10 DEF Single
<1>12. NoneOf(q, {"draw"}) => NoneOf(e, {"draw"})
  BY <1>1, <1>7 DEF NoneOf
<1>13. \E i \in DOMAIN e : e[i].kind = "pre_turn"
  BY <1>1, <1>5, <1>6
<1>14. ASSUME NoneOf(q, {"draw"}), \A i \in DOMAIN q : q[i].kind = "turn_start" => q[i].who # p
       PROVE  Starts(e, p)
  <2>1. \A i \in DOMAIN e : e[i].kind # "draw"
    BY <1>1, <1>7, <1>14 DEF NoneOf
  <2>2. \A i \in DOMAIN e : e[i].kind = "turn_start" /\ e[i].who = p => i = Len(q) + 2
    BY <1>1, <1>7, <1>14
  <2>3. \A i \in DOMAIN e : e[i].kind \notin {"predraw", "jail"} \cup Ending
    BY <1>1, <1>9, <1>10
  <2>4. \A i \in DOMAIN e : i # Len(q) + 2 => i < Len(q) + 2
    BY <1>5, <1>7
  <2>5. \A i \in DOMAIN e : e[i].kind = "turn_start" /\ e[i].who # p => i < Len(q) + 1
    BY <1>1, <1>7
  <2>6. \A i \in DOMAIN e : e[i].kind = "pre_turn" => i = Len(q) + 1
    BY <1>9, <1>10
  <2> QED BY <2>1, <2>2, <2>3, <2>4, <2>5, <2>6 DEF Starts
<1> QED BY <1>2, <1>11, <1>12, <1>13, <1>14

(***************************************************************************)
(* What is queued.                                                         *)
(***************************************************************************)

LEMMA FromQuiet ==
  ASSUME NEW K, NEW q \in Seq(RequestSet), NEW s \in Seq(RequestSet), NEW e \in Seq(RequestSet),
         NEW R, From(K, q, s, {}), From(K, s, e, R)
  PROVE  From(K, q, e, R)
<1>1. From(K, q, e, {} \cup R)
  BY FromChain
<1>2. {} \cup R = R
  OBVIOUS
<1> QED BY <1>1, <1>2

LEMMA StepQueued ==
  ASSUME NEW K, NEW q, TurnQueue(q), NEW r \in RequestSet
  PROVE  TurnQueue(Enqueue(q, r)) /\ From(K, q, Enqueue(q, r), {r})
<1>1. PICK n \in Nat : n = 1
  OBVIOUS
<1>2. PICK e : e = EnqueueTimes(q, r, n)
  OBVIOUS
<1>3. \A m \in Nat : \A s : m <= 1 /\ s = EnqueueTimes(q, r, m)
        => TurnQueue(s) /\ From(K, q, s, {r})
  BY Enqueued
<1>4. Enqueue(q, r) = e
  BY <1>1, <1>2 DEF Enqueue
<1> QED BY <1>1, <1>2, <1>3, <1>4

LEMMA QuietlyQueued ==
  ASSUME NEW K, NEW q, TurnQueue(q), NEW kind \in DOMAIN Priority \ K,
         NEW p \in Player \cup {None}, NEW b \in Player \cup {None}, NEW n \in Nat
  PROVE  /\ TurnQueue(EnqueueTimes(q, Request(kind, p, b), n))
         /\ From(K, q, EnqueueTimes(q, Request(kind, p, b), n), {})
         /\ TurnQueue(Enqueue(q, Request(kind, p, b)))
         /\ From(K, q, Enqueue(q, Request(kind, p, b)), {})
<1> DEFINE r == Request(kind, p, b)
<1>1. r \in RequestSet /\ r.kind \notin K
  BY DEF Request, RequestSet
<1> HIDE DEF r
<1>2. \A m \in Nat : \A s : s = EnqueueTimes(q, r, m) => TurnQueue(s) /\ From(K, q, s, {})
  BY <1>1, Enqueued
<1>3. Enqueue(q, r) = EnqueueTimes(q, r, 1) /\ 1 \in Nat
  BY DEF Enqueue
<1> QED BY <1>2, <1>3 DEF r

LEMMA Engaged ==
  {"damage", "check", "death", "eliminate", "reward", "bury", "bang", "discard_all",
   "sheriff_discard", "verdict", "ghost_end"} \subseteq DOMAIN Priority \ OfTurn
BY Priorities DEF OfTurn, Steps, Beginning, Ending

LEMMA DeathQueued ==
  ASSUME NEW K, {"eliminate", "reward", "bury", "verdict"} \cap K = {},
         playing \in Player \cup {None}, NEW q, TurnQueue(q), NEW p \in Player,
         NEW killer \in Player \cup {None}
  PROVE  /\ TurnQueue(HandlePlayerDeath(p, killer, q))
         /\ From(K, q, HandlePlayerDeath(p, killer, q), {})
<1> DEFINE credited == Credited(killer)
           out == Enqueue(q, Request("eliminate", p, credited))
           paid == IF credited # None THEN Enqueue(out, Request("reward", p, credited)) ELSE out
           gone == Enqueue(paid, Request("bury", p, None))
           d == Enqueue(gone, Request("verdict", p, credited))
<1>1. credited \in Player \cup {None}
  BY DEF Credited
<1>2. d = HandlePlayerDeath(p, killer, q)
  BY DEF HandlePlayerDeath
<1> HIDE DEF credited
<1>e. {"eliminate", "reward", "bury", "verdict"} \subseteq DOMAIN Priority \ K
  BY Priorities
<1>3. TurnQueue(out) /\ From(K, q, out, {})
  BY <1>1, <1>e, QuietlyQueued
<1> HIDE DEF out
<1>4. TurnQueue(paid) /\ From(K, out, paid, {})
  <2>1. CASE credited # None
    <3>1. paid = Enqueue(out, Request("reward", p, credited))
      BY <2>1
    <3> HIDE DEF paid
    <3> QED BY <1>1, <1>3, <3>1, <1>e, QuietlyQueued
  <2>2. CASE credited = None
    BY <1>3, <2>2, FromItself DEF TurnQueue
  <2> QED BY <2>1, <2>2
<1> HIDE DEF paid
<1>5. TurnQueue(gone) /\ From(K, paid, gone, {})
  BY <1>1, <1>4, <1>e, QuietlyQueued
<1> HIDE DEF gone
<1>6. TurnQueue(d) /\ From(K, gone, d, {})
  BY <1>1, <1>5, <1>e, QuietlyQueued
<1> HIDE DEF d
<1>7. From(K, q, d, {})
  BY <1>3, <1>4, <1>5, <1>6, FromQuiet DEF TurnQueue
<1> QED BY <1>2, <1>6, <1>7

LEMMA DeathInTurn ==
  ASSUME playing \in Player \cup {None}, NEW q, TurnQueue(q), NEW p \in Player,
         NEW killer \in Player \cup {None}
  PROVE  /\ TurnQueue(HandlePlayerDeath(p, killer, q))
         /\ From(OfTurn, q, HandlePlayerDeath(p, killer, q), {})
<1>1. PICK K : K = OfTurn
  OBVIOUS
<1>2. {"eliminate", "reward", "bury", "verdict"} \cap K = {}
  BY <1>1 DEF OfTurn, Steps, Beginning, Ending
<1>3. PICK e : e = HandlePlayerDeath(p, killer, q)
  OBVIOUS
<1>4. TurnQueue(e) /\ From(K, q, e, {})
  BY <1>2, <1>3, DeathQueued
<1> QED BY <1>1, <1>3, <1>4

LEMMA TurnEndQueued ==
  ASSUME NEW q, TurnQueue(q), NEW p \in Player, NEW skipped \in BOOLEAN
  PROVE  TurnQueue(OnTurnEnd(p, skipped, q)) /\ From(OfTurn, q, OnTurnEnd(p, skipped, q), {})
<1> DEFINE checked == IF ~skipped /\ "don_bell" \in Cards /\ "extra_turn" \notin flags[p]
                      THEN Enqueue(q, Request("check", p, None)) ELSE q
           ended == IF scenario = "ghost_town"
                    THEN Enqueue(checked, Request("ghost_end", p, None)) ELSE checked
<1>1. TurnQueue(checked) /\ From(OfTurn, q, checked, {})
  BY Engaged, QuietlyQueued, FromItself DEF TurnQueue
<1> HIDE DEF checked
<1>2. TurnQueue(ended) /\ From(OfTurn, checked, ended, {})
  BY <1>1, Engaged, QuietlyQueued, FromItself DEF TurnQueue
<1>3. ended = OnTurnEnd(p, skipped, q)
  BY DEF OnTurnEnd, checked
<1> HIDE DEF ended
<1> QED BY <1>1, <1>2, <1>3, FromQuiet DEF TurnQueue

(***************************************************************************)
(* The invariant, and what it says of the request on top.                  *)
(***************************************************************************)

\* Starts holds only while no jailed turn comes back to the player in jail:
\* what does not need it is proved without.
Turning(strict) ==
  Single(queue, playing) /\ DrawFirst(queue) /\ (strict => Starts(queue, playing))

\* Nothing of a turn is queued.
LEMMA Undisturbed ==
  ASSUME NEW strict \in BOOLEAN, NEW q \in Seq(RequestSet), Single(q, playing),
         strict => Starts(q, playing), NoneOf(q, {"draw"}), From(OfTurn, q, queue', {}),
         queue' \in Seq(RequestSet), playing' = playing
  PROVE  Turning(strict)'
<1>1. {"draw"} \in SUBSET OfTurn
  BY DEF OfTurn
<1>2. Single(queue', playing) /\ (strict => Starts(queue', playing)) /\ NoneOf(queue', {"draw"})
  BY <1>1, StillInOrder
<1> QED BY <1>2 DEF Turning, DrawFirst, NoneOf

LEMMA OnTop ==
  ASSUME NEW strict \in BOOLEAN, IInv, Turning(strict), NEW kind, Top(kind)
  PROVE  /\ TurnQueue(Popped) /\ From(OfTurn, Popped, Popped, {})
         /\ Single(Popped, playing) /\ (strict => Starts(Popped, playing))
         /\ NoneOf(Popped, {"draw"})
         /\ \A i \in DOMAIN Popped : Priority[Popped[i].kind] <= Priority[kind]
         /\ kind \in Steps => who = playing /\ NoneOf(Popped, Steps)
         /\ strict =>
              /\ kind \in Ending => NoneOf(Popped, {"turn_start"})
              /\ kind \in Beginning =>
                   \A i \in DOMAIN Popped : Popped[i].kind = "turn_start" => Popped[i].who = playing
              /\ kind = "turn_start" /\ who = playing => NoneOf(Popped, OfTurn)
<1>1. queue # <<>> /\ Head(queue).kind = kind
  BY DEF Top
<1>2. TurnQueue(queue)
  BY DEF IInv, Good, TurnQueue
<1>3. /\ TurnQueue(Popped) /\ From(OfTurn, queue, Popped, {})
      /\ 1 \in DOMAIN queue /\ queue[1] = Head(queue)
      /\ \A i \in DOMAIN Popped : i + 1 \in DOMAIN queue /\ i + 1 # 1 /\ Popped[i] = queue[i + 1]
      /\ \A i \in DOMAIN Popped : Priority[Popped[i].kind] <= Priority[Head(queue).kind]
  BY <1>1, <1>2, Popping DEF Popped
<1>4. \A i \in DOMAIN Popped : i \in Nat \ {0}
  BY <1>3, LenProperties DEF TurnQueue
<1>5. Single(Popped, playing) /\ (strict => Starts(Popped, playing))
  BY <1>2, <1>3, StillInOrder DEF Turning, TurnQueue
<1>6. /\ Steps \subseteq OfTurn /\ "draw" \in OfTurn \ Steps /\ "turn_start" \in OfTurn \ Steps
      /\ Ending \subseteq Steps /\ Beginning \subseteq Steps
      /\ Steps = Beginning \cup Ending /\ OfTurn = Steps \cup {"turn_start", "draw"}
  BY DEF OfTurn, Steps, Beginning, Ending
<1>7. kind \in Steps => who = playing /\ NoneOf(Popped, Steps)
  BY <1>1, <1>3 DEF Turning, Single, NoneOf, who
<1>8. NoneOf(Popped, {"draw"})
  BY <1>3 DEF Turning, DrawFirst, NoneOf
<1>9. ASSUME strict
      PROVE  /\ kind \in Ending => NoneOf(Popped, {"turn_start"})
             /\ kind \in Beginning =>
                  \A i \in DOMAIN Popped : Popped[i].kind = "turn_start" => Popped[i].who = playing
             /\ kind = "turn_start" /\ who = playing => NoneOf(Popped, OfTurn)
  <2>0. Starts(queue, playing)
    BY <1>9 DEF Turning
  <2>2. ASSUME kind \in Ending PROVE NoneOf(Popped, {"turn_start"})
    BY <1>1, <1>3, <2>0, <2>2 DEF Starts, NoneOf
  <2>3. ASSUME kind \in Beginning, NEW i \in DOMAIN Popped, Popped[i].kind = "turn_start"
        PROVE  Popped[i].who = playing
    <3>1. ~ (i + 1 < 1)
      BY <1>4
    <3> QED BY <1>1, <1>3, <2>0, <2>3, <3>1 DEF Starts, Beginning
  <2>4. ASSUME kind = "turn_start", who = playing, NEW i \in DOMAIN Popped,
               Popped[i].kind \in OfTurn
        PROVE  FALSE
    <3>1. i + 1 \in DOMAIN queue /\ i + 1 # 1 /\ ~ (i + 1 < 1) /\ Popped[i] = queue[i + 1]
          /\ 1 \in DOMAIN queue /\ queue[1].kind = "turn_start" /\ queue[1].who = playing
      BY <1>1, <1>3, <1>4, <2>4 DEF who
    <3>2. queue[i + 1].kind \notin {"pre_turn", "turn_start"}
      BY <2>0, <3>1 DEF Starts
    <3>3. queue[i + 1].kind \notin Ending \cup {"draw"}
      BY <2>0, <3>1 DEF Starts
    <3>4. queue[i + 1].kind \in {"predraw", "jail"}
      BY <1>6, <2>4, <3>1, <3>2, <3>3 DEF Beginning
    <3>5. Priority[queue[i + 1].kind] <= Priority["turn_start"]
      BY <1>1, <1>3, <2>4, <3>1
    <3> QED BY <3>4, <3>5, Priorities
  <2> QED BY <2>2, <2>3, <2>4 DEF NoneOf
<1>10. From(OfTurn, Popped, Popped, {})
  BY <1>3, FromItself DEF TurnQueue
<1> QED BY <1>1, <1>3, <1>5, <1>7, <1>8, <1>9, <1>10

\* A request that is not a step of a turn is run.
LEMMA QuietTop ==
  ASSUME NEW strict \in BOOLEAN, IInv, Turning(strict), NEW kind, Top(kind), TurnQueue(queue'),
         From(OfTurn, Popped, queue', {}), playing' = playing
  PROVE  Turning(strict)'
<1>1. Single(Popped, playing) /\ (strict => Starts(Popped, playing)) /\ NoneOf(Popped, {"draw"})
  BY OnTop
<1>2. Popped \in Seq(RequestSet) /\ queue' \in Seq(RequestSet)
  BY OnTop DEF TurnQueue
<1> QED BY <1>1, <1>2, Undisturbed

\* The start of a turn, or nobody is left to take one.
LEMMA NextTurnIs ==
  ASSUME IInv, NEW f, SameLives(f), NEW q, Good(q), StartNextTurn(f, q), game' = game
  PROVE  \/ queue' = q /\ playing' = playing /\ AlivePlayers = {}
         \/ playing' \in Player /\ StartOfTurn(playing', q) /\ AlivePlayers # {}
<1>1. playing' \in Player \/ (playing' = playing /\ queue' = q)
  BY NextTurn DEF IInv
<1>2. AlivePlayers # {} => playing' \in Player
  BY NextTurn DEF IInv
<1>3. CASE AlivePlayers = {}
  BY <1>3 DEF StartNextTurn
<1>4. CASE AlivePlayers # {}
  <2>1. \E next : StartOfTurn(next, q)
    BY <1>4 DEF StartNextTurn
  <2>2. PICK next : StartOfTurn(next, q)
    BY <2>1
  <2>3. playing' = next
    BY <2>2 DEF StartOfTurn
  <2> QED BY <1>2, <1>4, <2>2, <2>3
<1> QED BY <1>3, <1>4

\* A turn is over, and with it all of its steps.
LEMMA TurnTaken ==
  ASSUME NEW strict \in BOOLEAN, IInv, NEW q, TurnQueue(q), NEW p \in Player,
         StartOfTurn(p, q), NoneOf(q, Steps), NoneOf(q, {"draw"}),
         strict => \A i \in DOMAIN q : q[i].kind = "turn_start" => q[i].who # p
  PROVE  Turning(strict)'
<1>1. game \in Games
  BY DEF IInv, TypeOK
<1>2. /\ playing' = p /\ Single(queue', p) /\ (strict => Starts(queue', p))
      /\ NoneOf(queue', {"draw"})
  BY <1>1, TurnBegins
<1> QED BY <1>2 DEF Turning, DrawFirst, NoneOf

(***************************************************************************)
(* Every action.                                                           *)
(***************************************************************************)

\* One step of a turn queues the next, r.
LEMMA StepTaken ==
  ASSUME NEW strict \in BOOLEAN, IInv, Turning(strict), NEW kind \in Steps, Top(kind),
         NEW r \in RequestSet, TurnQueue(queue'), From(OfTurn, Popped, queue', {r}),
         playing' = playing, r.kind \in Steps \ {"start", "pre_turn"}, r.who = playing,
         kind \in Beginning => r.kind \in Beginning
  PROVE  Turning(strict)'
<1>1. TurnQueue(Popped) /\ NoneOf(Popped, Steps) /\ NoneOf(Popped, {"draw"})
  BY OnTop
<1>2. strict =>
        /\ Starts(Popped, playing)
        /\ kind \in Ending => NoneOf(Popped, {"turn_start"})
        /\ kind \in Beginning =>
             \A i \in DOMAIN Popped : Popped[i].kind = "turn_start" => Popped[i].who = playing
  BY OnTop
<1>3. strict =>
        /\ \A i \in DOMAIN Popped : Popped[i].kind = "turn_start" => Popped[i].who = playing
        /\ r.kind \in Ending => NoneOf(Popped, {"turn_start"})
  BY <1>2 DEF Steps, Beginning, Ending, NoneOf
<1>4. Popped \in Seq(RequestSet) /\ queue' \in Seq(RequestSet)
  BY <1>1 DEF TurnQueue
<1>5. /\ Single(queue', playing) /\ (strict => Starts(queue', playing))
      /\ NoneOf(queue', {"draw"})
  BY <1>1, <1>2, <1>3, <1>4, StepJoins
<1> QED BY <1>5 DEF Turning, DrawFirst, NoneOf

LEMMA PreTurnTurns ==
  ASSUME NEW strict \in BOOLEAN, IInv, Turning(strict), PreTurn PROVE Turning(strict)'
<1>1. /\ Top("pre_turn") /\ playing' = playing /\ TurnQueue(Popped) /\ who = playing
      /\ playing \in Player
  BY OnTop, Topmost DEF PreTurn, Steps, Beginning
<1>2. game.maxHit \in Nat
  BY TurnFlowAssumption DEF IInv, TypeOK
<1> DEFINE r == Request("predraw", who, None)
<1>3. PICK bangs \in Nat :
        queue' = Enqueue(EnqueueTimes(Popped, Request("bang", who, None), bangs), r)
  BY <1>2 DEF PreTurn
<1>4. r \in RequestSet /\ r.kind = "predraw" /\ r.who = playing
  BY <1>1, Priorities DEF Request, RequestSet
<1> DEFINE s == EnqueueTimes(Popped, Request("bang", who, None), bangs)
<1>5. TurnQueue(s) /\ From(OfTurn, Popped, s, {})
  BY <1>1, Engaged, QuietlyQueued
<1> HIDE DEF s, r
<1>6. TurnQueue(queue') /\ From(OfTurn, s, queue', {r})
  BY <1>3, <1>4, <1>5, StepQueued DEF s
<1>7. From(OfTurn, Popped, queue', {r})
  BY <1>1, <1>5, <1>6, FromQuiet DEF TurnQueue
<1> QED BY <1>1, <1>4, <1>6, <1>7, StepTaken DEF Steps, Beginning

LEMMA PredrawTurns ==
  ASSUME NEW strict \in BOOLEAN, IInv, Turning(strict), Predraw PROVE Turning(strict)'
<1>1. /\ Top("predraw") /\ playing' = playing /\ TurnQueue(Popped) /\ who = playing
      /\ playing \in Player
  BY OnTop, Topmost DEF Predraw, Steps, Beginning
<1>2. TurnQueue(queue')
  BY PredrawKeeps DEF IInv, Good, TurnQueue, Predraw, tableVars, RequestSet, Player, N
<1> DEFINE r == Request("jail", who, None)
           d == Request("damage", who, None)
<1>3. /\ r \in RequestSet /\ r.kind = "jail" /\ r.who = playing
      /\ d \in RequestSet /\ d.kind \notin OfTurn
  BY <1>1, Priorities DEF Request, RequestSet, OfTurn, Steps, Beginning, Ending
<1>4. CASE queue' = Popped
  BY <1>1, <1>2, <1>4, FromItself, QuietTop DEF TurnQueue
<1>5. CASE queue' # Popped
  <2>1. queue' = <<r>> \o Popped \/ queue' = <<d, r>> \o Popped
    BY <1>5 DEF Predraw
  <2> HIDE DEF r, d
  <2>2. From(OfTurn, Popped, queue', {r})
    BY <1>1, <1>3, <2>1, Pushing DEF TurnQueue
  <2> QED BY <1>1, <1>2, <1>3, <2>2, StepTaken DEF Steps, Beginning
<1> QED BY <1>4, <1>5

LEMMA TurnStartTurns ==
  ASSUME NEW strict \in BOOLEAN, IInv, Turning(strict), TurnStart PROVE Turning(strict)'
<1>1. Top("turn_start") /\ playing' = playing /\ TurnQueue(Popped) /\ who \in Player
  BY OnTop, Topmost DEF TurnStart
<1> DEFINE r == Request("draw", who, None)
<1>2. CASE InTurn(who)
  <2>1. r \in RequestSet /\ r.kind = "draw" /\ r.who = playing /\ who = playing
    BY <1>1, <1>2, Priorities DEF Request, RequestSet, InTurn
  <2>2. queue' = Enqueue(Popped, r)
    BY <1>2 DEF TurnStart
  <2> HIDE DEF r
  <2>3. TurnQueue(queue') /\ From(OfTurn, Popped, queue', {r})
    BY <1>1, <2>1, <2>2, StepQueued
  <2>4. /\ Single(Popped, playing) /\ NoneOf(Popped, {"draw"})
        /\ strict => NoneOf(Popped, OfTurn)
    BY <1>1, <2>1, OnTop
  <2>5. Single(queue', playing) /\ (strict => Starts(queue', playing))
    BY <1>1, <2>1, <2>3, <2>4, DrawJoins DEF TurnQueue
  <2>6. \A i \in DOMAIN queue' : queue'[i].kind = "draw" => i = 1 /\ queue'[i] = r
    <3>1. PICK q : q = Popped
      OBVIOUS
    <3>2. TurnQueue(q) /\ NoneOf(q, {"draw"})
      BY <1>1, <2>4, <3>1
    <3>3. \A i \in DOMAIN q : Priority[q[i].kind] <= Priority["turn_start"]
      BY <1>1, <3>1, OnTop
    <3>4. \A i \in DOMAIN Enqueue(q, r) :
            Enqueue(q, r)[i].kind = "draw" => i = 1 /\ Enqueue(q, r)[i] = r
      BY <2>1, <3>2, <3>3, DrawIsFirst
    <3> QED BY <2>2, <3>1, <3>4
  <2>7. InTurn(playing)'
    BY <1>2, <2>1 DEF TurnStart, InTurn, Alive, AliveWith, playerVars
  <2> QED BY <1>1, <2>1, <2>5, <2>6, <2>7 DEF Turning, DrawFirst
<1>3. CASE ~InTurn(who)
  <2>1. queue' = Popped
    BY <1>3 DEF TurnStart
  <2> QED BY <1>1, <2>1, FromItself, QuietTop DEF TurnQueue
<1> QED BY <1>2, <1>3

\* What the end of a turn queues on the way to another.
LEMMA EndQueued ==
  ASSUME NEW strict \in BOOLEAN, IInv, Turning(strict), NEW kind \in Steps, Top(kind),
         NEW skipped \in BOOLEAN, kind # "start"
  PROVE  LET q == OnTurnEnd(who, skipped, Popped)
         IN  /\ TurnQueue(q) /\ Good(q) /\ From(OfTurn, Popped, q, {}) /\ who \in Player
             /\ NoneOf(q, Steps) /\ NoneOf(q, {"draw"})
             /\ strict =>
                  /\ kind \in Ending => NoneOf(q, {"turn_start"})
                  /\ kind \in Beginning =>
                       \A i \in DOMAIN q : q[i].kind = "turn_start" => q[i].who = playing
<1>1. /\ TurnQueue(Popped) /\ Good(Popped) /\ who \in Player
      /\ NoneOf(Popped, Steps) /\ NoneOf(Popped, {"draw"})
  BY OnTop, Topmost
<1>2. PICK q : q = OnTurnEnd(who, skipped, Popped)
  OBVIOUS
<1>3. TurnQueue(q) /\ From(OfTurn, Popped, q, {})
  BY <1>1, <1>2, TurnEndQueued
<1>4. Good(q)
  BY <1>1, <1>2, TurnEndAdds DEF Adds, IInv, TypeOK
<1>5. Steps \in SUBSET OfTurn /\ {"draw"} \in SUBSET OfTurn /\ {"turn_start"} \in SUBSET OfTurn
  BY DEF OfTurn
<1>6. NoneOf(q, Steps) /\ NoneOf(q, {"draw"})
  BY <1>1, <1>3, <1>5, StillInOrder DEF TurnQueue
<1>7. ASSUME strict
      PROVE  /\ kind \in Ending => NoneOf(q, {"turn_start"})
             /\ kind \in Beginning =>
                  \A i \in DOMAIN q : q[i].kind = "turn_start" => q[i].who = playing
  <2>1. /\ kind \in Ending => NoneOf(Popped, {"turn_start"})
        /\ kind \in Beginning =>
             \A i \in DOMAIN Popped : Popped[i].kind = "turn_start" => Popped[i].who = playing
    BY <1>7, OnTop
  <2>2. kind \in Ending => NoneOf(q, {"turn_start"})
    BY <1>1, <1>3, <1>5, <2>1, StillInOrder DEF TurnQueue
  <2>3. ASSUME kind \in Beginning, NEW i \in DOMAIN q, q[i].kind = "turn_start"
        PROVE  q[i].who = playing
    <3>1. PICK of : Traced(OfTurn, Popped, q, {}, of)
      BY <1>3 DEF From
    <3>2. of[i] \in DOMAIN Popped /\ q[i] = Popped[of[i]]
      BY <2>3, <3>1 DEF Traced, OfTurn
    <3> QED BY <2>1, <2>3, <3>2
  <2> QED BY <2>2, <2>3
<1> QED BY <1>1, <1>2, <1>3, <1>4, <1>6, <1>7

\* skip_turn: the turn goes to another, or was all over.
LEMMA SkipTurns ==
  ASSUME NEW strict \in BOOLEAN, IInv, Turning(strict), NEW kind \in {"jail", "skip"},
         Top(kind), SkipTurn(who, Popped), game' = game,
         strict /\ kind = "jail" => queue' = Popped \/ playing' # playing
  PROVE  Turning(strict)'
<1> DEFINE f == [flags EXCEPT ![who] = @ \ {"extra_turn"}]
<1>1. PICK q : q = OnTurnEnd(who, TRUE, Popped)
  OBVIOUS
<1>2. kind \in Steps /\ kind # "start" /\ (kind = "jail" => kind \in Beginning)
        /\ (kind = "skip" => kind \in Ending)
  BY DEF Steps, Beginning, Ending
<1>3. /\ TurnQueue(q) /\ Good(q) /\ From(OfTurn, Popped, q, {}) /\ who \in Player
      /\ NoneOf(q, Steps) /\ NoneOf(q, {"draw"})
      /\ strict =>
           /\ kind \in Ending => NoneOf(q, {"turn_start"})
           /\ kind \in Beginning =>
                \A i \in DOMAIN q : q[i].kind = "turn_start" => q[i].who = playing
  <2>1. \A s \in BOOLEAN : LET e == OnTurnEnd(who, s, Popped)
             IN  /\ TurnQueue(e) /\ Good(e) /\ From(OfTurn, Popped, e, {}) /\ who \in Player
                 /\ NoneOf(e, Steps) /\ NoneOf(e, {"draw"})
                 /\ strict =>
                      /\ kind \in Ending => NoneOf(e, {"turn_start"})
                      /\ kind \in Beginning =>
                           \A i \in DOMAIN e : e[i].kind = "turn_start" => e[i].who = playing
    BY <1>2, EndQueued
  <2> QED BY <1>1, <2>1
<1>4. StartNextTurn(f, q)
  BY <1>1 DEF SkipTurn
<1>5. SameLives(f)
  BY <1>3 DEF IInv, SameLives, TypeOK, Flag, Alive, AliveWith
<1> HIDE DEF f
<1>6. CASE queue' = q /\ playing' = playing /\ AlivePlayers = {}
  BY <1>3, <1>6, QuietTop
<1>7. CASE playing' \in Player /\ StartOfTurn(playing', q) /\ AlivePlayers # {}
  <2>1. PICK p \in Player : p = playing'
    BY <1>7
  <2>2. StartOfTurn(p, q)
    BY <1>7, <2>1
  <2>3. \E i \in DOMAIN queue' : queue'[i].kind = "pre_turn"
    BY <1>3, <2>2, TurnBegins DEF IInv, TypeOK
  <2>4. NoneOf(Popped, Steps)
    BY <1>2, OnTop
  <2>5. queue' # Popped
    BY <2>3, <2>4 DEF NoneOf, Steps, Beginning
  <2>6. strict => \A i \in DOMAIN q : q[i].kind = "turn_start" => q[i].who # p
    BY <1>2, <1>3, <2>1, <2>5 DEF NoneOf
  <2> QED BY <1>3, <2>2, <2>6, TurnTaken
<1> QED BY <1>3, <1>4, <1>5, <1>6, <1>7, NextTurnIs

\* A jailed turn does not come back to the player in jail.
JailPasses == Jail /\ queue' # Popped => playing' # playing

LEMMA JailTurns ==
  ASSUME NEW strict \in BOOLEAN, IInv, Turning(strict), Jail, strict => JailPasses
  PROVE  Turning(strict)'
<1>1. Top("jail") /\ game' = game
  BY DEF Jail
<1>2. CASE queue' = Popped /\ UNCHANGED <<playing, playerVars, scenario, deck, used>>
  BY <1>1, <1>2, OnTop, QuietTop
<1>3. CASE SkipTurn(who, Popped)
  BY <1>1, <1>3, SkipTurns DEF JailPasses
<1> QED BY <1>2, <1>3 DEF Jail

LEMMA SkipsTurn ==
  ASSUME NEW strict \in BOOLEAN, IInv, Turning(strict), Skip PROVE Turning(strict)'
BY SkipTurns DEF Skip

LEMMA StartTurns ==
  ASSUME NEW strict \in BOOLEAN, IInv, Turning(strict), Start PROVE Turning(strict)'
<1>1. /\ Top("start") /\ StartNextTurn(flags, Popped) /\ game' = game
      /\ TurnQueue(Popped) /\ Good(Popped) /\ From(OfTurn, Popped, Popped, {})
      /\ NoneOf(Popped, Steps) /\ NoneOf(Popped, {"draw"})
      /\ strict => NoneOf(Popped, {"turn_start"})
  BY OnTop, Topmost DEF Start, Steps, Ending
<1>2. SameLives(flags)
  BY DEF SameLives, IInv, TypeOK, Flag, Alive
<1>3. CASE queue' = Popped /\ playing' = playing /\ AlivePlayers = {}
  BY <1>1, <1>3, QuietTop
<1>4. CASE playing' \in Player /\ StartOfTurn(playing', Popped)
  <2>1. strict => \A i \in DOMAIN Popped : Popped[i].kind = "turn_start" => Popped[i].who # playing'
    BY <1>1 DEF NoneOf
  <2> QED BY <1>1, <1>4, <2>1, TurnTaken
<1> QED BY <1>1, <1>2, <1>3, <1>4, NextTurnIs

LEMMA EndTurnTurns ==
  ASSUME NEW strict \in BOOLEAN, IInv, Turning(strict), EndTurn PROVE Turning(strict)'
<1>1. /\ Top("end_turn") /\ game' = game /\ who \in Player
      /\ TurnQueue(Popped) /\ Good(Popped) /\ From(OfTurn, Popped, Popped, {})
      /\ NoneOf(Popped, Steps) /\ NoneOf(Popped, {"draw"})
      /\ strict => NoneOf(Popped, {"turn_start"})
  <2>1. Top("end_turn") /\ game' = game
    BY DEF EndTurn
  <2> QED BY <2>1, OnTop, Topmost DEF Steps, Ending
<1>2. CASE extra[who] = 0
  <2> DEFINE f == [flags EXCEPT ![who] = @ \ {"extra_turn"}]
  <2>1. StartNextTurn(f, Popped)
    BY <1>2 DEF EndTurn
  <2>2. SameLives(f)
    BY <1>1 DEF IInv, SameLives, TypeOK, Flag, Alive, AliveWith
  <2> HIDE DEF f
  <2>3. CASE queue' = Popped /\ playing' = playing /\ AlivePlayers = {}
    BY <1>1, <2>3, QuietTop
  <2>4. CASE playing' \in Player /\ StartOfTurn(playing', Popped)
    <3>1. strict =>
            \A i \in DOMAIN Popped : Popped[i].kind = "turn_start" => Popped[i].who # playing'
      BY <1>1 DEF NoneOf
    <3> QED BY <1>1, <2>4, <3>1, TurnTaken
  <2> QED BY <1>1, <2>1, <2>2, <2>3, <2>4, NextTurnIs
<1>3. CASE extra[who] # 0
  <2>1. StartOfTurn(who, Popped)
    BY <1>3 DEF EndTurn
  <2>2. strict => \A i \in DOMAIN Popped : Popped[i].kind = "turn_start" => Popped[i].who # who
    BY <1>1 DEF NoneOf
  <2> QED BY <1>1, <2>1, <2>2, TurnTaken
<1> QED BY <1>2, <1>3

LEMMA DiscardPassTurns ==
  ASSUME NEW strict \in BOOLEAN, IInv, Turning(strict), DiscardPass PROVE Turning(strict)'
<1> DEFINE r == Request("pass", who, None)
<1>1. /\ Top("discard_pass") /\ playing' = playing /\ TurnQueue(Popped) /\ who = playing
      /\ who \in Player /\ queue' = Enqueue(Popped, r)
  BY OnTop, Topmost DEF DiscardPass, Steps, Ending
<1>2. r \in RequestSet /\ r.kind = "pass" /\ r.who = playing
  BY <1>1, Priorities DEF Request, RequestSet
<1> HIDE DEF r
<1>3. TurnQueue(queue') /\ From(OfTurn, Popped, queue', {r})
  BY <1>1, <1>2, StepQueued
<1> QED BY <1>1, <1>2, <1>3, StepTaken DEF Steps, Beginning, Ending

LEMMA PassAgainTurns ==
  ASSUME NEW strict \in BOOLEAN, IInv, Turning(strict), PassAgain PROVE Turning(strict)'
<1> DEFINE r == Request("end_turn", who, None)
           q == OnTurnEnd(who, FALSE, Popped)
<1>1. /\ Top("pass") /\ playing' = playing /\ TurnQueue(Popped) /\ who = playing
      /\ who \in Player /\ queue' = Enqueue(q, r)
  BY OnTop, Topmost DEF PassAgain, PassWithoutDiscard, Steps, Ending
<1>2. r \in RequestSet /\ r.kind = "end_turn" /\ r.who = playing
  BY <1>1, Priorities DEF Request, RequestSet
<1>3. TurnQueue(q) /\ From(OfTurn, Popped, q, {})
  BY <1>1, TurnEndQueued
<1> HIDE DEF r, q
<1>4. TurnQueue(queue') /\ From(OfTurn, q, queue', {r})
  BY <1>1, <1>2, <1>3, StepQueued
<1>5. From(OfTurn, Popped, queue', {r})
  BY <1>1, <1>3, <1>4, FromQuiet DEF TurnQueue
<1> QED BY <1>1, <1>2, <1>4, <1>5, StepTaken DEF Steps, Beginning, Ending

\* A request that is no step of a turn is run, or the draw of the player on turn.
LEMMA EngineTurns ==
  ASSUME NEW strict \in BOOLEAN, IInv, Turning(strict),
         Draw \/ Check \/ Bang \/ Damage \/ Death \/ Eliminate \/ Reward \/ Bury \/ DiscardAll
           \/ GhostEnd \/ Verdict
  PROVE  Turning(strict)'
<1>0. playing \in Player \cup {None}
  BY DEF IInv, TypeOK
<1>1. \A kind : Top(kind) /\ kind # "start" =>
        /\ TurnQueue(Popped) /\ From(OfTurn, Popped, Popped, {}) /\ who \in Player
        /\ by \in Player \cup {None}
  BY OnTop, Topmost
<1>2. \A kind : Top(kind) /\ kind # "start" /\ playing' = playing /\ queue' = Popped
        => Turning(strict)'
  BY <1>1, QuietTop
<1>3. \A kind, k, x, b : Top(kind) /\ kind # "start" /\ playing' = playing
          /\ k \in DOMAIN Priority \ OfTurn /\ x \in Player \cup {None} /\ b \in Player \cup {None}
          /\ queue' = Enqueue(Popped, Request(k, x, b)) => Turning(strict)'
  <2> TAKE kind, k, x, b
  <2> HAVE Top(kind) /\ kind # "start" /\ playing' = playing
          /\ k \in DOMAIN Priority \ OfTurn /\ x \in Player \cup {None} /\ b \in Player \cup {None}
          /\ queue' = Enqueue(Popped, Request(k, x, b))
  <2>1. TurnQueue(queue') /\ From(OfTurn, Popped, queue', {})
    BY <1>1, QuietlyQueued
  <2> QED BY <2>1, QuietTop
<1>4. \A kind, killer : Top(kind) /\ kind # "start" /\ playing' = playing
          /\ killer \in Player \cup {None}
          /\ queue' = HandlePlayerDeath(who, killer, Popped) => Turning(strict)'
  <2> TAKE kind, killer
  <2> HAVE Top(kind) /\ kind # "start" /\ playing' = playing
          /\ killer \in Player \cup {None}
          /\ queue' = HandlePlayerDeath(who, killer, Popped)
  <2>1. TurnQueue(queue') /\ From(OfTurn, Popped, queue', {})
    BY <1>0, <1>1, DeathInTurn
  <2> QED BY <2>1, QuietTop
<1>5. CASE Draw
  BY <1>2, <1>5 DEF Draw
<1>6. CASE Check
  BY <1>2, <1>6 DEF Check
<1>7. CASE Bang
  BY <1>1, <1>2, <1>3, <1>7, Engaged DEF Bang
<1>8. CASE Damage
  <2>1. Top("damage") /\ playing' = playing
        /\ (queue' = Popped \/ queue' = Enqueue(Popped, Request("death", who, by)))
    BY <1>8 DEF Damage
  <2> QED BY <1>1, <1>2, <1>3, <2>1, Engaged
<1>9. CASE Death
  BY <1>1, <1>2, <1>4, <1>9 DEF Death
<1>10. CASE Eliminate
  BY <1>2, <1>10 DEF Eliminate
<1>11. CASE Reward
  <2>1. Top("reward") /\ playing' = playing
        /\ (queue' = Popped \/ queue' = Enqueue(Popped, Request("sheriff_discard", by, None)))
    BY <1>11 DEF Reward
  <2> QED BY <1>1, <1>2, <1>3, <2>1, Engaged
<1>12. CASE Bury
  <2>1. Top("bury") /\ playing' = playing
        /\ (queue' = Popped \/ queue' = Enqueue(Popped, Request("discard_all", who, None)))
    BY <1>12 DEF Bury
  <2> QED BY <1>1, <1>2, <1>3, <2>1, Engaged
<1>13. CASE DiscardAll
  <2>1. (Top("discard_all") \/ Top("sheriff_discard")) /\ playing' = playing
        /\ (queue' = Popped \/ queue' = HandlePlayerDeath(who, None, Popped))
    BY <1>13 DEF DiscardAll
  <2> QED BY <1>2, <1>4, <2>1
<1>14. CASE GhostEnd
  <2>1. Top("ghost_end") /\ playing' = playing
        /\ (queue' = Popped \/ queue' = HandlePlayerDeath(who, None, Popped))
    BY <1>14 DEF GhostEnd
  <2> QED BY <1>2, <1>4, <2>1
<1>15. CASE Verdict
  BY <1>2, <1>15 DEF Verdict
<1> QED BY <1>5, <1>6, <1>7, <1>8, <1>9, <1>10, <1>11, <1>12, <1>13, <1>14, <1>15

\* With nothing queued.
LEMMA AtRestIs ==
  ASSUME IInv, AtRest
  PROVE  /\ TurnQueue(queue) /\ Good(queue) /\ DOMAIN queue = {} /\ playing \in Player
         /\ \A kinds : NoneOf(queue, kinds)
<1>1. Good(queue) /\ queue = <<>> /\ playing \in Player
  BY Resting
<1>2. DOMAIN queue = {}
  BY <1>1
<1> QED BY <1>1, <1>2 DEF TurnQueue, Good, NoneOf

LEMMA ReadyDeadTurns ==
  ASSUME NEW strict \in BOOLEAN, IInv, Turning(strict), ReadyDead PROVE Turning(strict)'
<1>1. AtRest /\ StartNextTurn(flags, queue) /\ game' = game
  BY DEF ReadyDead
<1>2. TurnQueue(queue) /\ Good(queue) /\ DOMAIN queue = {} /\ \A kinds : NoneOf(queue, kinds)
  BY <1>1, AtRestIs
<1>3. SameLives(flags)
  BY DEF SameLives, IInv, TypeOK, Flag, Alive
<1>4. CASE queue' = queue /\ playing' = playing /\ AlivePlayers = {}
  BY <1>2, <1>4 DEF Turning, DrawFirst
<1>5. CASE playing' \in Player /\ StartOfTurn(playing', queue)
  <2>1. PICK q : q = queue
    OBVIOUS
  <2>2. PICK p \in Player : p = playing'
    BY <1>5
  <2>3. TurnQueue(q) /\ NoneOf(q, Steps) /\ NoneOf(q, {"draw"}) /\ DOMAIN q = {}
        /\ StartOfTurn(p, q)
    BY <1>2, <1>5, <2>1, <2>2
  <2> QED BY <2>3, TurnTaken
<1> QED BY <1>1, <1>2, <1>3, <1>4, <1>5, NextTurnIs

\* The player on turn ends it.
LEMMA PassTurns ==
  ASSUME NEW strict \in BOOLEAN, IInv, Turning(strict), Pass PROVE Turning(strict)'
<1>1. AtRest /\ playing' = playing /\ PassTurn(playing, queue)
  BY DEF Pass, Ready
<1>2. TurnQueue(queue) /\ playing \in Player /\ DOMAIN queue = {} /\ \A kinds : NoneOf(queue, kinds)
  BY <1>1, AtRestIs
<1>3. PICK p \in Player : p = playing
  BY <1>2
<1>4. PICK q : q = queue
  OBVIOUS
<1>5. TurnQueue(q) /\ DOMAIN q = {} /\ NoneOf(q, Steps) /\ NoneOf(q, {"draw"})
       /\ NoneOf(q, {"turn_start"}) /\ (strict => Starts(q, p))
  BY <1>2, <1>3, <1>4 DEF Turning
<1>6. \A r \in RequestSet : \A e : From(OfTurn, q, e, {r}) /\ TurnQueue(e)
        /\ r.kind \in Ending \ {"start"} /\ r.who = p
          => Single(e, p) /\ (strict => Starts(e, p)) /\ NoneOf(e, {"draw"})
  <2> SUFFICES ASSUME NEW r \in RequestSet, NEW e, From(OfTurn, q, e, {r}), TurnQueue(e),
                      r.kind \in Ending \ {"start"}, r.who = p
               PROVE  Single(e, p) /\ (strict => Starts(e, p)) /\ NoneOf(e, {"draw"})
    OBVIOUS
  <2>1. r.kind \in Steps \ {"start", "pre_turn"}
    BY DEF Steps, Ending
  <2>2. q \in Seq(RequestSet) /\ e \in Seq(RequestSet)
    BY <1>5 DEF TurnQueue
  <2> QED BY <1>5, <2>1, <2>2, StepJoins
<1>7. CASE queue' = Enqueue(queue, Request("discard_pass", playing, None))
  <2>1. PICK r : r = Request("discard_pass", playing, None)
    OBVIOUS
  <2>2. r \in RequestSet /\ r.kind = "discard_pass" /\ r.who = p
    BY <1>3, <2>1, Priorities DEF Request, RequestSet
  <2>3. queue' = Enqueue(q, r)
    BY <1>4, <1>7, <2>1
  <2>4. TurnQueue(queue') /\ From(OfTurn, q, queue', {r})
    BY <1>5, <2>2, <2>3, StepQueued
  <2> QED BY <1>1, <1>3, <1>6, <2>2, <2>4 DEF Turning, Ending, DrawFirst, NoneOf
<1>8. CASE PassWithoutDiscard(playing, queue)
  <2>1. PICK r : r = Request("end_turn", playing, None)
    OBVIOUS
  <2>2. r \in RequestSet /\ r.kind = "end_turn" /\ r.who = p
    BY <1>3, <2>1, Priorities DEF Request, RequestSet
  <2>3. PICK s : s = OnTurnEnd(p, FALSE, q)
    OBVIOUS
  <2>4. queue' = Enqueue(s, r)
    BY <1>3, <1>4, <1>8, <2>1, <2>3 DEF PassWithoutDiscard
  <2>5. TurnQueue(s) /\ From(OfTurn, q, s, {})
    BY <1>5, <2>3, TurnEndQueued
  <2>6. TurnQueue(queue') /\ From(OfTurn, s, queue', {r})
    BY <2>2, <2>4, <2>5, StepQueued
  <2>7. From(OfTurn, q, queue', {r})
    BY <1>5, <2>5, <2>6, FromQuiet DEF TurnQueue
  <2> QED BY <1>1, <1>3, <1>6, <2>2, <2>6, <2>7 DEF Turning, Ending, DrawFirst, NoneOf
<1> QED BY <1>1, <1>7, <1>8 DEF PassTurn

\* A play answered with Mirage: hits, and the skip of the turn.
LEMMA Answered ==
  ASSUME IInv, NEW S \in SUBSET AlivePlayers, Mirage(S)
  PROVE  /\ TurnQueue(queue') /\ playing' = playing
         /\ \A i \in DOMAIN queue' :
              \/ queue'[i].kind = "damage"
              \/ queue'[i] = Request("skip", playing, None)
         /\ \A i, j \in DOMAIN queue' : queue'[i].kind = "skip" /\ queue'[j].kind = "skip" => i = j
<1> DEFINE r == Request("skip", playing, None)
<1>1. AtRest /\ playing \in Player /\ queue' = Enqueue(Hits(S), r) /\ playing' = playing
  BY Resting DEF Mirage, Ready
<1>2. r \in RequestSet /\ r.kind = "skip"
  BY <1>1, Priorities DEF Request, RequestSet
<1> HIDE DEF r
<1>3. PICK q : q = Hits(S)
  OBVIOUS
<1>4. /\ TurnQueue(q)
      /\ \A i \in DOMAIN q : q[i].kind = "damage"
  BY <1>1, <1>3, Volley DEF Good, TurnQueue
<1>5. PICK K : K = DOMAIN Priority
  OBVIOUS
<1>6. TurnQueue(queue') /\ From(K, q, queue', {r})
  BY <1>1, <1>2, <1>3, <1>4, StepQueued
<1>7. PICK of : Traced(K, q, queue', {r}, of)
  BY <1>6 DEF From
<1>8. \A i \in DOMAIN queue' : queue'[i].kind \in K
  BY <1>5, <1>6, QueueType DEF TurnQueue
<1>9. \A i \in DOMAIN queue' :
        \/ of[i] = 0 /\ queue'[i] = r
        \/ of[i] # 0 /\ of[i] \in DOMAIN q /\ queue'[i] = q[of[i]]
  BY <1>7, <1>8 DEF Traced
<1>10. \A i, j \in DOMAIN queue' : of[i] = 0 /\ of[j] = 0 => i = j
  BY <1>7, <1>8 DEF Traced
<1>11. \A i \in DOMAIN queue' : queue'[i].kind = "skip" => of[i] = 0
  BY <1>4, <1>9
<1> QED BY <1>1, <1>4, <1>6, <1>9, <1>10, <1>11 DEF r

\* The moves of the players.
LEMMA PlayTurns ==
  ASSUME NEW strict \in BOOLEAN, IInv, Turning(strict), Play PROVE Turning(strict)'
<1>0. AtRest /\ DOMAIN queue = {}
  <2>1. AtRest
    BY DEF Play, Hit, Mirage, UseCards, GoldRush, PlayGhost, LoseGhost, ChangeWws, LadyRosa, Ready
  <2> QED BY <2>1, AtRestIs
<1>1. CASE queue' = queue /\ playing' = playing
  BY <1>0, <1>1 DEF Turning, DrawFirst
<1>2. ASSUME NEW S \in SUBSET AlivePlayers, Hit(S) PROVE Turning(strict)'
  <2>1. \A i \in DOMAIN queue' : queue'[i].kind = "damage"
    BY <1>0, <1>2, Volley DEF Hit
  <2>2. playing' = playing
    BY <1>2 DEF Hit
  <2> QED BY <2>1, <2>2 DEF Turning, Single, DrawFirst, Starts, Steps, Beginning, Ending
<1>3. ASSUME NEW S \in SUBSET AlivePlayers, Mirage(S) PROVE Turning(strict)'
  <2>1. /\ playing' = playing
        /\ \A i \in DOMAIN queue' :
             \/ queue'[i].kind = "damage"
             \/ queue'[i].kind = "skip" /\ queue'[i].who = playing
        /\ \A i, j \in DOMAIN queue' : queue'[i].kind = "skip" /\ queue'[j].kind = "skip" => i = j
    BY <1>3, Answered DEF Request
  <2>2. Single(queue', playing')
    BY <2>1 DEF Single, Steps, Beginning, Ending
  <2>3. \A i \in DOMAIN queue' : queue'[i].kind \in {"damage", "skip"}
    BY <2>1
  <2> HIDE DEF Steps
  <2>4. DrawFirst(queue)' /\ Starts(queue', playing')
    BY <2>3 DEF DrawFirst, Starts, Ending
  <2> QED BY <2>2, <2>4 DEF Turning
<1>4. ASSUME NEW p \in Player, LoseGhost(p) PROVE Turning(strict)'
  <2>1. playing' = playing /\ (queue' = queue \/ queue' = HandlePlayerDeath(p, None, queue))
    BY <1>4 DEF LoseGhost
  <2>2. PICK q : q = queue
    OBVIOUS
  <2>3. TurnQueue(q) /\ playing \in Player \cup {None} /\ None \in Player \cup {None}
    BY <2>2 DEF IInv, Good, TurnQueue, TypeOK
  <2>4. \A k \in Player \cup {None} :
          TurnQueue(HandlePlayerDeath(p, k, q)) /\ From(OfTurn, q, HandlePlayerDeath(p, k, q), {})
    BY <2>3, DeathInTurn
  <2>5. CASE queue' = HandlePlayerDeath(p, None, queue)
    <3>1. TurnQueue(queue') /\ From(OfTurn, q, queue', {})
      BY <2>2, <2>3, <2>4, <2>5
    <3>2. AtRest
      BY <1>4 DEF LoseGhost, Ready
    <3>3. Single(q, playing) /\ (strict => Starts(q, playing)) /\ NoneOf(q, {"draw"})
      BY <2>2, <3>2, AtRestIs DEF Turning
    <3>4. q \in Seq(RequestSet) /\ queue' \in Seq(RequestSet)
      BY <2>3, <3>1 DEF TurnQueue
    <3> QED BY <2>1, <3>1, <3>3, <3>4, Undisturbed
  <2> QED BY <1>1, <2>1, <2>5
<1>5. ASSUME NEW p \in Player, PlayGhost(p) PROVE Turning(strict)'
  BY <1>1, <1>5 DEF PlayGhost
<1>6. CASE UseCards \/ GoldRush \/ LadyRosa
  BY <1>1, <1>6 DEF UseCards, GoldRush, LadyRosa
<1>7. ASSUME NEW card, ChangeWws(card) PROVE Turning(strict)'
  BY <1>1, <1>7 DEF ChangeWws
<1> QED BY <1>2, <1>3, <1>4, <1>5, <1>6, <1>7 DEF Play

LEMMA TurningInit == ASSUME NEW strict \in BOOLEAN PROVE Init => Turning(strict)
<1> SUFFICES ASSUME Init PROVE Turning(strict)
  OBVIOUS
<1>1. queue = <<Request("start", None, None)>> /\ playing = None
  BY DEF Init
<1>2. \A i \in DOMAIN queue : i = 1 /\ queue[i].kind = "start" /\ queue[i].who = None
  BY <1>1 DEF Request
<1> QED BY <1>1, <1>2 DEF Turning, Single, DrawFirst, Starts, Steps, Beginning, Ending

LEMMA TurningNext ==
  ASSUME NEW strict \in BOOLEAN
  PROVE  IInv /\ Turning(strict) /\ [Next]_vars /\ (strict => JailPasses) => Turning(strict)'
<1> SUFFICES ASSUME IInv, Turning(strict), [Next]_vars, strict => JailPasses
             PROVE  Turning(strict)'
  OBVIOUS
<1>1. CASE Engine
  BY <1>1, StartTurns, PreTurnTurns, PredrawTurns, JailTurns, TurnStartTurns, DiscardPassTurns,
     PassAgainTurns, EndTurnTurns, SkipsTurn, EngineTurns, ReadyDeadTurns DEF Engine
<1>2. CASE Pass
  BY <1>2, PassTurns
<1>3. CASE Play
  BY <1>3, PlayTurns
<1>4. CASE GameOver \/ UNCHANGED vars
  BY <1>4 DEF GameOver, vars, playerVars, Turning, DrawFirst, InTurn, Alive, AliveWith
<1> QED BY <1>1, <1>2, <1>3, <1>4 DEF Next

LEMMA TurningAlways == Spec => []Turning(FALSE)
<1>1. Init => Turning(FALSE)
  BY TurningInit
<1>2. IInv /\ Turning(FALSE) /\ [Next]_vars => Turning(FALSE)'
  BY TurningNext
<1> QED BY <1>1, <1>2, IInvAlways, PTL DEF Spec

(***************************************************************************)
(* Without Lady Rosa nobody loses a turn but in jail, and nobody moves.    *)
(***************************************************************************)

Unmoved ==
  "rosa" \notin Cards =>
    /\ order = [p \in Player |-> p]
    /\ \A p \in Player : "skip_turn" \notin flags[p]
    /\ "rosa" \notin wwsDeck /\ wws # "rosa"

LEMMA OtherSeat ==
  ASSUME NEW m \in 3 .. 8, NEW a \in 0 .. m - 1, NEW d \in {1, -1}, NEW n \in 1 .. m - 1
  PROVE  (a + d * n) % m # a
<1>1. CASE m = 3
  BY <1>1
<1>2. CASE m = 4
  BY <1>2
<1>3. CASE m = 5
  BY <1>3
<1>4. CASE m = 6
  BY <1>4
<1>5. CASE m = 7
  BY <1>5
<1>6. CASE m = 8
  BY <1>6
<1> QED BY <1>1, <1>2, <1>3, <1>4, <1>5, <1>6

LEMMA WholeRound ==
  ASSUME NEW m \in 3 .. 8, NEW a \in 0 .. m - 1, NEW d \in {1, -1}
  PROVE  (a + d * m) % m = a
<1>1. CASE m = 3
  BY <1>1
<1>2. CASE m = 4
  BY <1>2
<1>3. CASE m = 5
  BY <1>3
<1>4. CASE m = 6
  BY <1>4
<1>5. CASE m = 7
  BY <1>5
<1>6. CASE m = 8
  BY <1>6
<1> QED BY <1>1, <1>2, <1>3, <1>4, <1>5, <1>6

LEMMA OthersSit ==
  ASSUME game \in Games, order = [p \in Player |-> p], NEW p \in Player, NEW d \in {1, -1},
         NEW n \in 1 .. N - 1
  PROVE  Seat(p, d * n) # p
<1>1. N \in 3 .. 8 /\ Player = 1 .. N /\ order \in [Player -> Player]
  BY Sizes
<1>2. Seated
  BY DEF Seated
<1>3. PositionOf(p) = p
  <2>1. PositionOf(p) \in Player /\ order[PositionOf(p)] = p
    BY <1>1, <1>2, Positions
  <2> QED BY <2>1
<1> DEFINE a == p - 1
           s == (a + d * n) % N
<1>4. a \in 0 .. N - 1 /\ a \in Int /\ a + 1 = p
  BY <1>1
<1>5. s # a
  BY <1>1, <1>4, OtherSeat
<1>6. s \in 0 .. N - 1
  <2>1. a + d * n \in Int
    BY <1>1, <1>4
  <2> HIDE DEF a
  <2> QED BY <1>1, <2>1
<1>7. Seat(p, d * n) = order[s + 1]
  BY <1>3 DEF Seat
<1> HIDE DEF s, a
<1>8. s + 1 \in Player /\ s + 1 # p
  BY <1>1, <1>4, <1>5, <1>6
<1> QED BY <1>7, <1>8

\* A player who was killed in another's turn has had the verdict by then.
LEMMA AnotherLives ==
  ASSUME IInv, Top("jail")
  PROVE  \E x \in Player : Alive(x) /\ x # playing
<1>1. /\ winners = None /\ playing # None
      /\ \A k, p : Waiting(queue, k, p) <=> Waiting(Popped, k, p) \/ (k = "jail" /\ p = who)
      /\ \A k, p : Waiting(Popped, k, p) => k \in DOMAIN Priority /\ Priority[k] <= Priority["jail"]
  BY Topmost
<1>2. \A p : ~Waiting(queue, "verdict", p)
  BY <1>1, Priorities
<1>3. ~Decided
  BY <1>1, <1>2 DEF IInv, Undecided
<1>4. game \in Games
  BY DEF IInv, TypeOK
<1>5. ~ (\A x, y \in Player : Alive(x) /\ Alive(y) => x = y)
  <2>1. CASE FreeForAll \/ N <= 3
    BY <1>3, <1>4, <2>1, DecidedIs
  <2>2. CASE ~ (FreeForAll \/ N <= 3)
    <3>1. PICK x \in Player : Alive(x) /\ roles[x] = "sheriff"
      BY <1>3, <1>4, <2>2, DecidedIs
    <3>2. PICK y \in Player : Alive(y) /\ roles[y] \in {"outlaw", "renegade"}
      BY <1>3, <1>4, <2>2, DecidedIs
    <3> QED BY <3>1, <3>2
  <2> QED BY <2>1, <2>2
<1> QED BY <1>5

LEMMA Nearer ==
  ASSUME game \in Games, order \in [Player -> Player], Seated, NEW p \in Player,
         NEW s \in Player, NEW d \in {1, -1}
  PROVE  \E n \in 1 .. N : Seat(p, d * n) = s
BY Positions

LEMMA TurnMoves ==
  ASSUME IInv, Unmoved, "rosa" \notin Cards, playing \in Player, NEW x \in Player, Alive(x),
         x # playing, NEW f, \A p \in Player : "skip_turn" \notin f[p],
         NEW q, StartNextTurn(f, q)
  PROVE  playing' # playing
<1> DEFINE SeatAt(n) == Seat(playing, Direction * n)
           Skipped(n) == n <= N /\ "skip_turn" \in f[SeatAt(n)]
           Takes(n) == ~Skipped(n) /\ (Alive(SeatAt(n)) \/ Reviver(SeatAt(n)) # None)
           n0 == CHOOSE n \in 1 .. 2 * N : Takes(n) /\ \A k \in 1 .. n - 1 : ~Takes(k)
           next == IF playing = None THEN first ELSE SeatAt(n0)
<1>1. /\ game \in Games /\ N \in 3 .. 8 /\ Player = 1 .. N /\ None \notin Player
      /\ order \in [Player -> Player] /\ order = [p \in Player |-> p] /\ Seated
  BY Sizes DEF IInv, TypeOK, Unmoved
<1>2. playing' = next
  <2>1. AlivePlayers # {}
    BY DEF AlivePlayers
  <2>2. StartOfTurn(next, q)
    BY <2>1 DEF StartNextTurn
  <2> QED BY <2>2 DEF StartOfTurn
<1>3. PICK d \in {1, -1} : d = Direction
  BY Directions
<1>4. PICK p \in Player : p = playing
  OBVIOUS
<1>o. game \in Games /\ order \in [Player -> Player] /\ Seated
  BY <1>1
<1>5. PICK n \in 1 .. N : Seat(p, d * n) = x
  BY <1>o, Nearer
<1>6. Takes(n)
  BY <1>3, <1>4, <1>5
<1>7. n \in 1 .. N - 1
  <2> SUFFICES ASSUME n = N PROVE FALSE
    BY <1>1
  <2>1. Seat(p, d * N) = p
    <3> DEFINE a == p - 1
    <3>1. a \in 0 .. N - 1 /\ a + 1 = p
      BY <1>1
    <3>2. (a + d * N) % N = a
      BY <1>1, <3>1, WholeRound
    <3>3. PositionOf(p) = p
      <4>1. PositionOf(p) \in Player /\ order[PositionOf(p)] = p
        BY <1>1, Positions
      <4> QED BY <1>1, <4>1
    <3>4. Seat(p, d * N) = order[((a + d * N) % N) + 1]
      BY <3>3 DEF Seat
    <3> HIDE DEF a
    <3> QED BY <1>1, <3>1, <3>2, <3>4
  <2> QED BY <1>4, <1>5, <2>1
<1> DEFINE T == {k \in 1 .. 2 * N : Takes(k)}
<1> HIDE DEF Takes
<1>8. n \in T /\ T \subseteq Nat \ {0}
  BY <1>1, <1>6
<1>9. PICK m \in T : \A k \in 1 .. m - 1 : k \notin T
  BY <1>8, FirstOne
<1>10. m \in 1 .. 2 * N /\ Takes(m) /\ \A k \in 1 .. m - 1 : ~Takes(k)
  BY <1>1, <1>9
<1>11. n0 \in 1 .. 2 * N /\ \A k \in 1 .. n0 - 1 : ~Takes(k)
  BY <1>10
<1> HIDE DEF n0
<1>12. n0 \in 1 .. N - 1
  BY <1>1, <1>6, <1>7, <1>11
<1>13. Seat(p, d * n0) # p
  BY <1>1, <1>12, OthersSit
<1> QED BY <1>1, <1>2, <1>3, <1>4, <1>13

\* The start of a turn gives nobody a turn to skip.
LEMMA NoneSkipped ==
  ASSUME TypeOK, NEW f \in [Player -> SUBSET Flag], NEW q, StartNextTurn(f, q)
  PROVE  \A p \in Player : "skip_turn" \in flags'[p] => "skip_turn" \in f[p]
<1>1. CASE AlivePlayers = {}
  BY <1>1 DEF StartNextTurn
<1>2. CASE AlivePlayers # {}
  <2>1. PICK next, passed :
          Revive(next, [p \in Player |-> IF p \in passed THEN f[p] \ {"skip_turn"} ELSE f[p]])
    <3>1. \E next, passed :
            Revive(next, [p \in Player |-> IF p \in passed THEN f[p] \ {"skip_turn"} ELSE f[p]])
      BY <1>2 DEF StartNextTurn
    <3> QED BY <3>1
  <2> DEFINE g == [p \in Player |-> IF p \in passed THEN f[p] \ {"skip_turn"} ELSE f[p]]
  <2>2. /\ g \in [Player -> SUBSET Flag] /\ Revive(next, g)
        /\ \A p \in Player : "skip_turn" \in g[p] => "skip_turn" \in f[p]
    BY <2>1
  <2> HIDE DEF g
  <2>3. CASE Reviver(next) = None
    <3>1. flags' = g
      BY <2>2, <2>3, TurnFlowAssumption DEF Revive, AllCards, ScenarioCards, WildWestCards
    <3> QED BY <2>2, <3>1
  <2>4. CASE Reviver(next) # None
    <3>1. \/ flags' = [g EXCEPT ![next] = @ \cup {"temp_ghost"}]
          \/ flags' = [g EXCEPT ![next] = @ \ {"dead"}]
      BY <2>2, <2>4, ReviverIs DEF Revive
    <3> QED BY <2>2, <3>1
  <2> QED BY <2>3, <2>4
<1> QED BY <1>1, <1>2

LEMMA Stays ==
  ASSUME Unmoved, game' = game, order' = order, wws' = wws, wwsDeck' = wwsDeck,
         \A p \in Player : "skip_turn" \in flags'[p] => "skip_turn" \in flags[p]
  PROVE  Unmoved'
BY SameGame DEF Unmoved

LEMMA UnmovedNext == IInv /\ Unmoved /\ [Next]_vars => Unmoved'
<1> SUFFICES ASSUME IInv, Unmoved, [Next]_vars PROVE Unmoved'
  OBVIOUS
<1>0. TypeOK /\ flags \in [Player -> SUBSET Flag]
  BY DEF IInv, TypeOK, Flag
<1>1. CASE UNCHANGED <<flags, tableVars>>
  BY <1>1, Stays DEF tableVars
<1>2. ASSUME NEW f \in [Player -> SUBSET Flag], NEW q, StartNextTurn(f, q),
             \A p \in Player : f[p] \subseteq flags[p],
             UNCHANGED <<game, order, wws, wwsDeck>>
      PROVE  Unmoved'
  BY <1>0, <1>2, NoneSkipped, Stays
<1>3. ASSUME NEW p, NEW F, "skip_turn" \notin F, UNCHANGED tableVars,
             flags' = [flags EXCEPT ![p] = @ \cup F] \/ flags' = [flags EXCEPT ![p] = @ \ F]
      PROVE  Unmoved'
  <2>1. \A x \in Player : "skip_turn" \in flags'[x] => "skip_turn" \in flags[x]
    BY <1>0, <1>3
  <2> QED BY <1>3, <2>1, Stays DEF tableVars
<1>4. ASSUME NEW p, SkipTurn(p, Popped), UNCHANGED <<game, order, wws, wwsDeck>> PROVE Unmoved'
  <2> DEFINE f == [flags EXCEPT ![p] = @ \ {"extra_turn"}]
  <2>1. f \in [Player -> SUBSET Flag] /\ \A x \in Player : f[x] \subseteq flags[x]
    BY <1>0
  <2>2. \E q : StartNextTurn(f, q)
    BY <1>4 DEF SkipTurn
  <2> QED BY <1>2, <1>4, <2>1, <2>2
<1>5. CASE Start \/ ReadyDead
  <2>1. \E q : StartNextTurn(flags, q)
    BY <1>5 DEF Start, ReadyDead
  <2>2. UNCHANGED <<game, order, wws, wwsDeck>>
    BY <1>5 DEF Start, ReadyDead
  <2> QED BY <1>0, <1>2, <2>1, <2>2
<1>6. CASE Jail \/ Skip
  <2>1. UNCHANGED <<game, order, wws, wwsDeck>>
    BY <1>6 DEF Jail, Skip
  <2>2. UNCHANGED playerVars \/ \E p : SkipTurn(p, Popped)
    BY <1>6 DEF Jail, Skip
  <2>3. CASE UNCHANGED playerVars
    BY <2>1, <2>3, Stays DEF playerVars
  <2> QED BY <1>4, <2>1, <2>2, <2>3
<1>7. CASE EndTurn
  <2>1. UNCHANGED <<game, order, wws, wwsDeck>>
    BY <1>7 DEF EndTurn
  <2>2. CASE extra[who] = 0
    <3> DEFINE f == [flags EXCEPT ![who] = @ \ {"extra_turn"}]
    <3>1. f \in [Player -> SUBSET Flag] /\ \A x \in Player : f[x] \subseteq flags[x]
      BY <1>0
    <3>2. StartNextTurn(f, Popped)
      BY <1>7, <2>2 DEF EndTurn
    <3> QED BY <1>2, <2>1, <3>1, <3>2
  <2>3. CASE extra[who] # 0
    <3>1. flags' = [flags EXCEPT ![who] = @ \cup {"extra_turn"}]
      BY <1>7, <2>3 DEF EndTurn
    <3>2. \A x \in Player : "skip_turn" \in flags'[x] => "skip_turn" \in flags[x]
      BY <1>0, <3>1
    <3> QED BY <2>1, <3>2, Stays
  <2> QED BY <2>2, <2>3
<1>8. CASE PreTurn \/ Predraw \/ TurnStart \/ Draw \/ DiscardPass \/ PassAgain \/ Check \/ Bang
            \/ Damage \/ Death \/ Reward \/ Bury \/ Verdict
  <2>1. UNCHANGED <<flags, game, order, wws, wwsDeck>>
    BY <1>8 DEF PreTurn, Predraw, TurnStart, Draw, DiscardPass, PassAgain, Check, Bang, Damage,
       Death, Reward, Bury, Verdict, playerVars, tableVars
  <2> QED BY <2>1, Stays
<1>9. CASE Eliminate
  BY <1>1, <1>3, <1>9 DEF Eliminate
<1>10. CASE DiscardAll
  BY <1>3, <1>10 DEF DiscardAll
<1>11. CASE GhostEnd
  BY <1>1, <1>3, <1>11 DEF GhostEnd
<1>12. CASE Pass
  BY <1>12, Stays DEF Pass, playerVars
<1>13. CASE Play
  <2>1. ASSUME NEW S, Hit(S) \/ Mirage(S) PROVE Unmoved'
    BY <1>1, <2>1 DEF Hit, Mirage, playerVars
  <2>2. CASE UseCards \/ GoldRush
    BY <1>1, <2>2 DEF UseCards, GoldRush, playerVars
  <2>3. ASSUME NEW p \in Player, PlayGhost(p) PROVE Unmoved'
    BY <1>3, <2>3 DEF PlayGhost
  <2>4. ASSUME NEW p \in Player, LoseGhost(p) PROVE Unmoved'
    BY <1>3, <2>4 DEF LoseGhost
  <2>5. ASSUME NEW card \in wwsDeck \cup {None}, ChangeWws(card) PROVE Unmoved'
    <3>1. /\ wws' = card /\ wwsDeck' \subseteq wwsDeck
          /\ UNCHANGED <<game, order, flags>>
      BY <2>5 DEF ChangeWws, playerVars
    <3>2. None # "rosa"
      BY TurnFlowAssumption DEF AllCards, WildWestCards
    <3> QED BY <3>1, <3>2, SameGame DEF Unmoved
  <2>6. CASE LadyRosa
    BY <2>6, SameGame DEF LadyRosa, Unmoved
  <2> QED BY <1>13, <2>1, <2>2, <2>3, <2>4, <2>5, <2>6 DEF Play
<1>14. CASE GameOver \/ UNCHANGED vars
  BY <1>1, <1>14 DEF GameOver, vars, playerVars
<1> QED BY <1>5, <1>6, <1>7, <1>8, <1>9, <1>10, <1>11, <1>12, <1>13, <1>14 DEF Next, Engine

LEMMA UnmovedAlways == Spec => []Unmoved
<1>1. Init => Unmoved
  BY TurnFlowAssumption DEF Init, Unmoved, Player, AllCards, WildWestCards
<1> QED BY <1>1, UnmovedNext, IInvAlways, PTL DEF Spec

LEMMA GameStays == [Next]_vars => game' = game
<1> SUFFICES ASSUME [Next]_vars PROVE game' = game
  OBVIOUS
<1>1. CASE Engine
  BY <1>1 DEF Engine, Start, PreTurn, Predraw, Jail, TurnStart, Draw, DiscardPass, PassAgain, Check,
     EndTurn, Skip, Bang, Damage, Death, Eliminate, Reward, Bury, DiscardAll, GhostEnd, Verdict,
     ReadyDead, tableVars
<1>2. CASE Pass
  BY <1>2 DEF Pass
<1>3. CASE Play
  BY <1>3 DEF Play, Hit, Mirage, UseCards, GoldRush, PlayGhost, LoseGhost, ChangeWws, LadyRosa,
     tableVars
<1>4. CASE GameOver \/ UNCHANGED vars
  BY <1>4 DEF GameOver, vars, tableVars
<1> QED BY <1>1, <1>2, <1>3, <1>4 DEF Next

LEMMA JailAndRosa ==
  IInv /\ Turning(TRUE) /\ Unmoved /\ KeptApart /\ [Next]_vars => JailPasses
<1> SUFFICES ASSUME IInv, Turning(TRUE), Unmoved, KeptApart, Jail, queue' # Popped
             PROVE  playing' # playing
  BY DEF JailPasses
<1>1. Top("jail") /\ InTurn(who) /\ "jail" \in Cards /\ SkipTurn(who, Popped)
  BY DEF Jail
<1>2. game \in Games /\ flags \in [Player -> SUBSET Flag]
  BY DEF IInv, TypeOK, Flag
<1>3. "rosa" \notin Cards
  BY <1>1 DEF KeptApart
<1>4. playing \in Player
  BY <1>1, Topmost DEF InTurn
<1>5. PICK x \in Player : Alive(x) /\ x # playing
  BY <1>1, AnotherLives
<1> DEFINE f == [flags EXCEPT ![who] = @ \ {"extra_turn"}]
<1>6. \A p \in Player : "skip_turn" \notin f[p]
  BY <1>2, <1>3 DEF Unmoved
<1>7. \E q : StartNextTurn(f, q)
  BY <1>1 DEF SkipTurn
<1> HIDE DEF f
<1> QED BY <1>3, <1>4, <1>5, <1>6, <1>7, TurnMoves

LEMMA OneAtATime ==
  IInv /\ Turning(FALSE) /\ (KeptApart => Turning(TRUE)) => OneTurnAtATime
<1> SUFFICES ASSUME IInv, Turning(FALSE), KeptApart => Turning(TRUE),
                    NEW i \in DOMAIN queue, NEW j \in DOMAIN queue
             PROVE  /\ queue[i].kind \in TurnSteps =>
                         queue[i].who = playing /\ (queue[j].kind \in TurnSteps => i = j)
                    /\ queue[i].kind = "draw" =>
                         /\ InTurn(queue[i].who)
                         /\ queue[j].kind = "draw" => i = j
                         /\ KeptApart /\ queue[j].who = playing
                              => queue[j].kind \notin TurnSteps \cup {"turn_start"}
  BY DEF OneTurnAtATime
<1>1. TurnSteps \subseteq Steps
  BY DEF TurnSteps, Steps, Beginning, Ending
<1>2. /\ queue[i].kind \in Steps => queue[i].who = playing
      /\ queue[i].kind \in Steps /\ queue[j].kind \in Steps => i = j
  BY DEF Turning, Single
<1>3. /\ queue[i].kind = "draw" => i = 1 /\ InTurn(queue[i].who)
      /\ queue[j].kind = "draw" => j = 1
  BY DEF Turning, DrawFirst
<1>4. KeptApart /\ queue[i].kind = "draw" => queue[j].kind \notin Steps \cup {"turn_start"}
  BY DEF Turning, Starts
<1> QED BY <1>1, <1>2, <1>3, <1>4

\* There is one turn at a time, at one of its steps, and only the player on turn
\* draws: whatever skipped turns, deaths and extra turns left queued.  In a game
\* without the jail or without Lady Rosa the draw is also the last of its turn.
THEOREM OneTurn == Spec => []OneTurnAtATime
<1>1. IInv /\ Unmoved /\ (KeptApart => Turning(TRUE)) /\ [Next]_vars
        => (KeptApart => Turning(TRUE))'
  <2> SUFFICES ASSUME IInv, Unmoved, KeptApart => Turning(TRUE), [Next]_vars, KeptApart'
               PROVE  Turning(TRUE)'
    OBVIOUS
  <2>1. KeptApart
    BY GameStays DEF KeptApart, Cards
  <2> QED BY <2>1, JailAndRosa, TurningNext
<1>2. Init => (KeptApart => Turning(TRUE))
  BY TurningInit
<1>3. Spec => [](KeptApart => Turning(TRUE))
  BY <1>1, <1>2, IInvAlways, UnmovedAlways, PTL DEF Spec
<1> QED BY <1>3, OneAtATime, TurningAlways, IInvAlways, PTL
=============================================================================
