-------------------------- MODULE GameManagerProofs --------------------------
(***************************************************************************)
(* What holds of sessions and lobbies for every number of sessions,        *)
(* lobbies, bots and ticks: a session's lobby and the lobbies' users say   *)
(* the same, a lobby with somebody in it has one owner, and in a game      *)
(* every connected user either controls a player or watches.               *)
(***************************************************************************)
EXTENDS GameManager, FiniteSetTheorems, WellFoundedInduction, TLAPS

(***************************************************************************)
(* Sets of natural numbers, and of sessions.                               *)
(***************************************************************************)

LEMMA Least ==
  ASSUME NEW T, T \subseteq Nat, T # {}
  PROVE  \E m \in T : \A k \in T : m <= k
<1>1. IsWellFoundedOn(OpToRel(<, Nat), Nat)
  BY NatLessThanWellFounded
<1>2. PICK m \in T : \A k \in T : ~ (<<k, m>> \in OpToRel(<, Nat))
  BY <1>1, WFMin
<1>3. \A k \in T : ~ (k < m)
  BY <1>2 DEF OpToRel
<1> QED BY <1>3

LEMMA Greatest ==
  ASSUME NEW T, T \subseteq Nat, T # {}, NEW b \in Nat, \A k \in T : k <= b
  PROVE  \E m \in T : \A k \in T : k <= m
<1> DEFINE D == {b - k : k \in T}
<1>1. D \subseteq Nat /\ D # {}
  <2>1. \A k \in T : b - k \in Nat
    OBVIOUS
  <2>2. PICK k \in T : TRUE
    OBVIOUS
  <2>3. b - k \in D
    OBVIOUS
  <2> QED BY <2>1, <2>3
<1>2. PICK d \in D : \A e \in D : d <= e
  BY <1>1, Least
<1>3. PICK m \in T : d = b - m
  BY <1>2
<1>4. \A k \in T : b - m <= b - k
  BY <1>2, <1>3
<1> QED BY <1>4

(***************************************************************************)
(* The inductive invariant.  MembershipAgrees, OneOwner and SeatsAgree are *)
(* not inductive alone: a step could make a lobby whose fields still have  *)
(* the values of another, or give a user id twice.                         *)
(***************************************************************************)

\* A lobby that does not exist has the fields of one not yet made.
Absent ==
  \A l \in Lobby \ lobbies :
    /\ users[l] = {} /\ disc[l] = {} /\ owner[l] = {} /\ spec[l] = {}
    /\ lstate[l] = "waiting"

\* The ids of the lobbies have a greatest one, so that the next is new.
Bounded == \E b \in Nat : \A l \in lobbies : l <= b

\* The owner is connected, and there is one when anybody is.
Owned ==
  \A l \in lobbies :
    /\ owner[l] \subseteq Connected(l)
    /\ Connected(l) # {} => \E s \in Session : owner[l] = {s}

\* User ids count the users of a lobby, in the order they came.
IdsDiffer ==
  \A l \in Lobby :
    /\ \A s \in users[l] : uid[l][s] \in 1 .. Cardinality(users[l])
    /\ \A s, t \in users[l] : uid[l][s] = uid[l][t] => s = t

\* A player's user id was given to a user: the next user has none.
SeatsKnown ==
  \A l \in Lobby : \A p \in DOMAIN seats[l] :
    seats[l][p] \in 1 .. Cardinality(users[l])

\* Players exist only while a game does.
NoGame == \A l \in Lobby : lstate[l] = "waiting" => DOMAIN seats[l] = {}

\* A user who controls a player is no spectator, connected or not, and a
\* connected user who controls none is one.
Placed ==
  \A l \in Lobby :
    /\ \A s \in users[l] : Seated(l, uid[l][s]) => s \notin spec[l]
    /\ lstate[l] # "waiting" =>
         \A s \in Connected(l) : s \in spec[l] \/ Seated(l, uid[l][s])

\* No two players belong to one user.
Alone == \A l \in Lobby : \A p, q \in DOMAIN seats[l] :
           p # q => seats[l][p] # seats[l][q]

IInv ==
  /\ TypeOK /\ Absent /\ Bounded /\ MembershipAgrees /\ Owned /\ IdsDiffer
  /\ SeatsKnown /\ NoGame /\ Placed /\ Alone

(***************************************************************************)
(* Users and their ids.                                                    *)
(***************************************************************************)

LEMMA FiniteSession ==
  \A S \in SUBSET Session : IsFiniteSet(S) /\ Cardinality(S) \in Nat
BY ConstantsAssumption, FS_Subset, FS_CardinalityType

\* The first of some users is one of them.
LEMMA FrontStays ==
  ASSUME TypeOK, NEW l \in Lobby, NEW S \in SUBSET Session, S # {}
  PROVE  Front(l, S) \in S
<1> DEFINE ids == {uid[l][s] : s \in S}
<1>1. ids \subseteq Nat
  BY DEF TypeOK
<1>2. PICK s \in S : TRUE
  OBVIOUS
<1>3. uid[l][s] \in ids
  OBVIOUS
<1>4. PICK i \in ids : \A j \in ids : i <= j
  BY <1>1, <1>3, Least
<1>5. PICK t \in S : i = uid[l][t]
  BY <1>4
<1>6. \A u \in S : uid[l][t] <= uid[l][u]
  BY <1>4, <1>5
<1> QED BY <1>6 DEF Front

\* A new user raises the count by one.
LEMMA OneMoreUser ==
  ASSUME TypeOK, NEW l \in Lobby, NEW s \in Session
  PROVE  /\ Cardinality(users[l]) \in Nat
         /\ Cardinality(users[l] \cup {s})
              = IF s \in users[l] THEN Cardinality(users[l])
                ELSE Cardinality(users[l]) + 1
BY FiniteSession, FS_AddElement DEF TypeOK

(***************************************************************************)
(* Init.                                                                   *)
(***************************************************************************)

LEMMA InitType == Init => TypeOK
<1> SUFFICES ASSUME Init PROVE TypeOK
  OBVIOUS
<1> USE DEF Init
<1>1. /\ live \subseteq Session
      /\ client \in [Session -> {"open", "closed", "stale", "reset"}]
      /\ lobbyOf \in [Session -> Lobby \cup {NoLobby}]
      /\ lobbies \subseteq Lobby
      /\ lstate \in [Lobby -> States]
      /\ crashed \in BOOLEAN
  BY DEF States
<1>2. /\ lifetime \in [Session -> 1 .. UserLifetime]
      /\ llife \in [Lobby -> 1 .. LobbyLifetime]
      /\ numBots \in [Lobby -> BotCounts]
  BY ConstantsAssumption
<1>3. /\ users \in [Lobby -> SUBSET Session]
      /\ uid \in [Lobby -> [Session -> Nat]]
      /\ disc \in [Lobby -> SUBSET Session]
      /\ owner \in [Lobby -> SUBSET Session]
      /\ spec \in [Lobby -> SUBSET Session]
  OBVIOUS
<1>4. /\ DOMAIN seats = Lobby
      /\ \A l \in Lobby : DOMAIN seats[l] = {} /\ seats[l] \in [DOMAIN seats[l] -> Nat]
  BY DEF NoSeats
<1> QED BY <1>1, <1>2, <1>3, <1>4 DEF TypeOK

LEMMA InitInv == Init => IInv
<1> SUFFICES ASSUME Init PROVE IInv
  OBVIOUS
<1>1. TypeOK
  BY InitType
<1>2. Absent /\ Bounded /\ Owned /\ NoGame /\ Alone
  BY DEF Init, Absent, Bounded, Owned, NoGame, Alone, NoSeats
<1>3. MembershipAgrees
  BY ConstantsAssumption DEF Init, MembershipAgrees
<1>4. IdsDiffer /\ SeatsKnown /\ Placed
  BY DEF Init, IdsDiffer, SeatsKnown, Placed, NoSeats, Connected, Seated
<1> QED BY <1>1, <1>2, <1>3, <1>4 DEF IInv

(***************************************************************************)
(* Steps that leave the lobbies alone.                                     *)
(***************************************************************************)

LEMMA Frame ==
  ASSUME IInv, TypeOK',
         UNCHANGED <<lobbyOf, lobbies, lstate, users, uid, disc, owner, spec,
                     seats>>
  PROVE  IInv'
<1>1. (Absent /\ Bounded /\ NoGame /\ Alone)'
  BY DEF IInv, Absent, Bounded, NoGame, Alone
<1>2. (MembershipAgrees /\ Owned)'
  BY DEF IInv, MembershipAgrees, Owned, Connected
<1>3. (IdsDiffer /\ SeatsKnown)'
  BY DEF IInv, IdsDiffer, SeatsKnown
<1>4. Placed'
  BY DEF IInv, Placed, Connected, Seated
<1> QED BY <1>1, <1>2, <1>3, <1>4 DEF IInv

(***************************************************************************)
(* handle_join_lobby.                                                      *)
(***************************************************************************)

LEMMA JoinType ==
  ASSUME TypeOK, NEW s \in Session, NEW l \in Lobby, HandleJoinLobby(s, l)
  PROVE  /\ lobbyOf' \in [Session -> Lobby \cup {NoLobby}]
         /\ users' \in [Lobby -> SUBSET Session]
         /\ uid' \in [Lobby -> [Session -> Nat]]
         /\ disc' \in [Lobby -> SUBSET Session]
         /\ owner' \in [Lobby -> SUBSET Session]
         /\ spec' \in [Lobby -> SUBSET Session]
<1>1. Cardinality(users[l]) + 1 \in Nat
  BY FiniteSession DEF TypeOK
<1>2. uid' \in [Lobby -> [Session -> Nat]]
  BY <1>1 DEF HandleJoinLobby, AddUser, UserIdCount, TypeOK
<1>3. /\ lobbyOf' \in [Session -> Lobby \cup {NoLobby}]
      /\ users' \in [Lobby -> SUBSET Session]
  BY DEF HandleJoinLobby, AddUser, TypeOK
<1>4. /\ disc' \in [Lobby -> SUBSET Session]
      /\ owner' \in [Lobby -> SUBSET Session]
      /\ spec' \in [Lobby -> SUBSET Session]
  BY DEF HandleJoinLobby, TypeOK
<1> QED BY <1>2, <1>3, <1>4

\* add_user keeps the ids of the others and gives a new user a new id.
LEMMA AddUserIds ==
  ASSUME TypeOK, IdsDiffer, NEW s \in Session, NEW l \in Lobby, AddUser(s, l)
  PROVE  /\ IdsDiffer'
         /\ \A k \in Lobby : k # l => users'[k] = users[k] /\ uid'[k] = uid[k]
         /\ users'[l] = users[l] \cup {s}
         /\ Cardinality(users[l]) <= Cardinality(users'[l])
         /\ \A t \in users[l] : uid'[l][t] = uid[l][t]
         /\ s \notin users[l] => uid'[l][s] = Cardinality(users[l]) + 1
<1>1. /\ \A k \in Lobby : k # l => users'[k] = users[k] /\ uid'[k] = uid[k]
      /\ users'[l] = users[l] \cup {s}
  BY DEF AddUser, TypeOK
<1>2. /\ \A t \in users[l] : uid'[l][t] = uid[l][t]
      /\ s \notin users[l] => uid'[l][s] = Cardinality(users[l]) + 1
  BY DEF AddUser, TypeOK, UserIdCount
<1>3. /\ Cardinality(users[l]) \in Nat
      /\ Cardinality(users'[l]) = IF s \in users[l] THEN Cardinality(users[l])
                                  ELSE Cardinality(users[l]) + 1
  BY <1>1, OneMoreUser
<1>4. /\ \A t \in users'[l] : uid'[l][t] \in 1 .. Cardinality(users'[l])
      /\ \A t, u \in users'[l] : uid'[l][t] = uid'[l][u] => t = u
  <2>1. CASE s \in users[l]
    <3>1. users'[l] = users[l]
      BY <2>1, <1>1
    <3> QED BY <2>1, <3>1, <1>2 DEF IdsDiffer
  <2>2. CASE s \notin users[l]
    <3>1. \A t \in users[l] : uid'[l][t] \in 1 .. Cardinality(users[l])
      BY <1>2 DEF IdsDiffer
    <3>2. \A t, u \in users[l] : uid'[l][t] = uid'[l][u] => t = u
      BY <1>2 DEF IdsDiffer
    <3> QED BY <2>2, <3>1, <3>2, <1>1, <1>2, <1>3
  <2> QED BY <2>1, <2>2
<1>5. ASSUME NEW k \in Lobby, k # l
      PROVE  /\ \A t \in users'[k] : uid'[k][t] \in 1 .. Cardinality(users'[k])
             /\ \A t, u \in users'[k] : uid'[k][t] = uid'[k][u] => t = u
  <2>1. users'[k] = users[k] /\ uid'[k] = uid[k]
    BY <1>1, <1>5
  <2> QED BY <2>1 DEF IdsDiffer
<1>6. IdsDiffer'
  BY <1>4, <1>5 DEF IdsDiffer
<1> QED BY <1>1, <1>2, <1>3, <1>6

LEMMA JoinInv ==
  ASSUME IInv, TypeOK', NEW s \in Session, NEW l \in lobbies,
         lobbyOf[s] \in {l, NoLobby}, HandleJoinLobby(s, l),
         UNCHANGED <<lobbies, lstate, seats>>
  PROVE  IInv'
<1> l \in Lobby
  BY DEF IInv, TypeOK
<1> TypeOK /\ IdsDiffer
  BY DEF IInv
<1>1. AddUser(s, l)
  BY DEF HandleJoinLobby
<1>2. /\ IdsDiffer'
      /\ \A k \in Lobby : k # l => users'[k] = users[k] /\ uid'[k] = uid[k]
      /\ users'[l] = users[l] \cup {s}
      /\ Cardinality(users[l]) <= Cardinality(users'[l])
      /\ \A t \in users[l] : uid'[l][t] = uid[l][t]
      /\ s \notin users[l] => uid'[l][s] = Cardinality(users[l]) + 1
  BY <1>1, AddUserIds
<1>3. /\ \A k \in Lobby : k # l => /\ disc'[k] = disc[k]
                                   /\ owner'[k] = owner[k]
                                   /\ spec'[k] = spec[k]
      /\ disc'[l] = disc[l] \ {s}
      /\ spec'[l] = IF lstate[l] # "waiting" /\ ~Seated(l, uid'[l][s])
                    THEN spec[l] \cup {s} ELSE spec[l]
      /\ owner'[l] = IF owner[l] \cap (Connected(l) \cup {s}) = {}
                     THEN owner[l] \cup {s} ELSE owner[l]
      /\ lobbyOf' = [lobbyOf EXCEPT ![s] = l]
  BY DEF HandleJoinLobby, AddUser, TypeOK
<1>4. /\ Connected(l)' = Connected(l) \cup {s}
      /\ \A k \in Lobby : k # l => Connected(k)' = Connected(k)
  BY <1>2, <1>3 DEF Connected
<1>5. (Absent /\ Bounded /\ NoGame /\ Alone)'
  BY <1>2, <1>3 DEF IInv, Absent, Bounded, NoGame, Alone
<1>6. MembershipAgrees'
  <2> SUFFICES ASSUME NEW t \in Session, NEW k \in Lobby
               PROVE  lobbyOf'[t] = k <=> k \in lobbies /\ t \in Connected(k)'
    BY DEF MembershipAgrees
  <2>1. lobbyOf[t] = k <=> k \in lobbies /\ t \in Connected(k)
    BY DEF IInv, MembershipAgrees
  <2>2. CASE t = s
    <3>1. lobbyOf'[t] = l
      BY <2>2, <1>3 DEF TypeOK
    <3>2. k # l => lobbyOf[s] # k
      BY ConstantsAssumption
    <3> QED BY <2>1, <2>2, <3>1, <3>2, <1>4
  <2>3. CASE t # s
    <3>1. lobbyOf'[t] = lobbyOf[t]
      BY <2>3, <1>3 DEF TypeOK
    <3> QED BY <2>1, <2>3, <3>1, <1>4
  <2> QED BY <2>2, <2>3
<1>7. Owned'
  <2> SUFFICES ASSUME NEW k \in lobbies
               PROVE  /\ owner'[k] \subseteq Connected(k)'
                      /\ Connected(k)' # {} => \E t \in Session : owner'[k] = {t}
    BY DEF Owned
  <2> k \in Lobby
    BY DEF TypeOK
  <2>1. /\ owner[k] \subseteq Connected(k)
        /\ Connected(k) # {} => \E t \in Session : owner[k] = {t}
    BY DEF IInv, Owned
  <2>2. CASE k # l
    BY <2>1, <2>2, <1>3, <1>4
  <2>3. CASE k = l /\ Connected(l) = {}
    <3>1. owner[l] = {}
      BY <2>1, <2>3
    <3>2. owner'[l] = {s}
      BY <3>1, <1>3
    <3> QED BY <2>3, <3>2, <1>4
  <2>4. CASE k = l /\ Connected(l) # {}
    <3>1. owner'[l] = owner[l]
      BY <2>1, <2>4, <1>3
    <3> QED BY <2>1, <2>4, <3>1, <1>4
  <2> QED BY <2>2, <2>3, <2>4
<1>8. SeatsKnown'
  <2> SUFFICES ASSUME NEW k \in Lobby, NEW p \in DOMAIN seats[k]
               PROVE  seats[k][p] \in 1 .. Cardinality(users'[k])
    BY DEF SeatsKnown
  <2>1. seats[k][p] \in 1 .. Cardinality(users[k])
    BY DEF IInv, SeatsKnown
  <2>2. Cardinality(users[k]) \in Nat /\ Cardinality(users'[k]) \in Nat
    BY FiniteSession DEF TypeOK
  <2>3. Cardinality(users[k]) <= Cardinality(users'[k])
    <3>1. CASE k = l
      BY <3>1, <1>2
    <3>2. CASE k # l
      <4>1. users'[k] = users[k]
        BY <3>2, <1>2
      <4> QED BY <4>1, <2>2
    <3> QED BY <3>1, <3>2
  <2> QED BY <2>1, <2>2, <2>3
<1>9. Placed'
  <2> SUFFICES ASSUME NEW k \in Lobby
               PROVE  /\ \A t \in users'[k] : Seated(k, uid'[k][t]) => t \notin spec'[k]
                      /\ lstate[k] # "waiting" =>
                           \A t \in Connected(k)' : t \in spec'[k] \/ Seated(k, uid'[k][t])
    BY DEF Placed, Seated
  <2>1. /\ \A t \in users[k] : Seated(k, uid[k][t]) => t \notin spec[k]
        /\ lstate[k] # "waiting" =>
             \A t \in Connected(k) : t \in spec[k] \/ Seated(k, uid[k][t])
    BY DEF IInv, Placed
  <2>2. CASE k # l
    BY <2>1, <2>2, <1>2, <1>3, <1>4
  <2>3. CASE k = l
    <3>1. Connected(l) \subseteq users[l]
      BY DEF Connected
    <3>2. s \notin users[l] => ~Seated(l, uid'[l][s])
      <4>1. Cardinality(users[l]) \in Nat
        BY FiniteSession DEF TypeOK
      <4>2. \A p \in DOMAIN seats[l] : seats[l][p] # Cardinality(users[l]) + 1
        BY <4>1 DEF IInv, SeatsKnown
      <4> QED BY <4>2, <1>2 DEF Seated
    <3>3. \A t \in users'[l] : Seated(l, uid'[l][t]) => t \notin spec'[l]
      <4> SUFFICES ASSUME NEW t \in users'[l], Seated(l, uid'[l][t])
                   PROVE  t \notin spec'[l]
        OBVIOUS
      <4>1. t \in users[l]
        BY <3>2, <1>2
      <4>2. t \notin spec[l]
        BY <4>1, <2>1, <2>3, <1>2
      <4> QED BY <4>2, <1>3
    <3>4. lstate[l] # "waiting" =>
            \A t \in Connected(l)' : t \in spec'[l] \/ Seated(l, uid'[l][t])
      BY <2>1, <2>3, <3>1, <1>2, <1>3, <1>4
    <3> QED BY <2>3, <3>3, <3>4
  <2> QED BY <2>2, <2>3
<1> QED BY <1>2, <1>5, <1>6, <1>7, <1>8, <1>9 DEF IInv

(***************************************************************************)
(* kick_user_from_lobby for the sessions of a set: what a step that makes  *)
(* them leave assigns to the lobbies' users, owners and sessions.          *)
(***************************************************************************)

LEMMA Leave ==
  ASSUME IInv, NEW S \in SUBSET Session
  PROVE  /\ \A l \in Lobby : /\ DiscAfter(l, S) \in SUBSET Session
                            /\ OwnerAfter(l, S) \in SUBSET Session
                            /\ users[l] \ DiscAfter(l, S) = Connected(l) \ S
         /\ LobbyOfAfter(S) \in [Session -> Lobby \cup {NoLobby}]
         /\ \A t \in Session, l \in Lobby :
              LobbyOfAfter(S)[t] = l <=> l \in lobbies /\ t \in Connected(l) \ S
         /\ \A l \in Lobby \ lobbies : DiscAfter(l, S) = {} /\ OwnerAfter(l, S) = {}
         /\ \A l \in lobbies :
              /\ OwnerAfter(l, S) \subseteq Connected(l) \ S
              /\ Connected(l) \ S # {} =>
                   \E t \in Session : OwnerAfter(l, S) = {t}
<1> TypeOK
  BY DEF IInv
<1>1. ASSUME NEW l \in Lobby
      PROVE  /\ DiscAfter(l, S) \in SUBSET Session
             /\ l \in lobbies => Leaving(l, S) = Connected(l) \cap S
             /\ l \notin lobbies => Leaving(l, S) = {}
             /\ users[l] \ DiscAfter(l, S) = Connected(l) \ S
  <2>1. DiscAfter(l, S) \in SUBSET Session
    BY DEF TypeOK, DiscAfter, Leaving
  <2>2. CASE l \in lobbies
    <3>1. Leaving(l, S) = Connected(l) \cap S
      BY <2>2 DEF IInv, MembershipAgrees, Leaving, Connected, TypeOK
    <3> QED BY <2>1, <2>2, <3>1 DEF DiscAfter, Connected
  <2>3. CASE l \notin lobbies
    <3>1. Leaving(l, S) = {} /\ users[l] = {}
      BY <2>3 DEF IInv, MembershipAgrees, Absent, Leaving
    <3> QED BY <2>1, <2>3, <3>1 DEF Connected
  <2> QED BY <2>2, <2>3
<1>2. /\ LobbyOfAfter(S) \in [Session -> Lobby \cup {NoLobby}]
      /\ \A t \in Session, l \in Lobby :
           LobbyOfAfter(S)[t] = l <=> l \in lobbies /\ t \in Connected(l) \ S
  <2>1. \A t \in Session, l \in Lobby :
          lobbyOf[t] = l <=> l \in lobbies /\ t \in Connected(l)
    BY DEF IInv, MembershipAgrees
  <2>2. \A t \in Session :
          LobbyOfAfter(S)[t] = IF t \in S THEN NoLobby ELSE lobbyOf[t]
    BY DEF LobbyOfAfter
  <2>3. LobbyOfAfter(S) \in [Session -> Lobby \cup {NoLobby}]
    BY DEF LobbyOfAfter, TypeOK
  <2> QED BY <2>1, <2>2, <2>3, ConstantsAssumption
<1>3. ASSUME NEW l \in Lobby \ lobbies
      PROVE  DiscAfter(l, S) = {} /\ OwnerAfter(l, S) = {}
  BY <1>1 DEF IInv, Absent, DiscAfter, OwnerAfter
<1>4. ASSUME NEW l \in lobbies
      PROVE  /\ OwnerAfter(l, S) \subseteq Connected(l) \ S
             /\ Connected(l) \ S # {} =>
                  \E t \in Session : OwnerAfter(l, S) = {t}
  <2> DEFINE left == Connected(l) \ S
  <2>1. l \in Lobby
    BY DEF TypeOK
  <2>2. /\ owner[l] \subseteq Connected(l)
        /\ Connected(l) # {} => \E t \in Session : owner[l] = {t}
    BY DEF IInv, Owned
  <2>3. left \in SUBSET Session
    BY <2>1 DEF TypeOK, Connected
  <2>4. OwnerAfter(l, S) =
          IF owner[l] \cap Leaving(l, S) # {} /\ left # {}
          THEN (owner[l] \ Leaving(l, S)) \cup {Front(l, left)}
          ELSE owner[l] \ Leaving(l, S)
    BY <1>1, <2>1 DEF OwnerAfter
  <2>5. owner[l] \ Leaving(l, S) \subseteq left
    BY <1>1, <2>1, <2>2
  <2>6. left # {} => Front(l, left) \in left
    BY <2>1, <2>3, FrontStays
  <2>7. OwnerAfter(l, S) \subseteq left
    BY <2>4, <2>5, <2>6
  <2>8. ASSUME left # {} PROVE \E t \in Session : OwnerAfter(l, S) = {t}
    <3>1. PICK o \in Session : owner[l] = {o}
      BY <2>2, <2>8
    <3>2. CASE o \in Leaving(l, S)
      BY <2>3, <2>4, <2>6, <2>8, <3>1, <3>2
    <3>3. CASE o \notin Leaving(l, S)
      BY <2>4, <3>1, <3>3
    <3> QED BY <3>2, <3>3
  <2> QED BY <2>7, <2>8
<1>5. \A l \in Lobby : OwnerAfter(l, S) \in SUBSET Session
  BY <1>3, <1>4 DEF TypeOK, Connected
<1> QED BY <1>1, <1>2, <1>3, <1>4, <1>5

LEMMA KickInv ==
  ASSUME IInv, NEW s \in Session, KickUserFromLobby(s)
  PROVE  IInv'
<1> DEFINE S == {s}
<1> S \in SUBSET Session
  OBVIOUS
<1> USE DEF KickUserFromLobby
<1>1. TypeOK'
  BY Leave DEF IInv, TypeOK
<1>2. \A l \in Lobby : Connected(l)' = Connected(l) \ S
  BY Leave DEF Connected
<1>3. (Absent /\ Bounded /\ NoGame /\ Alone)'
  <2>1. \A l \in Lobby \ lobbies : disc'[l] = {} /\ owner'[l] = {}
    BY Leave
  <2>2. Absent'
    BY <2>1 DEF IInv, Absent
  <2> QED BY <2>2 DEF IInv, Bounded, NoGame, Alone
<1>4. MembershipAgrees'
  BY <1>2, Leave DEF MembershipAgrees
<1>5. Owned'
  <2>1. \A l \in lobbies :
          /\ owner'[l] \subseteq Connected(l) \ S
          /\ Connected(l) \ S # {} => \E t \in Session : owner'[l] = {t}
    <3> SUFFICES ASSUME NEW l \in lobbies
                 PROVE  /\ owner'[l] \subseteq Connected(l) \ S
                        /\ Connected(l) \ S # {} => \E t \in Session : owner'[l] = {t}
      OBVIOUS
    <3>1. owner'[l] = OwnerAfter(l, S)
      BY DEF IInv, TypeOK
    <3>2. /\ OwnerAfter(l, S) \subseteq Connected(l) \ S
          /\ Connected(l) \ S # {} => \E t \in Session : OwnerAfter(l, S) = {t}
      BY Leave
    <3> QED BY <3>1, <3>2
  <2>2. \A l \in lobbies : Connected(l)' = Connected(l) \ S
    BY <1>2 DEF IInv, TypeOK
  <2> QED BY <2>1, <2>2 DEF Owned
<1>6. (IdsDiffer /\ SeatsKnown)'
  BY DEF IInv, IdsDiffer, SeatsKnown
<1>7. Placed'
  BY <1>2 DEF IInv, Placed, Seated
<1> QED BY <1>1, <1>3, <1>4, <1>5, <1>6, <1>7 DEF IInv

(***************************************************************************)
(* The other steps.                                                        *)
(***************************************************************************)

LEMMA ConnectionInv ==
  ASSUME IInv, NEW s \in Session,
         NewSession(s) \/ CloseSocket(s) \/ InvalidateConnection(s)
  PROVE  IInv'
<1>1. UNCHANGED <<lifetime, lobbyOf, lobbyVars, crashed>>
  BY DEF NewSession, CloseSocket, InvalidateConnection
<1>2. live' \subseteq Session /\ client' \in [Session -> {"open", "closed", "stale", "reset"}]
  BY DEF IInv, TypeOK, NewSession, CloseSocket, InvalidateConnection
<1>3. TypeOK'
  BY <1>1, <1>2 DEF IInv, TypeOK, lobbyVars
<1> QED BY <1>1, <1>3, Frame DEF lobbyVars

LEMMA ReconnectInv ==
  ASSUME IInv, NEW s \in Session, Reconnect(s)
  PROVE  IInv'
<1> TypeOK
  BY DEF IInv
<1>1. client' \in [Session -> {"open", "closed", "stale", "reset"}]
  BY DEF TypeOK, Reconnect
<1>2. CASE lobbyOf[s] = NoLobby
  <2>1. UNCHANGED <<lobbyOf, users, uid, disc, owner, spec>>
    BY <1>2 DEF Reconnect
  <2>2. TypeOK'
    BY <1>1, <2>1 DEF Reconnect, TypeOK
  <2> QED BY <2>1, <2>2, Frame DEF Reconnect
<1>3. CASE lobbyOf[s] # NoLobby
  <2>1. lobbyOf[s] \in lobbies
    BY <1>3 DEF IInv, TypeOK, MembershipAgrees
  <2>2. lobbyOf[s] \in Lobby /\ HandleJoinLobby(s, lobbyOf[s])
    BY <1>3, <2>1 DEF Reconnect, TypeOK
  <2>3. TypeOK'
    BY <1>1, <2>2, JoinType DEF Reconnect, TypeOK
  <2> QED BY <2>1, <2>2, <2>3, JoinInv DEF Reconnect
<1> QED BY <1>2, <1>3

LEMMA LobbyJoinInv ==
  ASSUME IInv, NEW s \in Session, NEW l \in Lobby, LobbyJoin(s, l)
  PROVE  IInv'
<1>1. l \in lobbies /\ lobbyOf[s] = NoLobby /\ HandleJoinLobby(s, l)
  BY DEF LobbyJoin
<1>2. TypeOK'
  BY <1>1, JoinType DEF LobbyJoin, IInv, TypeOK
<1> QED BY <1>1, <1>2, JoinInv DEF LobbyJoin

\* The id of the next lobby is not the one of a lobby there is.
LEMMA NextIsNew ==
  ASSUME TypeOK, Bounded
  PROVE  NextLobbyId \notin lobbies /\ NextLobbyId \in Nat
<1>1. CASE lobbies = {}
  BY <1>1 DEF NextLobbyId
<1>2. CASE lobbies # {}
  <2>1. lobbies \subseteq Nat
    BY ConstantsAssumption DEF TypeOK
  <2>2. PICK b \in Nat : \A l \in lobbies : l <= b
    BY DEF Bounded
  <2>3. \E m \in lobbies : \A k \in lobbies : k <= m
    BY <1>2, <2>1, <2>2, Greatest
  <2> DEFINE last == CHOOSE l \in lobbies : \A k \in lobbies : k <= l
  <2>4. last \in lobbies /\ \A k \in lobbies : k <= last
    BY <2>3
  <2>5. NextLobbyId = 1 + last
    BY <1>2 DEF NextLobbyId
  <2> HIDE DEF last
  <2>6. last \in Nat
    BY <2>1, <2>4
  <2> QED BY <2>4, <2>5, <2>6
<1> QED BY <1>1, <1>2

LEMMA LobbyMakeInv ==
  ASSUME IInv, NEW s \in Session, NEW bots \in BotCounts, LobbyMake(s, bots)
  PROVE  IInv'
<1> TypeOK /\ IdsDiffer
  BY DEF IInv
<1>0. PICK n \in Lobby : n = NextLobbyId
  BY DEF LobbyMake
<1>1. n \in Lobby /\ n \notin lobbies /\ n \in Nat
  BY <1>0, NextIsNew DEF IInv
<1>2. /\ lobbyOf[s] = NoLobby
      /\ lobbies' = lobbies \cup {n}
      /\ AddUser(s, n)
      /\ owner' = [owner EXCEPT ![n] = {s}]
      /\ lstate' = [lstate EXCEPT ![n] = "waiting"]
      /\ numBots' = [numBots EXCEPT ![n] = bots]
      /\ UNCHANGED <<live, client, lifetime, disc, spec, seats, llife, crashed>>
  BY <1>0 DEF LobbyMake
<1>3. /\ users[n] = {} /\ disc[n] = {} /\ owner[n] = {} /\ spec[n] = {}
      /\ lstate[n] = "waiting" /\ DOMAIN seats[n] = {}
  BY <1>1 DEF IInv, Absent, NoGame
<1>4. /\ IdsDiffer'
      /\ \A k \in Lobby : k # n => users'[k] = users[k] /\ uid'[k] = uid[k]
      /\ users'[n] = {s}
  BY <1>1, <1>2, <1>3, AddUserIds
<1>5. TypeOK'
  <2>1. Cardinality(users[n]) + 1 \in Nat
    BY <1>1, FiniteSession DEF TypeOK
  <2>2. uid' \in [Lobby -> [Session -> Nat]]
    BY <1>1, <1>2, <2>1 DEF AddUser, UserIdCount, TypeOK
  <2>3. /\ users' \in [Lobby -> SUBSET Session]
        /\ lobbyOf' \in [Session -> Lobby \cup {NoLobby}]
    BY <1>1, <1>2 DEF AddUser, TypeOK
  <2>4. /\ lobbies' \subseteq Lobby
        /\ owner' \in [Lobby -> SUBSET Session]
        /\ numBots' \in [Lobby -> BotCounts]
        /\ lstate' \in [Lobby -> States]
    BY <1>1, <1>2 DEF TypeOK, States
  <2> QED BY <1>2, <2>2, <2>3, <2>4 DEF TypeOK
<1>6. /\ Connected(n)' = {s}
      /\ \A k \in Lobby : k # n => /\ Connected(k)' = Connected(k)
                                  /\ owner'[k] = owner[k]
                                  /\ lstate'[k] = lstate[k]
      /\ owner'[n] = {s} /\ lstate'[n] = "waiting"
  <2>1. Connected(n)' = {s}
    BY <1>2, <1>3, <1>4 DEF Connected
  <2>2. \A k \in Lobby : k # n => Connected(k)' = Connected(k)
    BY <1>2, <1>4 DEF Connected
  <2>3. \A k \in Lobby : k # n => owner'[k] = owner[k] /\ lstate'[k] = lstate[k]
    BY <1>2 DEF TypeOK
  <2>4. owner'[n] = {s} /\ lstate'[n] = "waiting"
    BY <1>1, <1>2 DEF TypeOK
  <2> QED BY <2>1, <2>2, <2>3, <2>4
<1>7. (Absent /\ NoGame /\ Alone)'
  BY <1>2, <1>3, <1>4, <1>6 DEF IInv, Absent, NoGame, Alone
<1>8. Bounded'
  <2>1. PICK b \in Nat : \A l \in lobbies : l <= b
    BY DEF IInv, Bounded
  <2>2. lobbies \subseteq Nat
    BY ConstantsAssumption DEF TypeOK
  <2>3. b + n \in Nat /\ \A l \in lobbies' : l <= b + n
    BY <1>1, <1>2, <2>1, <2>2
  <2> QED BY <2>3 DEF Bounded
<1>9. MembershipAgrees'
  <2> SUFFICES ASSUME NEW t \in Session, NEW k \in Lobby
               PROVE  lobbyOf'[t] = k <=> k \in lobbies' /\ t \in Connected(k)'
    BY DEF MembershipAgrees
  <2>1. lobbyOf[t] = k <=> k \in lobbies /\ t \in Connected(k)
    BY DEF IInv, MembershipAgrees
  <2>2. lobbyOf' = [lobbyOf EXCEPT ![s] = n]
    BY <1>2 DEF AddUser
  <2>3. CASE t = s
    <3>1. lobbyOf'[t] = n
      BY <2>2, <2>3 DEF TypeOK
    <3>2. lobbyOf[s] # k
      BY <1>2, ConstantsAssumption
    <3>3. CASE k = n
      BY <2>3, <3>1, <3>3, <1>2, <1>6
    <3>4. CASE k # n
      <4>1. k \in lobbies' <=> k \in lobbies
        BY <3>4, <1>2
      <4>2. Connected(k)' = Connected(k)
        BY <3>4, <1>6
      <4> QED BY <2>1, <2>3, <3>1, <3>2, <3>4, <4>1, <4>2
    <3> QED BY <3>3, <3>4
  <2>4. CASE t # s
    <3>1. lobbyOf'[t] = lobbyOf[t]
      BY <2>2, <2>4 DEF TypeOK
    <3>2. CASE k = n
      BY <2>1, <2>4, <3>1, <3>2, <1>1, <1>6
    <3>3. CASE k # n
      <4>1. k \in lobbies' <=> k \in lobbies
        BY <3>3, <1>2
      <4>2. Connected(k)' = Connected(k)
        BY <3>3, <1>6
      <4> QED BY <2>1, <3>1, <4>1, <4>2
    <3> QED BY <3>2, <3>3
  <2> QED BY <2>3, <2>4
<1>10. Owned'
  <2> SUFFICES ASSUME NEW k \in lobbies'
               PROVE  /\ owner'[k] \subseteq Connected(k)'
                      /\ Connected(k)' # {} => \E t \in Session : owner'[k] = {t}
    BY DEF Owned
  <2>1. CASE k = n
    BY <2>1, <1>6
  <2>2. CASE k # n
    <3>1. k \in lobbies /\ k \in Lobby
      BY <2>2, <1>2 DEF TypeOK
    <3>2. Connected(k)' = Connected(k) /\ owner'[k] = owner[k]
      BY <2>2, <3>1, <1>6
    <3> QED BY <3>1, <3>2 DEF IInv, Owned
  <2> QED BY <2>1, <2>2
<1>11. SeatsKnown'
  <2> SUFFICES ASSUME NEW k \in Lobby, NEW p \in DOMAIN seats[k]
               PROVE  seats[k][p] \in 1 .. Cardinality(users'[k])
    BY <1>2 DEF SeatsKnown
  <2>1. k # n
    BY <1>3
  <2> QED BY <2>1, <1>4 DEF IInv, SeatsKnown
<1>12. Placed'
  <2> SUFFICES ASSUME NEW k \in Lobby
               PROVE  /\ \A t \in users'[k] : Seated(k, uid'[k][t]) => t \notin spec[k]
                      /\ lstate'[k] # "waiting" =>
                           \A t \in Connected(k)' : t \in spec[k] \/ Seated(k, uid'[k][t])
    BY <1>2 DEF Placed, Seated
  <2>1. CASE k = n
    BY <2>1, <1>3, <1>6
  <2>2. CASE k # n
    BY <2>2, <1>4, <1>6 DEF IInv, Placed
  <2> QED BY <2>1, <2>2
<1> QED BY <1>4, <1>5, <1>7, <1>8, <1>9, <1>10, <1>11, <1>12 DEF IInv

LEMMA OptionsInv ==
  ASSUME IInv, NEW s \in Session, NEW l \in Lobby, NEW bots \in BotCounts,
         LobbyGameOptions(s, l, bots)
  PROVE  IInv'
<1>1. TypeOK'
  BY DEF IInv, TypeOK, LobbyGameOptions, sessionVars
<1> QED BY <1>1, Frame DEF LobbyGameOptions, sessionVars

LEMMA AppointInv ==
  ASSUME IInv, NEW s \in Session, NEW l \in Lobby, NEW t \in Session,
         CommandAppointUser(s, l, t)
  PROVE  IInv'
<1> USE DEF CommandAppointUser, sessionVars
<1>1. TypeOK'
  BY DEF IInv, TypeOK
<1>2. /\ s \in owner[l] /\ t \in Connected(l) /\ lobbyOf[s] = l
      /\ \A k \in Lobby : owner'[k] = IF k = l /\ t \notin owner[l]
                                     THEN (owner[l] \cup {t}) \ {s} ELSE owner[k]
  BY DEF OwnerSends, IInv, TypeOK
<1>3. l \in lobbies
  BY <1>2 DEF IInv, MembershipAgrees
<1>4. (Absent /\ Bounded /\ NoGame /\ Alone /\ IdsDiffer /\ SeatsKnown)'
  BY <1>2, <1>3 DEF IInv, Absent, Bounded, NoGame, Alone, IdsDiffer, SeatsKnown
<1>5. (MembershipAgrees /\ Placed)'
  BY DEF IInv, MembershipAgrees, Placed, Connected, Seated
<1>6. Owned'
  <2> SUFFICES ASSUME NEW k \in lobbies
               PROVE  /\ owner'[k] \subseteq Connected(k)
                      /\ Connected(k) # {} => \E o \in Session : owner'[k] = {o}
    BY DEF Owned, Connected
  <2>1. k \in Lobby
    BY DEF IInv, TypeOK
  <2>2. /\ owner[k] \subseteq Connected(k)
        /\ Connected(k) # {} => \E o \in Session : owner[k] = {o}
    BY DEF IInv, Owned
  <2>3. CASE k = l /\ t \notin owner[l]
    <3>1. owner[l] = {s} /\ s # t
      BY <1>2, <2>2, <2>3
    <3>2. owner'[l] = {t}
      BY <1>2, <2>1, <2>3, <3>1
    <3> QED BY <1>2, <2>3, <3>2
  <2>4. CASE ~(k = l /\ t \notin owner[l])
    BY <1>2, <2>1, <2>2, <2>4
  <2> QED BY <2>3, <2>4
<1> QED BY <1>1, <1>4, <1>5, <1>6 DEF IInv

LEMMA SpectateInv ==
  ASSUME IInv, NEW s \in Session, NEW l \in Lobby, NEW on \in BOOLEAN,
         UserSpectate(s, l, on)
  PROVE  IInv'
<1> USE DEF UserSpectate, sessionVars
<1>1. TypeOK'
  BY DEF IInv, TypeOK
<1>2. /\ lobbyOf[s] = l /\ lstate[l] = "waiting"
      /\ \A k \in Lobby : k # l => spec'[k] = spec[k]
  BY DEF IInv, TypeOK
<1>3. l \in lobbies
  BY <1>2 DEF IInv, MembershipAgrees
<1>4. (Absent /\ Bounded /\ NoGame /\ Alone /\ IdsDiffer /\ SeatsKnown)'
  BY <1>2, <1>3 DEF IInv, Absent, Bounded, NoGame, Alone, IdsDiffer, SeatsKnown
<1>5. (MembershipAgrees /\ Owned)'
  BY DEF IInv, MembershipAgrees, Owned, Connected
<1>6. Placed'
  BY <1>2 DEF IInv, Placed, NoGame, Connected, Seated
<1> QED BY <1>1, <1>4, <1>5, <1>6 DEF IInv

LEMMA GameStartInv ==
  ASSUME IInv, NEW s \in Session, NEW l \in Lobby, GameStart(s, l)
  PROVE  IInv'
<1> USE DEF GameStart, sessionVars
<1> DEFINE players == Connected(l) \ spec[l]
<1>1. /\ lobbyOf[s] = l /\ lstate[l] = "waiting"
      /\ seats' = [seats EXCEPT ![l] = [p \in players |-> uid[l][p]]]
      /\ lstate' = [lstate EXCEPT ![l] = "playing"]
  BY DEF OwnerSends
<1>2. players \subseteq users[l] /\ players \subseteq Session
  BY DEF IInv, TypeOK, Connected
<1> HIDE DEF players
<1>3. /\ \A k \in Lobby : k # l => lstate'[k] = lstate[k] /\ seats'[k] = seats[k]
      /\ lstate'[l] = "playing"
      /\ DOMAIN seats'[l] = players
      /\ \A p \in players : seats'[l][p] = uid[l][p]
      /\ DOMAIN seats' = Lobby
  BY <1>1 DEF IInv, TypeOK
<1>4. l \in lobbies
  BY <1>1 DEF IInv, MembershipAgrees
<1>5. TypeOK'
  <2>1. lstate' \in [Lobby -> States]
    BY <1>1 DEF IInv, TypeOK, States
  <2>2. \A k \in Lobby : /\ DOMAIN seats'[k] \subseteq Session
                        /\ seats'[k] \in [DOMAIN seats'[k] -> Nat]
    <3> SUFFICES ASSUME NEW k \in Lobby
                 PROVE  /\ DOMAIN seats'[k] \subseteq Session
                        /\ seats'[k] \in [DOMAIN seats'[k] -> Nat]
      OBVIOUS
    <3>1. CASE k = l
      <4>1. seats'[l] = [p \in players |-> uid[l][p]]
        BY <1>1 DEF IInv, TypeOK
      <4>2. \A p \in players : uid[l][p] \in Nat
        BY <1>2 DEF IInv, TypeOK
      <4> QED BY <3>1, <4>1, <4>2, <1>2, <1>3
    <3>2. CASE k # l
      BY <3>2, <1>3 DEF IInv, TypeOK
    <3> QED BY <3>1, <3>2
  <2> QED BY <2>1, <2>2, <1>3 DEF IInv, TypeOK
<1>6. (Absent /\ Bounded /\ NoGame /\ IdsDiffer)'
  BY <1>3, <1>4 DEF IInv, Absent, Bounded, NoGame, IdsDiffer
<1>7. (MembershipAgrees /\ Owned)'
  BY DEF IInv, MembershipAgrees, Owned, Connected
<1>8. SeatsKnown'
  BY <1>2, <1>3 DEF IInv, SeatsKnown, IdsDiffer
<1>9. Alone'
  BY <1>2, <1>3 DEF IInv, Alone, IdsDiffer
<1>10. Placed'
  <2> SUFFICES ASSUME NEW k \in Lobby
               PROVE  /\ \A t \in users[k] : Seated(k, uid[k][t])' => t \notin spec[k]
                      /\ lstate'[k] # "waiting" =>
                           \A t \in Connected(k) : t \in spec[k] \/ Seated(k, uid[k][t])'
    BY DEF Placed, Connected, Seated
  <2>1. CASE k # l
    BY <2>1, <1>3 DEF IInv, Placed, Seated
  <2>2. CASE k = l
    <3>1. \A t \in users[l] : Seated(l, uid[l][t])' <=> t \in players
      BY <1>2, <1>3 DEF Seated, IInv, IdsDiffer
    <3>2. Connected(l) \subseteq users[l]
      BY DEF Connected
    <3> QED BY <2>2, <3>1, <3>2 DEF players
  <2> QED BY <2>1, <2>2
<1> QED BY <1>5, <1>6, <1>7, <1>8, <1>9, <1>10 DEF IInv

LEMMA LobbyReturnInv ==
  ASSUME IInv, NEW s \in Session, NEW l \in Lobby, LobbyReturn(s, l)
  PROVE  IInv'
<1> USE DEF LobbyReturn, sessionVars
<1>1. /\ lobbyOf[s] = l
      /\ \A k \in Lobby : k # l => /\ lstate'[k] = lstate[k]
                                  /\ seats'[k] = seats[k]
                                  /\ spec'[k] = spec[k]
      /\ lstate'[l] = "waiting" /\ seats'[l] = NoSeats
      /\ DOMAIN seats'[l] = {}
  BY DEF OwnerSends, IInv, TypeOK, NoSeats
<1>2. l \in lobbies
  BY <1>1 DEF IInv, MembershipAgrees
<1>3. TypeOK'
  <2>1. lstate' \in [Lobby -> States] /\ spec' \in [Lobby -> SUBSET Session]
    BY DEF IInv, TypeOK, States
  <2>2. NoSeats \in [DOMAIN NoSeats -> Nat] /\ DOMAIN NoSeats = {}
    BY DEF NoSeats
  <2>3. \A k \in Lobby : /\ DOMAIN seats'[k] \subseteq Session
                        /\ seats'[k] \in [DOMAIN seats'[k] -> Nat]
    BY <2>2, <1>1 DEF IInv, TypeOK
  <2>4. DOMAIN seats' = Lobby
    BY DEF IInv, TypeOK
  <2> QED BY <2>1, <2>3, <2>4 DEF IInv, TypeOK
<1>4. (Absent /\ Bounded /\ NoGame /\ Alone /\ IdsDiffer /\ SeatsKnown)'
  BY <1>1, <1>2 DEF IInv, Absent, Bounded, NoGame, Alone, IdsDiffer, SeatsKnown
<1>5. (MembershipAgrees /\ Owned)'
  BY DEF IInv, MembershipAgrees, Owned, Connected
<1>6. Placed'
  BY <1>1 DEF IInv, Placed, Connected, Seated
<1> QED BY <1>3, <1>4, <1>5, <1>6 DEF IInv

LEMMA GameRejoinInv ==
  ASSUME IInv, NEW s \in Session, NEW l \in Lobby, NEW p \in Session,
         GameRejoin(s, l, p)
  PROVE  IInv'
<1> USE DEF GameRejoin, sessionVars
<1>1. /\ lobbyOf[s] = l /\ lstate[l] = "playing" /\ s \in spec[l]
      /\ p \in DOMAIN seats[l]
      /\ \A t \in Connected(l) : uid[l][t] # seats[l][p]
      /\ spec' = [spec EXCEPT ![l] = @ \ {s}]
      /\ seats' = [seats EXCEPT ![l][p] = uid[l][s]]
      /\ UNCHANGED <<live, client, lifetime, lobbyOf, lobbies, lstate, users,
                     uid, disc, owner, numBots, llife, crashed>>
  OBVIOUS
<1>2. l \in lobbies /\ s \in Connected(l) /\ s \in users[l]
  BY <1>1 DEF IInv, MembershipAgrees, Connected
<1>3. /\ \A k \in Lobby : k # l => seats'[k] = seats[k] /\ spec'[k] = spec[k]
      /\ spec'[l] = spec[l] \ {s}
      /\ seats'[l] = [seats[l] EXCEPT ![p] = uid[l][s]]
      /\ DOMAIN seats' = Lobby
  BY <1>1 DEF IInv, TypeOK
<1>4. /\ DOMAIN seats'[l] = DOMAIN seats[l]
      /\ seats'[l][p] = uid[l][s]
      /\ \A q \in DOMAIN seats[l] : q # p => seats'[l][q] = seats[l][q]
  BY <1>1, <1>3 DEF IInv, TypeOK
<1>5. ~Seated(l, uid[l][s])
  BY <1>1, <1>2 DEF IInv, Placed
<1>6. TypeOK'
  <2>1. uid[l][s] \in Nat
    BY DEF IInv, TypeOK
  <2>2. \A k \in Lobby : /\ DOMAIN seats'[k] \subseteq Session
                        /\ seats'[k] \in [DOMAIN seats'[k] -> Nat]
    BY <2>1, <1>3, <1>4 DEF IInv, TypeOK
  <2>3. spec' \in [Lobby -> SUBSET Session]
    BY <1>1 DEF IInv, TypeOK
  <2> QED BY <1>1, <1>3, <2>2, <2>3 DEF IInv, TypeOK
<1>7. (Absent /\ Bounded /\ NoGame /\ IdsDiffer)'
  BY <1>1, <1>2, <1>3, <1>4 DEF IInv, Absent, Bounded, NoGame, IdsDiffer
<1>8. (MembershipAgrees /\ Owned)'
  BY <1>1 DEF IInv, MembershipAgrees, Owned, Connected
<1>9. SeatsKnown'
  <2> SUFFICES ASSUME NEW k \in Lobby, NEW q \in DOMAIN seats'[k]
               PROVE  seats'[k][q] \in 1 .. Cardinality(users[k])
    BY <1>1 DEF SeatsKnown
  <2>1. CASE k = l /\ q = p
    BY <2>1, <1>2, <1>4 DEF IInv, IdsDiffer
  <2>2. CASE ~(k = l /\ q = p)
    BY <2>2, <1>3, <1>4 DEF IInv, SeatsKnown
  <2> QED BY <2>1, <2>2
<1>10. Alone'
  <2>1. \A q, r \in DOMAIN seats[l] : q # r => seats'[l][q] # seats'[l][r]
    BY <1>4, <1>5 DEF IInv, Alone, Seated
  <2> QED BY <2>1, <1>3, <1>4 DEF IInv, Alone
<1>11. Placed'
  <2> SUFFICES ASSUME NEW k \in Lobby
               PROVE  /\ \A t \in users[k] : Seated(k, uid[k][t])' => t \notin spec'[k]
                      /\ lstate[k] # "waiting" =>
                           \A t \in Connected(k) : t \in spec'[k] \/ Seated(k, uid[k][t])'
    BY <1>1 DEF Placed, Connected, Seated
  <2>1. CASE k # l
    BY <2>1, <1>1, <1>3 DEF IInv, Placed, Seated
  <2>2. CASE k = l
    <3>1. Seated(l, uid[l][s])'
      BY <1>1, <1>4 DEF Seated
    <3>2. \A t \in users[l] : t # s => (Seated(l, uid[l][t])' => Seated(l, uid[l][t]))
      BY <1>1, <1>2, <1>4 DEF Seated, IInv, IdsDiffer
    <3>3. \A t \in Connected(l) : Seated(l, uid[l][t]) => Seated(l, uid[l][t])'
      BY <1>1, <1>4 DEF Seated
    <3>4. Connected(l) \subseteq users[l]
      BY DEF Connected
    <3> QED BY <2>2, <1>3, <3>1, <3>2, <3>3, <3>4 DEF IInv, Placed
  <2> QED BY <2>1, <2>2
<1> QED BY <1>6, <1>7, <1>8, <1>9, <1>10, <1>11 DEF IInv

(***************************************************************************)
(* tick: sessions whose clients are lost leave, deserted lobbies go.       *)
(***************************************************************************)

LEMMA TickInv ==
  ASSUME IInv, NEW over \in SUBSET Lobby, Tick(over)
  PROVE  IInv'
<1> TypeOK
  BY DEF IInv
<1>1. PICK S \in SUBSET Session, R \in SUBSET lobbies :
        S = Erased /\ R = Removed
  BY DEF TypeOK, Erased, Lost, Removed
<1>2. R \subseteq Lobby
  BY DEF TypeOK
<1>3. /\ lobbies' = lobbies \ R
      /\ lobbyOf' = LobbyOfAfter(S)
      /\ \A l \in R : /\ users'[l] = {} /\ disc'[l] = {} /\ owner'[l] = {}
                     /\ spec'[l] = {} /\ lstate'[l] = "waiting"
                     /\ seats'[l] = NoSeats /\ DOMAIN seats'[l] = {}
      /\ \A l \in Lobby \ R : /\ users'[l] = users[l] /\ uid'[l] = uid[l]
                             /\ disc'[l] = DiscAfter(l, S)
                             /\ owner'[l] = OwnerAfter(l, S)
                             /\ spec'[l] = spec[l] /\ seats'[l] = seats[l]
                             /\ lstate'[l] = IF l \in over THEN "finished" ELSE lstate[l]
  BY <1>1, <1>2 DEF Tick, NoSeats
<1>4. /\ \A l \in Lobby \ R : Connected(l)' = Connected(l) \ S
      /\ \A l \in R : Connected(l)' = {} /\ Connected(l) \ S = {}
  <2>1. \A l \in Lobby \ R : Connected(l)' = Connected(l) \ S
    BY <1>1, <1>3, Leave DEF Connected
  <2>2. \A l \in R : Connected(l)' = {}
    BY <1>3 DEF Connected
  <2>3. \A l \in R : users[l] \ DiscAfter(l, S) = {}
    BY <1>1 DEF Removed
  <2>4. \A l \in R : Connected(l) \ S = {}
    BY <1>1, <1>2, <2>3, Leave
  <2> QED BY <2>1, <2>2, <2>4
<1>5. over \subseteq {l \in lobbies : lstate[l] = "playing"}
  BY DEF Tick
<1>6. TypeOK'
  <2>1. /\ live' \subseteq Session
        /\ client' \in [Session -> {"open", "closed", "stale", "reset"}]
        /\ lobbies' \subseteq Lobby
        /\ lstate' \in [Lobby -> States]
        /\ crashed' \in BOOLEAN
    BY DEF TypeOK, Tick, States
  <2>2. /\ lifetime' \in [Session -> 1 .. UserLifetime]
        /\ llife' \in [Lobby -> 1 .. LobbyLifetime]
        /\ numBots' \in [Lobby -> BotCounts]
    <3>1. \A s \in Lost \ Erased : lifetime[s] \in 1 .. UserLifetime /\ ~(lifetime[s] <= 1)
      BY DEF TypeOK, Lost, Erased
    <3>2. \A s \in Lost \ Erased : lifetime[s] - 1 \in 1 .. UserLifetime
      BY <3>1, ConstantsAssumption
    <3>3. \A l \in Deserted : llife[l] \in 1 .. LobbyLifetime /\ ~(llife[l] <= 1)
      BY DEF TypeOK, Deserted, Removed
    <3>4. \A l \in Deserted : llife[l] - 1 \in 1 .. LobbyLifetime
      BY <3>3, ConstantsAssumption
    <3>5. UserLifetime \in 1 .. UserLifetime /\ LobbyLifetime \in 1 .. LobbyLifetime
      BY ConstantsAssumption
    <3>6. lifetime' \in [Session -> 1 .. UserLifetime]
      BY <3>2, <3>5 DEF Tick
    <3>7. llife' \in [Lobby -> 1 .. LobbyLifetime]
      BY <3>4, <3>5 DEF Tick
    <3>8. numBots' \in [Lobby -> BotCounts]
      BY ConstantsAssumption DEF Tick, TypeOK
    <3> QED BY <3>6, <3>7, <3>8
  <2>3. /\ users' \in [Lobby -> SUBSET Session]
        /\ uid' \in [Lobby -> [Session -> Nat]]
        /\ spec' \in [Lobby -> SUBSET Session]
    BY DEF Tick, TypeOK
  <2>4. /\ lobbyOf' \in [Session -> Lobby \cup {NoLobby}]
        /\ disc' \in [Lobby -> SUBSET Session]
        /\ owner' \in [Lobby -> SUBSET Session]
    BY <1>1, Leave DEF Tick
  <2>5. /\ DOMAIN seats' = Lobby
        /\ \A l \in Lobby : /\ DOMAIN seats'[l] \subseteq Session
                           /\ seats'[l] \in [DOMAIN seats'[l] -> Nat]
    <3>1. DOMAIN seats' = Lobby
      BY DEF Tick
    <3>2. NoSeats \in [DOMAIN NoSeats -> Nat]
      BY DEF NoSeats
    <3> QED BY <3>1, <3>2, <1>3 DEF TypeOK
  <2> QED BY <2>1, <2>2, <2>3, <2>4, <2>5 DEF TypeOK
<1>7. Absent'
  <2> SUFFICES ASSUME NEW l \in Lobby \ lobbies'
               PROVE  /\ users'[l] = {} /\ disc'[l] = {} /\ owner'[l] = {}
                      /\ spec'[l] = {} /\ lstate'[l] = "waiting"
    BY DEF Absent
  <2>1. CASE l \in R
    BY <2>1, <1>3
  <2>2. CASE l \notin R
    <3>1. l \in Lobby \ lobbies /\ l \notin over
      BY <2>2, <1>3, <1>5
    <3>2. DiscAfter(l, S) = {} /\ OwnerAfter(l, S) = {}
      BY <3>1, Leave
    <3> QED BY <2>2, <3>1, <3>2, <1>3 DEF IInv, Absent
  <2> QED BY <2>1, <2>2
<1>8. (Bounded /\ NoGame /\ Alone)'
  <2>1. Bounded'
    BY <1>3 DEF IInv, Bounded
  <2>2. NoGame'
    BY <1>3 DEF IInv, NoGame
  <2>3. Alone'
    BY <1>3 DEF IInv, Alone
  <2> QED BY <2>1, <2>2, <2>3
<1>9. MembershipAgrees'
  <2> SUFFICES ASSUME NEW t \in Session, NEW l \in Lobby
               PROVE  lobbyOf'[t] = l <=> l \in lobbies' /\ t \in Connected(l)'
    BY DEF MembershipAgrees
  <2>1. lobbyOf'[t] = l <=> l \in lobbies /\ t \in Connected(l) \ S
    BY <1>3, Leave
  <2> QED BY <2>1, <1>3, <1>4
<1>10. Owned'
  <2> SUFFICES ASSUME NEW l \in lobbies'
               PROVE  /\ owner'[l] \subseteq Connected(l)'
                      /\ Connected(l)' # {} => \E t \in Session : owner'[l] = {t}
    BY DEF Owned
  <2>1. l \in lobbies /\ l \in Lobby \ R
    BY <1>3 DEF TypeOK
  <2>2. owner'[l] = OwnerAfter(l, S) /\ Connected(l)' = Connected(l) \ S
    BY <2>1, <1>3, <1>4
  <2>3. /\ OwnerAfter(l, S) \subseteq Connected(l) \ S
        /\ Connected(l) \ S # {} => \E t \in Session : OwnerAfter(l, S) = {t}
    BY <2>1, Leave
  <2> QED BY <2>2, <2>3
<1>11. (IdsDiffer /\ SeatsKnown)'
  BY <1>3 DEF IInv, IdsDiffer, SeatsKnown
<1>12. Placed'
  <2> SUFFICES ASSUME NEW l \in Lobby
               PROVE  /\ \A t \in users'[l] : Seated(l, uid[l][t])' => t \notin spec'[l]
                      /\ lstate'[l] # "waiting" =>
                           \A t \in Connected(l)' : t \in spec'[l] \/ Seated(l, uid[l][t])'
    BY DEF Placed, Seated
  <2>1. CASE l \in R
    BY <2>1, <1>3, <1>4
  <2>2. CASE l \notin R
    <3>1. /\ users'[l] = users[l] /\ uid'[l] = uid[l] /\ spec'[l] = spec[l]
          /\ seats'[l] = seats[l] /\ Connected(l)' \subseteq Connected(l)
          /\ lstate'[l] # "waiting" => lstate[l] # "waiting"
      BY <2>2, <1>3, <1>4, <1>5
    <3>2. \A t \in Session : Seated(l, uid[l][t])' <=> Seated(l, uid[l][t])
      BY <3>1 DEF Seated
    <3>3. users[l] \subseteq Session /\ Connected(l) \subseteq Session
      BY DEF TypeOK, Connected
    <3> QED BY <3>1, <3>2, <3>3 DEF IInv, Placed
  <2> QED BY <2>1, <2>2
<1> QED BY <1>6, <1>7, <1>8, <1>9, <1>10, <1>11, <1>12 DEF IInv

(***************************************************************************)
(* The theorems.                                                           *)
(***************************************************************************)

LEMMA StepInv ==
  ASSUME IInv, [Next]_vars
  PROVE  IInv'
<1>1. ASSUME NEW s \in Session,
             NewSession(s) \/ CloseSocket(s) \/ InvalidateConnection(s)
      PROVE  IInv'
  BY <1>1, ConnectionInv
<1>2. ASSUME NEW s \in Session, Reconnect(s) PROVE IInv'
  BY <1>2, ReconnectInv
<1>3. ASSUME NEW s \in Session, NEW bots \in BotCounts, LobbyMake(s, bots)
      PROVE  IInv'
  BY <1>3, LobbyMakeInv
<1>4. ASSUME NEW s \in Session, LobbyLeave(s) PROVE IInv'
  BY <1>4, KickInv DEF LobbyLeave
<1>5. ASSUME NEW s \in Session, GameRejoinNoLobby(s) PROVE IInv'
  <2>1. UNCHANGED <<sessionVars, lobbyVars>> /\ crashed' = TRUE
    BY <1>5 DEF GameRejoinNoLobby
  <2>2. TypeOK'
    BY <2>1 DEF IInv, TypeOK, sessionVars, lobbyVars
  <2> QED BY <2>1, <2>2, Frame DEF sessionVars, lobbyVars
<1>6. ASSUME NEW s \in Session, NEW l \in Lobby, LobbyJoin(s, l) PROVE IInv'
  BY <1>6, LobbyJoinInv
<1>7. ASSUME NEW s \in Session, NEW l \in Lobby, NEW bots \in BotCounts,
             LobbyGameOptions(s, l, bots)
      PROVE  IInv'
  BY <1>7, OptionsInv
<1>8. ASSUME NEW s \in Session, NEW l \in Lobby, NEW t \in Session,
             CommandKickUser(s, l, t)
      PROVE  IInv'
  BY <1>8, KickInv DEF CommandKickUser
<1>9. ASSUME NEW s \in Session, NEW l \in Lobby, NEW t \in Session,
             CommandAppointUser(s, l, t)
      PROVE  IInv'
  BY <1>9, AppointInv
<1>10. ASSUME NEW s \in Session, NEW l \in Lobby, NEW on \in BOOLEAN,
              UserSpectate(s, l, on)
       PROVE  IInv'
  BY <1>10, SpectateInv
<1>11. ASSUME NEW s \in Session, NEW l \in Lobby, GameStart(s, l) PROVE IInv'
  BY <1>11, GameStartInv
<1>12. ASSUME NEW s \in Session, NEW l \in Lobby, LobbyReturn(s, l) PROVE IInv'
  BY <1>12, LobbyReturnInv
<1>13. ASSUME NEW s \in Session, NEW l \in Lobby, NEW p \in Session,
              GameRejoin(s, l, p)
       PROVE  IInv'
  BY <1>13, GameRejoinInv
<1>14. ASSUME NEW over \in SUBSET Lobby, Tick(over) PROVE IInv'
  BY <1>14, TickInv
<1>15. CASE UNCHANGED vars
  <2>1. TypeOK'
    BY <1>15 DEF IInv, TypeOK, vars, sessionVars, lobbyVars
  <2> QED BY <1>15, <2>1, Frame DEF vars, sessionVars, lobbyVars
<1> QED BY <1>1, <1>2, <1>3, <1>4, <1>5, <1>6, <1>7, <1>8, <1>9, <1>10, <1>11,
           <1>12, <1>13, <1>14, <1>15 DEF Next

LEMMA Inductive == Spec => []IInv
<1>1. Init => IInv
  BY InitInv
<1>2. IInv /\ [Next]_vars => IInv'
  BY StepInv
<1> QED BY <1>1, <1>2, PTL DEF Spec

\* Every variable of the session and lobby bookkeeping of net/manager.cpp
\* has its type whatever the clients send.
THEOREM TypeCorrect == Spec => []TypeOK
<1>1. IInv => TypeOK
  BY DEF IInv
<1> QED BY <1>1, Inductive, PTL

\* session->lobby and the users of the lobbies say the same after every
\* handler and tick of net/manager.cpp.
THEOREM Membership == Spec => []MembershipAgrees
<1>1. IInv => MembershipAgrees
  BY DEF IInv
<1> QED BY <1>1, Inductive, PTL

\* The flag lobby_owner: a lobby with connected users has exactly one owner,
\* who is connected, however many leave in one tick.
THEOREM Ownership == Spec => []OneOwner
<1>1. ASSUME IInv PROVE OneOwner
  <2> SUFFICES ASSUME NEW l \in lobbies
               PROVE  /\ owner[l] \subseteq Connected(l)
                      /\ Connected(l) # {} => Cardinality(owner[l]) = 1
    BY DEF OneOwner
  <2>1. /\ owner[l] \subseteq Connected(l)
        /\ Connected(l) # {} => \E s \in Session : owner[l] = {s}
    BY <1>1 DEF IInv, Owned
  <2> QED BY <2>1, FS_Singleton
<1> QED BY <1>1, Inductive, PTL

\* While a game exists, a connected user controls one of its players or has
\* the flag spectator and never both, and no two players have one user id.
THEOREM Seating == Spec => []SeatsAgree
<1>1. ASSUME IInv PROVE SeatsAgree
  <2> SUFFICES ASSUME NEW l \in lobbies
               PROVE  /\ lstate[l] # "waiting" =>
                           \A s \in Connected(l) :
                             Seated(l, uid[l][s]) <=> s \notin spec[l]
                      /\ \A p, q \in DOMAIN seats[l] :
                           p # q => seats[l][p] # seats[l][q]
    BY DEF SeatsAgree
  <2>1. l \in Lobby /\ Connected(l) \subseteq users[l]
    BY <1>1 DEF IInv, TypeOK, Connected
  <2> QED BY <1>1, <2>1 DEF IInv, Placed, Alone
<1> QED BY <1>1, Inductive, PTL

\* game_rejoin, handle_join_lobby and tick never take a player from a user
\* who stays connected to the lobby, unless the owner ends the game.
THEOREM SeatsStay == Spec => SeatKept
<1> DEFINE Stays ==
      \A l \in lobbies : \A p \in DOMAIN seats[l] : \A s \in Connected(l) :
        /\ seats[l][p] = uid[l][s]
        /\ lobbyOf'[s] = l
        /\ lstate'[l] # "waiting"
        => seats'[l][p] = uid[l][s]
<1>1. ASSUME IInv, [Next]_vars PROVE Stays
  <2> SUFFICES ASSUME NEW l \in lobbies, NEW p \in DOMAIN seats[l],
                      NEW s \in Connected(l), seats[l][p] = uid[l][s],
                      lobbyOf'[s] = l, lstate'[l] # "waiting"
               PROVE  seats'[l][p] = seats[l][p]
    OBVIOUS
  <2>1. l \in Lobby /\ s \in Session
    BY <1>1 DEF IInv, TypeOK, Connected
  <2>2. CASE UNCHANGED seats
    BY <2>2
  <2>3. ASSUME NEW t \in Session, NEW k \in Lobby, GameStart(t, k)
        PROVE  seats'[l][p] = seats[l][p]
    <3>1. k # l
      BY <1>1, <2>1, <2>3 DEF GameStart, IInv, NoGame
    <3> QED BY <2>1, <2>3, <3>1, <1>1 DEF GameStart, IInv, TypeOK
  <2>4. ASSUME NEW t \in Session, NEW k \in Lobby, LobbyReturn(t, k)
        PROVE  seats'[l][p] = seats[l][p]
    <3>1. k # l
      BY <1>1, <2>1, <2>4 DEF LobbyReturn, IInv, TypeOK
    <3> QED BY <2>1, <2>4, <3>1, <1>1 DEF LobbyReturn, IInv, TypeOK
  <2>5. ASSUME NEW t \in Session, NEW k \in Lobby, NEW q \in Session,
               GameRejoin(t, k, q)
        PROVE  seats'[l][p] = seats[l][p]
    <3>1. k # l \/ q # p
      BY <2>5 DEF GameRejoin
    <3> QED BY <2>1, <2>5, <3>1, <1>1 DEF GameRejoin, IInv, TypeOK
  <2>6. ASSUME NEW over \in SUBSET Lobby, Tick(over)
        PROVE  seats'[l][p] = seats[l][p]
    <3>1. PICK S \in SUBSET Session : S = Erased
      BY <1>1 DEF Erased, Lost, IInv, TypeOK
    <3>2. lobbyOf' = LobbyOfAfter(S)
      BY <2>6, <3>1 DEF Tick
    <3>3. s \in Connected(l) \ S
      BY <1>1, <2>1, <3>2, Leave
    <3>4. \A k \in Lobby : users[k] \ DiscAfter(k, S) = Connected(k) \ S
      BY <1>1, Leave
    <3>5. l \notin Removed
      BY <2>1, <3>1, <3>3, <3>4 DEF Removed
    <3> QED BY <2>1, <2>6, <3>5 DEF Tick
  <2>7. ASSUME NEW t \in Session,
               \/ NewSession(t) \/ Reconnect(t) \/ CloseSocket(t)
               \/ InvalidateConnection(t) \/ LobbyLeave(t) \/ GameRejoinNoLobby(t)
               \/ \E bots \in BotCounts : LobbyMake(t, bots)
        PROVE  UNCHANGED seats
    BY <2>7 DEF NewSession, Reconnect, CloseSocket, InvalidateConnection,
                LobbyLeave, KickUserFromLobby, GameRejoinNoLobby, LobbyMake,
                lobbyVars
  <2>8. ASSUME NEW t \in Session, NEW k \in Lobby,
               \/ LobbyJoin(t, k)
               \/ \E bots \in BotCounts : LobbyGameOptions(t, k, bots)
               \/ \E u \in Session : CommandKickUser(t, k, u)
               \/ \E u \in Session : CommandAppointUser(t, k, u)
               \/ \E on \in BOOLEAN : UserSpectate(t, k, on)
        PROVE  UNCHANGED seats
    BY <2>8 DEF LobbyJoin, LobbyGameOptions, CommandKickUser, KickUserFromLobby,
                CommandAppointUser, UserSpectate
  <2>9. CASE UNCHANGED vars
    BY <2>9 DEF vars, lobbyVars
  <2> QED BY <1>1, <2>2, <2>3, <2>4, <2>5, <2>6, <2>7, <2>8, <2>9 DEF Next
<1>2. IInv /\ [Next]_vars => [Stays]_vars
  BY <1>1
<1> QED BY <1>2, Inductive, PTL DEF Spec, SeatKept

(***************************************************************************)
(* The sessions, with the lobbies left away, live as Connections lets      *)
(* them: the two modules meet in SessionLifecycle.                         *)
(***************************************************************************)

Lifecycle == INSTANCE SessionLifecycle

\* A handler that is about the lobbies leaves the session's client, its
\* countdown and its place in m_sessions alone.
LEMMA LobbiesAside ==
  ASSUME NEW s \in Session, NEW l \in Lobby,
         \/ LobbyJoin(s, l)
         \/ \E bots \in BotCounts : LobbyGameOptions(s, l, bots)
         \/ \E t \in Session : CommandKickUser(s, l, t) \/ CommandAppointUser(s, l, t)
         \/ \E on \in BOOLEAN : UserSpectate(s, l, on)
         \/ GameStart(s, l) \/ LobbyReturn(s, l)
         \/ \E p \in Session : GameRejoin(s, l, p)
  PROVE  UNCHANGED <<live, client, lifetime>>
BY DEF LobbyJoin, LobbyGameOptions, KickUserFromLobby, CommandKickUser, CommandAppointUser, UserSpectate, GameStart,
       LobbyReturn, GameRejoin, sessionVars

\* The loop of tick() over the sessions is the abstract one.
LEMMA TickIsSessionTick ==
  ASSUME TypeOK, NEW over \in SUBSET Lobby, Tick(over)
  PROVE  Lifecycle!SessionTick
<1>1. \A s \in Session : Expired(s) <=> Lifecycle!Gone(s)
  BY DEF Expired, Lifecycle!Gone
<1>2. live' = {s \in live : ~Lifecycle!Gone(s) \/ lifetime[s] > 1}
  BY <1>1 DEF Tick, Erased, Lost, TypeOK
<1>3. \A s \in Session : s \in Lost \ Erased <=> s \in live' /\ Lifecycle!Gone(s)
  BY <1>1, <1>2 DEF Lost, Erased, TypeOK
<1> QED BY <1>2, <1>3 DEF Tick, Lifecycle!SessionTick

\* What every handler and tick of the manager does to the sessions is a step of
\* SessionLifecycle or none: they are made, found again, lost, counted down and erased as the
\* life of a session that Connections implements says.
THEOREM SessionsFollowLifecycle == Spec => Lifecycle!Spec
<1>1. ASSUME Init PROVE Lifecycle!Init
  BY <1>1 DEF Init, Lifecycle!Init
<1>2. ASSUME IInv, [Next]_vars
      PROVE  [Lifecycle!Next]_<<live, client, lifetime>>
  <2>1. ASSUME NEW s \in Session, NewSession(s) \/ Reconnect(s)
        PROVE  Lifecycle!Attach(s)
    <3>1. /\ s \in live \/ client[s] = "reset"
          /\ live' = live \cup {s} /\ client' = [client EXCEPT ![s] = "open"]
          /\ lifetime' = lifetime
      BY <2>1 DEF NewSession, Reconnect, Fresh
    <3> QED BY <3>1 DEF Lifecycle!Attach
  <2>2. ASSUME NEW s \in Session, CloseSocket(s)
        PROVE  Lifecycle!CloseSocket(s)
    BY <2>2 DEF CloseSocket, Lifecycle!CloseSocket
  <2>3. ASSUME NEW s \in Session, InvalidateConnection(s)
        PROVE  Lifecycle!Detach(s)
    BY <2>3 DEF InvalidateConnection, Lifecycle!Detach
  <2>4. ASSUME NEW over \in SUBSET Lobby, Tick(over)
        PROVE  Lifecycle!SessionTick
    BY <1>2, <2>4, TickIsSessionTick DEF IInv
  <2>5. CASE UNCHANGED vars
    BY <2>5 DEF vars, sessionVars
  <2>6. ASSUME NEW s \in Session,
               \/ \E bots \in BotCounts : LobbyMake(s, bots)
               \/ LobbyLeave(s) \/ GameRejoinNoLobby(s)
        PROVE  UNCHANGED <<live, client, lifetime>>
    BY <2>6 DEF LobbyMake, LobbyLeave, KickUserFromLobby, GameRejoinNoLobby, sessionVars
  <2>7. ASSUME NEW s \in Session, NEW l \in Lobby,
               \/ LobbyJoin(s, l)
               \/ \E bots \in BotCounts : LobbyGameOptions(s, l, bots)
               \/ \E t \in Session : CommandKickUser(s, l, t)
               \/ \E t \in Session : CommandAppointUser(s, l, t)
               \/ \E on \in BOOLEAN : UserSpectate(s, l, on)
               \/ GameStart(s, l)
               \/ LobbyReturn(s, l)
               \/ \E p \in Session : GameRejoin(s, l, p)
        PROVE  UNCHANGED <<live, client, lifetime>>
    BY <2>7, LobbiesAside
  <2> QED BY <1>2, <2>1, <2>2, <2>3, <2>4, <2>5, <2>6, <2>7 DEF Next, Lifecycle!Next
<1> QED BY <1>1, <1>2, Inductive, PTL DEF Spec, Lifecycle!Spec
=============================================================================
