----------------------------- MODULE GameManager -----------------------------
(***************************************************************************)
(* Sessions and lobbies of the server: src/src/net/manager.cpp, lobby.h,   *)
(* lobby.cpp and chat_commands.cpp.  Every handler runs on the one thread  *)
(* that calls game_manager::tick, so each handler is one action; the only  *)
(* other thread is the network's, which can destroy a websocket between    *)
(* any two of them (action CloseSocket).                                   *)
(*                                                                         *)
(* A member of Session is a game_session OBJECT, not a session id: when a  *)
(* session is erased from m_sessions its object lives on in the users of   *)
(* the lobbies it ever joined, and a client that comes back with the same  *)
(* id is given a new object.  Names, pictures, passwords, chat texts and   *)
(* the messages to the clients are left out, with the flag that mutes a    *)
(* user in the chat; of the game options only num_bots is kept, the one    *)
(* the lobby code reads.                                                   *)
(***************************************************************************)
EXTENDS Integers, FiniteSets

CONSTANTS
  Session,        \* the game_session objects
  Lobby,          \* the lobby ids, positive integers
  NoLobby,        \* session->lobby == nullptr
  BotCounts,      \* the values of options.num_bots the clients send
  UserLifetime,   \* user_lifetime, in ticks
  LobbyLifetime,  \* lobby_lifetime, in ticks
  MinPlayers,     \* 3 in the code
  MaxPlayers      \* lobby_max_players

ASSUME ConstantsAssumption ==
  /\ Lobby \subseteq Nat \ {0}
  /\ NoLobby \notin Lobby
  /\ IsFiniteSet(Session)
  /\ BotCounts \subseteq Nat
  /\ 0 \in BotCounts
  /\ UserLifetime \in Nat \ {0, 1}
  /\ LobbyLifetime \in Nat \ {0}
  /\ MinPlayers \in Nat
  /\ MaxPlayers \in Nat

VARIABLES
  live,      \* the sessions in m_sessions
  client,    \* session->client: "open", "closed" (websocket destroyed since
             \*   the messages of this tick were read, its disconnection still
             \*   in the queue), "stale" (the same, a tick later) or "reset"
  lifetime,  \* session->lifetime
  lobbyOf,   \* session->lobby
  lobbies,   \* the lobbies in m_lobbies
  lstate,    \* lobby.state
  users,     \* lobby.users: every session that ever joined
  uid,       \* game_user::user_id; the vector is in the order of these ids
  disc,      \* users with flag disconnected
  owner,     \* users with flag lobby_owner
  spec,      \* users with flag spectator
  numBots,   \* lobby.options.num_bots
  seats,     \* the human players of lobby.m_game: the session that started
             \*   the game as that player -> player::user_id
  llife,     \* lobby.lifetime
  crashed    \* the process died of a null dereference

sessionVars == <<live, client, lifetime, lobbyOf>>
lobbyVars == <<lobbies, lstate, users, uid, disc, owner, spec, numBots,
               seats, llife>>
vars == <<sessionVars, lobbyVars, crashed>>

States == {"waiting", "playing", "finished"}

(***************************************************************************)
(* Helpers.                                                                *)
(***************************************************************************)

\* lobby.connected_users(): users without the flag disconnected.
Connected(l) == users[l] \ disc[l]

\* session->client.expired()
Expired(s) == client[s] # "open"

\* The session's connection is connection_state::connected: its messages
\* reach the handlers, the ones queued before its socket closed included.
CanSend(s) == client[s] # "reset" /\ ~crashed

\* connected_users().front() of a set of users of l.
Front(l, S) == CHOOSE s \in S : \A t \in S : uid[l][s] <= uid[l][t]

\* find_player_by_userid(i) is not null.
Seated(l, i) == \E p \in DOMAIN seats[l] : seats[l][p] = i

NoSeats == [p \in {} |-> 0]

\* An object no map, lobby or connection refers to: make_shared may return it.
Fresh(s) ==
  /\ s \notin live
  /\ client[s] = "reset"
  /\ \A l \in lobbies : s \notin users[l]

Init ==
  /\ live = {}
  /\ client = [s \in Session |-> "reset"]
  /\ lifetime = [s \in Session |-> UserLifetime]
  /\ lobbyOf = [s \in Session |-> NoLobby]
  /\ lobbies = {}
  /\ lstate = [l \in Lobby |-> "waiting"]
  /\ users = [l \in Lobby |-> {}]
  /\ uid = [l \in Lobby |-> [s \in Session |-> 0]]
  /\ disc = [l \in Lobby |-> {}]
  /\ owner = [l \in Lobby |-> {}]
  /\ spec = [l \in Lobby |-> {}]
  /\ numBots = [l \in Lobby |-> 0]
  /\ seats = [l \in Lobby |-> NoSeats]
  /\ llife = [l \in Lobby |-> LobbyLifetime]
  /\ crashed = FALSE

(***************************************************************************)
(* Entering and leaving a lobby.                                           *)
(***************************************************************************)

\* Mutant: ids are counted from the connected users, so one can come twice.
UserIdCountConnected(l) == Cardinality(Connected(l))

\* user_id_count: ids are given in order and users are never removed.
UserIdCount(l) == Cardinality(users[l])

\* game_lobby::add_user: a session that was here before keeps its user.
AddUser(s, l) ==
  /\ users' = [users EXCEPT ![l] = @ \cup {s}]
  /\ uid' = IF s \in users[l] THEN uid
            ELSE [uid EXCEPT ![l][s] = UserIdCount(l) + 1]
  /\ lobbyOf' = [lobbyOf EXCEPT ![s] = l]

\* Mutant: who joins a finished game is not made a spectator.
HandleJoinLobbyPlaying(s, l) ==
  /\ AddUser(s, l)
  /\ disc' = [disc EXCEPT ![l] = @ \ {s}]
  /\ owner' = IF owner[l] \cap (Connected(l) \cup {s}) = {}
              THEN [owner EXCEPT ![l] = @ \cup {s}] ELSE owner
  /\ spec' = IF lstate[l] = "playing" /\ ~Seated(l, uid'[l][s])
             THEN [spec EXCEPT ![l] = @ \cup {s}] ELSE spec

\* handle_join_lobby
HandleJoinLobby(s, l) ==
  /\ AddUser(s, l)
  /\ disc' = [disc EXCEPT ![l] = @ \ {s}]
  /\ owner' = IF owner[l] \cap (Connected(l) \cup {s}) = {}
              THEN [owner EXCEPT ![l] = @ \cup {s}] ELSE owner
  /\ spec' = IF lstate[l] # "waiting" /\ ~Seated(l, uid'[l][s])
             THEN [spec EXCEPT ![l] = @ \cup {s}] ELSE spec

\* kick_user_from_lobby for each session of S, in any order: the flag
\* lobby_owner goes to the first user still connected.
Leaving(l, S) == {s \in S : lobbyOf[s] = l}

DiscAfter(l, S) == disc[l] \cup Leaving(l, S)

\* Mutant: the flag goes to the first user, connected or not.
OwnerAfterAny(l, S) ==
  LET left == users[l] \ Leaving(l, S)
      kept == owner[l] \ Leaving(l, S)
  IN IF owner[l] \cap Leaving(l, S) # {} /\ left # {}
     THEN kept \cup {Front(l, left)} ELSE kept

OwnerAfter(l, S) ==
  LET left == users[l] \ DiscAfter(l, S)
      kept == owner[l] \ Leaving(l, S)
  IN IF owner[l] \cap Leaving(l, S) # {} /\ left # {}
     THEN kept \cup {Front(l, left)} ELSE kept

\* Mutant: session->lobby is not set to null.
LobbyOfAfterKept(S) == lobbyOf

LobbyOfAfter(S) == [s \in Session |-> IF s \in S THEN NoLobby ELSE lobbyOf[s]]

KickUserFromLobby(s) ==
  /\ disc' = [l \in Lobby |-> DiscAfter(l, {s})]
  /\ owner' = [l \in Lobby |-> OwnerAfter(l, {s})]
  /\ lobbyOf' = LobbyOfAfter({s})
  /\ UNCHANGED <<live, client, lifetime, lobbies, lstate, users, uid, spec,
                 numBots, seats, llife, crashed>>

(***************************************************************************)
(* Connections.                                                            *)
(***************************************************************************)

\* connect with an id m_sessions does not hold.
NewSession(s) ==
  /\ ~crashed
  /\ Fresh(s)
  /\ live' = live \cup {s}
  /\ client' = [client EXCEPT ![s] = "open"]
  /\ UNCHANGED <<lifetime, lobbyOf, lobbyVars, crashed>>

\* connect with the id of a session that is still there: whatever client it
\* had is kicked, and a session in a lobby enters it again.
Reconnect(s) ==
  /\ ~crashed
  /\ s \in live
  /\ client' = [client EXCEPT ![s] = "open"]
  /\ IF lobbyOf[s] = NoLobby
     THEN UNCHANGED <<lobbyOf, users, uid, disc, owner, spec>>
     ELSE HandleJoinLobby(s, lobbyOf[s])
  /\ UNCHANGED <<live, lifetime, lobbies, lstate, numBots, seats, llife,
                 crashed>>

\* The network thread destroys the websocket: session->client expires at
\* once, the disconnection waits in the queue.
CloseSocket(s) ==
  /\ client[s] = "open"
  /\ client' = [client EXCEPT ![s] = "closed"]
  /\ UNCHANGED <<live, lifetime, lobbyOf, lobbyVars, crashed>>

\* on_disconnect, or kick_client (quit, a bad message, inactivity).
InvalidateConnection(s) ==
  /\ ~crashed
  /\ client[s] # "reset"
  /\ client' = [client EXCEPT ![s] = "reset"]
  /\ UNCHANGED <<live, lifetime, lobbyOf, lobbyVars, crashed>>

(***************************************************************************)
(* Messages about lobbies.                                                 *)
(***************************************************************************)

NextLobbyId ==
  IF lobbies = {} THEN 1
  ELSE 1 + CHOOSE l \in lobbies : \A k \in lobbies : k <= l

LobbyMake(s, bots) ==
  /\ CanSend(s)
  /\ lobbyOf[s] = NoLobby
  /\ NextLobbyId \in Lobby
  /\ lobbies' = lobbies \cup {NextLobbyId}
  /\ AddUser(s, NextLobbyId)
  /\ owner' = [owner EXCEPT ![NextLobbyId] = {s}]
  /\ lstate' = [lstate EXCEPT ![NextLobbyId] = "waiting"]
  /\ numBots' = [numBots EXCEPT ![NextLobbyId] = bots]
  /\ UNCHANGED <<live, client, lifetime, disc, spec, seats, llife, crashed>>

LobbyJoin(s, l) ==
  /\ CanSend(s)
  /\ lobbyOf[s] = NoLobby
  /\ l \in lobbies
  /\ HandleJoinLobby(s, l)
  /\ UNCHANGED <<live, client, lifetime, lobbies, lstate, numBots, seats,
                 llife, crashed>>

LobbyLeave(s) ==
  /\ CanSend(s)
  /\ lobbyOf[s] # NoLobby
  /\ KickUserFromLobby(s)

\* The sender is in lobby l and has the flag lobby_owner.
OwnerSends(s, l) ==
  /\ CanSend(s)
  /\ lobbyOf[s] = l
  /\ l # NoLobby
  /\ s \in owner[l]

\* lobby_game_options, and the commands set-option and reset-options.
LobbyGameOptions(s, l, bots) ==
  /\ OwnerSends(s, l)
  /\ lstate[l] = "waiting"
  /\ numBots' = [numBots EXCEPT ![l] = bots]
  /\ UNCHANGED <<sessionVars, lobbies, lstate, users, uid, disc, owner, spec,
                 seats, llife, crashed>>

\* The command kick: find_user looks among the connected users.
CommandKickUser(s, l, t) ==
  /\ OwnerSends(s, l)
  /\ t \in Connected(l)
  /\ KickUserFromLobby(t)

\* The command appoint: the flag is taken from the sender only when the
\* target did not have it.
CommandAppointUser(s, l, t) ==
  /\ OwnerSends(s, l)
  /\ t \in Connected(l)
  /\ owner' = [owner EXCEPT ![l] = IF t \in @ THEN @ ELSE (@ \cup {t}) \ {s}]
  /\ UNCHANGED <<sessionVars, lobbies, lstate, users, uid, disc, spec,
                 numBots, seats, llife, crashed>>

UserSpectate(s, l, on) ==
  /\ CanSend(s)
  /\ lobbyOf[s] = l
  /\ l # NoLobby
  /\ lstate[l] = "waiting"
  /\ spec' = [spec EXCEPT ![l] = IF on THEN @ \cup {s} ELSE @ \ {s}]
  /\ UNCHANGED <<sessionVars, lobbies, lstate, users, uid, disc, owner,
                 numBots, seats, llife, crashed>>

(***************************************************************************)
(* Messages about games.                                                   *)
(***************************************************************************)

GameStart(s, l) ==
  LET players == Connected(l) \ spec[l]
      count == Cardinality(players) + numBots[l]
  IN /\ OwnerSends(s, l)
     /\ lstate[l] = "waiting"
     /\ count >= MinPlayers
     /\ count <= MaxPlayers
     /\ lstate' = [lstate EXCEPT ![l] = "playing"]
     /\ seats' = [seats EXCEPT ![l] = [p \in players |-> uid[l][p]]]
     /\ UNCHANGED <<sessionVars, lobbies, users, uid, disc, owner, spec,
                    numBots, llife, crashed>>

LobbyReturn(s, l) ==
  /\ OwnerSends(s, l)
  /\ lstate[l] # "waiting"
  /\ lstate' = [lstate EXCEPT ![l] = "waiting"]
  /\ seats' = [seats EXCEPT ![l] = NoSeats]
  /\ spec' = [spec EXCEPT ![l] = @ \ Connected(l)]
  /\ UNCHANGED <<sessionVars, lobbies, users, uid, disc, owner, numBots,
                 llife, crashed>>

\* Mutant: the player's user may be connected to the lobby.
GameRejoinConnected(s, l, p) ==
  /\ CanSend(s)
  /\ lobbyOf[s] = l
  /\ l # NoLobby
  /\ lstate[l] = "playing"
  /\ s \in spec[l]
  /\ p \in DOMAIN seats[l]
  /\ spec' = [spec EXCEPT ![l] = @ \ {s}]
  /\ seats' = [seats EXCEPT ![l][p] = uid[l][s]]
  /\ UNCHANGED <<sessionVars, lobbies, lstate, users, uid, disc, owner,
                 numBots, llife, crashed>>

\* game_rejoin with the user_id of the player p, a human's.
GameRejoin(s, l, p) ==
  /\ CanSend(s)
  /\ lobbyOf[s] = l
  /\ l # NoLobby
  /\ lstate[l] = "playing"
  /\ s \in spec[l]
  /\ p \in DOMAIN seats[l]
  /\ \A t \in Connected(l) : uid[l][t] # seats[l][p]
  /\ spec' = [spec EXCEPT ![l] = @ \ {s}]
  /\ seats' = [seats EXCEPT ![l][p] = uid[l][s]]
  /\ UNCHANGED <<sessionVars, lobbies, lstate, users, uid, disc, owner,
                 numBots, llife, crashed>>

\* game_rejoin from a session that is in no lobby: session->lobby is
\* dereferenced without the test the other handlers make.
GameRejoinNoLobby(s) ==
  /\ CanSend(s)
  /\ lobbyOf[s] = NoLobby
  /\ crashed' = TRUE
  /\ UNCHANGED <<sessionVars, lobbyVars>>

(***************************************************************************)
(* game_manager::tick, after the messages have been read: no socket that   *)
(* was closed before the previous tick still waits for its disconnection.  *)
(***************************************************************************)

\* Mutant: only sessions outside the lobbies are counted down.
LostOutside == {s \in live : Expired(s) /\ lobbyOf[s] = NoLobby}

Lost == {s \in live : Expired(s)}

Erased == {s \in Lost : lifetime[s] <= 1}

\* Mutant: --lifetime < 0 instead of <= 0.
RemovedLate == {l \in lobbies : users[l] \ DiscAfter(l, Erased) = {} /\ llife[l] < 1}

Removed == {l \in lobbies : users[l] \ DiscAfter(l, Erased) = {} /\ llife[l] <= 1}

\* Mutant: the lifetime of a lobby with a game starts again at every tick.
DesertedWaiting ==
  {l \in lobbies \ Removed : /\ users[l] \ DiscAfter(l, Erased) = {}
                            /\ lstate[l] # "playing"}

\* The lobbies left without connected users but not removed yet.
Deserted == {l \in lobbies \ Removed : users[l] \ DiscAfter(l, Erased) = {}}

\* A removed lobby's fields take the values of a lobby not yet made.
Tick(over) ==
  /\ ~crashed
  /\ \A s \in Session : client[s] # "stale"
  /\ over \subseteq {l \in lobbies : lstate[l] = "playing"}
  /\ client' = [s \in Session |->
                  IF client[s] = "closed" THEN "stale" ELSE client[s]]
  /\ live' = live \ Erased
  /\ lifetime' = [s \in Session |->
                    IF s \in Lost \ Erased THEN lifetime[s] - 1 ELSE UserLifetime]
  /\ lobbyOf' = LobbyOfAfter(Erased)
  /\ lobbies' = lobbies \ Removed
  /\ llife' = [l \in Lobby |->
                 IF l \in Deserted THEN llife[l] - 1 ELSE LobbyLifetime]
  /\ lstate' = [l \in Lobby |-> IF l \in Removed THEN "waiting"
                                ELSE IF l \in over THEN "finished" ELSE lstate[l]]
  /\ users' = [l \in Lobby |-> IF l \in Removed THEN {} ELSE users[l]]
  /\ uid' = [l \in Lobby |-> IF l \in Removed THEN [s \in Session |-> 0] ELSE uid[l]]
  /\ disc' = [l \in Lobby |-> IF l \in Removed THEN {} ELSE DiscAfter(l, Erased)]
  /\ owner' = [l \in Lobby |-> IF l \in Removed THEN {} ELSE OwnerAfter(l, Erased)]
  /\ spec' = [l \in Lobby |-> IF l \in Removed THEN {} ELSE spec[l]]
  /\ numBots' = [l \in Lobby |-> IF l \in Removed THEN 0 ELSE numBots[l]]
  /\ seats' = [l \in Lobby |-> IF l \in Removed THEN NoSeats ELSE seats[l]]
  /\ UNCHANGED crashed

Next ==
  \/ \E s \in Session :
       \/ NewSession(s)
       \/ Reconnect(s)
       \/ CloseSocket(s)
       \/ InvalidateConnection(s)
       \/ \E bots \in BotCounts : LobbyMake(s, bots)
       \/ LobbyLeave(s)
       \/ GameRejoinNoLobby(s)
  \/ \E s \in Session, l \in Lobby :
       \/ LobbyJoin(s, l)
       \/ \E bots \in BotCounts : LobbyGameOptions(s, l, bots)
       \/ \E t \in Session : CommandKickUser(s, l, t)
       \/ \E t \in Session : CommandAppointUser(s, l, t)
       \/ \E on \in BOOLEAN : UserSpectate(s, l, on)
       \/ GameStart(s, l)
       \/ LobbyReturn(s, l)
       \/ \E p \in Session : GameRejoin(s, l, p)
  \/ \E over \in SUBSET Lobby : Tick(over)

\* The main loop never stops ticking, and each tick first reads the messages
\* the network thread has queued.
Fairness ==
  /\ WF_vars(\E over \in SUBSET Lobby : Tick(over))
  /\ \A s \in Session : WF_vars(client[s] = "stale" /\ InvalidateConnection(s))

Spec == Init /\ [][Next]_vars

FairSpec == Spec /\ Fairness

(***************************************************************************)
(* Properties.                                                             *)
(***************************************************************************)

\* Every variable has its type, and a lobby that does not exist has no users.
TypeOK ==
  /\ live \subseteq Session
  /\ client \in [Session -> {"open", "closed", "stale", "reset"}]
  /\ lifetime \in [Session -> 1 .. UserLifetime]
  /\ lobbyOf \in [Session -> Lobby \cup {NoLobby}]
  /\ lobbies \subseteq Lobby
  /\ lstate \in [Lobby -> States]
  /\ users \in [Lobby -> SUBSET Session]
  /\ uid \in [Lobby -> [Session -> Nat]]
  /\ disc \in [Lobby -> SUBSET Session]
  /\ owner \in [Lobby -> SUBSET Session]
  /\ spec \in [Lobby -> SUBSET Session]
  /\ numBots \in [Lobby -> BotCounts]
  /\ DOMAIN seats = Lobby
  /\ \A l \in Lobby : /\ DOMAIN seats[l] \subseteq Session
                      /\ seats[l] \in [DOMAIN seats[l] -> Nat]
  /\ llife \in [Lobby -> 1 .. LobbyLifetime]
  /\ crashed \in BOOLEAN

\* session->lobby and the flags disconnected of the lobbies' users say the
\* same: a session points to a lobby exactly when it is a connected user of
\* that lobby.  The lobby's destruction therefore leaves no session with a
\* dangling pointer, and find_user(session) never throws in a handler.
MembershipAgrees ==
  \A s \in Session, l \in Lobby :
    lobbyOf[s] = l <=> l \in lobbies /\ s \in Connected(l)

\* A lobby with connected users has exactly one owner and the owner is
\* connected: leaving, kicking, appointing, the expiry of several sessions
\* in one tick and joining an empty lobby keep it so.
OneOwner ==
  \A l \in lobbies :
    /\ owner[l] \subseteq Connected(l)
    /\ Connected(l) # {} => Cardinality(owner[l]) = 1

\* While a game exists every connected user either controls a player or has
\* the flag spectator, never both and never neither; and no two players have
\* the same user id, so that a user's actions go to one player only.  Joining
\* late, coming back and game_rejoin keep flags and user ids together.
SeatsAgree ==
  \A l \in lobbies :
    /\ lstate[l] # "waiting" =>
         \A s \in Connected(l) : Seated(l, uid[l][s]) <=> s \notin spec[l]
    /\ \A p, q \in DOMAIN seats[l] : p # q => seats[l][p] # seats[l][q]

\* A player is never taken from a user who is connected to the lobby before
\* and after the step (game_rejoin), unless the owner ends the game.
SeatKept ==
  [][\A l \in lobbies : \A p \in DOMAIN seats[l] : \A s \in Connected(l) :
       /\ seats[l][p] = uid[l][s]
       /\ lobbyOf'[s] = l
       /\ lstate'[l] # "waiting"
       => seats'[l][p] = uid[l][s]]_vars

\* A session whose client is gone is erased unless a client comes back:
\* the countdown of tick() is never stopped by anything else.
LostSessionEnds ==
  \A s \in Session :
    (s \in live /\ Expired(s)) ~> (s \notin live \/ ~Expired(s) \/ crashed)

\* A lobby without connected users is removed unless somebody joins it.
DesertedLobbyEnds ==
  \A l \in Lobby :
    (l \in lobbies /\ Connected(l) = {})
      ~> (l \notin lobbies \/ Connected(l) # {} \/ crashed)
=============================================================================
