----------------------------- MODULE Connections -----------------------------
(***************************************************************************)
(* Sockets, the queue between the two threads, and the connections of the  *)
(* manager: src/src/net/wsserver.cpp, src/src/utils/tsqueue.h, the part of *)
(* src/src/net/manager.cpp that keeps m_connections, and main.cpp.         *)
(*                                                                         *)
(* The network's thread owns the sockets: it runs the callbacks open,      *)
(* message and close, which push into m_message_queue, and the closures    *)
(* the other thread deferred to it.  The main thread runs tick() and       *)
(* stop().  The actions of the two interleave in every way; a handler runs *)
(* on one thread and touches the other's state only through the queue, the *)
(* deferred closures and client.expired().                                 *)
(*                                                                         *)
(* A member of Session is a game_session object: an id that comes back     *)
(* after its session was erased is given a new one.                        *)
(***************************************************************************)
EXTENDS Integers, Sequences, FiniteSets

CONSTANTS
  Client,               \* the sockets; each is opened once
  SessionId,            \* the ids the clients send, or are given
  Session,              \* the game_session objects
  None,
  AcceptTimer,          \* client_accept_timer, in ticks
  PingInterval,         \* ping_interval, in ticks
  PingsUntilDisconnect, \* pings_until_disconnect
  UserLifetime,         \* user_lifetime, in ticks
  MaxSent               \* bound of the model on the messages of a client

\* What the queue carries besides the session ids.
Tag == {"connected", "disconnected", "pong", "bad", "other"}

ASSUME ConnectionsAssumption ==
  /\ None \notin Client \cup Session
  /\ SessionId \cap Tag = {}
  /\ AcceptTimer \in Nat
  /\ PingInterval \in Nat
  /\ PingsUntilDisconnect \in Nat \ {0}
  /\ UserLifetime \in Nat \ {0}
  /\ MaxSent \in Nat

VARIABLES
  \* the network's thread
  socket,    \* "new", "open" or "closed"
  sent,      \* the number of messages sent
  kicks,     \* the deferred closures of kick_client
  closing,   \* server.close() was called
  \* shared
  queue,     \* m_message_queue
  \* the main thread
  phase,     \* "sleep", "pump" (wsserver::tick), "timers" (the loop over
             \*   m_connections), "stopping" (the loop of stop()) or "stopped"
  todo,      \* the connections the loop has not reached
  con,       \* the kind of connection; "none": not in m_connections
  timer,     \* timeout of a not_validated, ping_timer of a connected one
  pings,     \* ping_count
  conSession,\* connected::session
  table,     \* m_sessions
  sclient,   \* session->client
  lifetime,  \* session->lifetime
  late       \* history: the clients the last tick found expired

netVars == <<socket, sent, kicks, closing>>
conVars == <<con, timer, pings, conSession>>
sessVars == <<table, sclient, lifetime>>
vars == <<netVars, queue, phase, todo, conVars, sessVars, late>>

Message == Tag \cup SessionId

Init ==
  /\ socket = [c \in Client |-> "new"]
  /\ sent = [c \in Client |-> 0]
  /\ kicks = {}
  /\ closing = FALSE
  /\ queue = <<>>
  /\ phase = "sleep"
  /\ todo = {}
  /\ con = [c \in Client |-> "none"]
  /\ timer = [c \in Client |-> 0]
  /\ pings = [c \in Client |-> 0]
  /\ conSession = [c \in Client |-> None]
  /\ table = [i \in SessionId |-> None]
  /\ sclient = [s \in Session |-> None]
  /\ lifetime = [s \in Session |-> UserLifetime]
  /\ late = {}

(***************************************************************************)
(* The network's thread.                                                   *)
(***************************************************************************)

Emplace(c, m) == queue' = Append(queue, <<c, m>>)

\* .open
Open(c) ==
  /\ socket[c] = "new"
  /\ ~closing
  /\ socket' = [socket EXCEPT ![c] = "open"]
  /\ Emplace(c, "connected")
  /\ UNCHANGED <<sent, kicks, closing, phase, todo, conVars, sessVars, late>>

\* .message: a connect with a session id, a pong, a message that does not
\* parse, or any other.
Receive(c, m) ==
  /\ socket[c] = "open"
  /\ sent[c] < MaxSent
  /\ sent' = [sent EXCEPT ![c] = @ + 1]
  /\ Emplace(c, m)
  /\ UNCHANGED <<socket, kicks, closing, phase, todo, conVars, sessVars, late>>

\* .close: the user data of the socket, and with it the pointer the handles
\* refer to, is destroyed.
CloseNow(c) ==
  /\ socket[c] = "open"
  /\ socket' = [socket EXCEPT ![c] = "closed"]
  /\ Emplace(c, "disconnected")

\* The client leaves, or server.close() closes its socket.
Close(c) ==
  /\ CloseNow(c)
  /\ UNCHANGED <<sent, kicks, closing, phase, todo, conVars, sessVars, late>>

\* The closure of kick_client runs: nothing if the socket is gone.
DeferredKick(c) ==
  /\ c \in kicks
  /\ kicks' = kicks \ {c}
  /\ CloseNow(c) \/ (socket[c] # "open" /\ UNCHANGED <<socket, queue>>)
  /\ UNCHANGED <<sent, closing, phase, todo, conVars, sessVars, late>>

\* Mutant: stop() does not stop the server.
DeferredCloseForgotten == FALSE /\ UNCHANGED vars

\* The closure of wsserver::stop: no socket is accepted any more.
DeferredClose ==
  /\ phase = "stopped"
  /\ ~closing
  /\ closing' = TRUE
  /\ UNCHANGED <<socket, sent, kicks, queue, phase, todo, conVars, sessVars, late>>

(***************************************************************************)
(* The main thread: connections.                                           *)
(***************************************************************************)

\* session->client.expired()
Expired(s) == sclient[s] = None \/ socket[sclient[s]] # "open"

\* The session that loses its client when the connection of c is made invalid.
Detached(c) == IF con[c] = "connected" THEN {conSession[c]} ELSE {}

\* The fields of the connection of c, and no connection: m_connections.erase.
SetConnection(c, kind, session) ==
  /\ con' = [con EXCEPT ![c] = kind]
  /\ timer' = [timer EXCEPT ![c] = 0]
  /\ pings' = [pings EXCEPT ![c] = 0]
  /\ conSession' = [conSession EXCEPT ![c] = session]

\* The handles reset by invalidate_connection.
ResetClients(S) == sclient' = [s \in Session |-> IF s \in S THEN None ELSE sclient[s]]

\* Mutant: the connection is erased at once, not made invalid.
KickErases(c) ==
  /\ SetConnection(c, "none", None)
  /\ ResetClients(Detached(c))
  /\ kicks' = kicks \cup {c}
  /\ UNCHANGED <<table, lifetime>>

\* Mutant: the socket is not closed.
KickSilent(c) ==
  /\ IF con[c] = "none" THEN UNCHANGED conVars ELSE SetConnection(c, "invalid", None)
  /\ ResetClients(Detached(c))
  /\ UNCHANGED <<kicks, table, lifetime>>

\* kick_client: the connection becomes invalid and stays until its socket's
\* disconnection is read.
KickClient(c) ==
  /\ IF con[c] = "none" THEN UNCHANGED conVars ELSE SetConnection(c, "invalid", None)
  /\ ResetClients(Detached(c))
  /\ kicks' = kicks \cup {c}
  /\ UNCHANGED <<table, lifetime>>

OnConnect(c) ==
  /\ SetConnection(c, "not_validated", None)
  /\ UNCHANGED <<kicks, sessVars>>

OnDisconnect(c) ==
  /\ SetConnection(c, "none", None)
  /\ ResetClients(Detached(c))
  /\ UNCHANGED <<kicks, table, lifetime>>

\* A session object nothing refers to.
FreshSession(s) ==
  /\ \A i \in SessionId : table[i] # s
  /\ \A c \in Client : conSession[c] # s

\* connect with an id that is not in m_sessions.
ConnectNew(c, i) ==
  /\ con[c] = "not_validated"
  /\ table[i] = None
  /\ \E s \in Session :
       /\ FreshSession(s)
       /\ table' = [table EXCEPT ![i] = s]
       /\ sclient' = [sclient EXCEPT ![s] = c]
       /\ lifetime' = [lifetime EXCEPT ![s] = UserLifetime]
       /\ SetConnection(c, "connected", s)
  /\ UNCHANGED kicks

\* Mutant: the client that had the session is not kicked.
ReconnectBoth(c, i) ==
  /\ con[c] = "not_validated"
  /\ table[i] # None
  /\ sclient' = [sclient EXCEPT ![table[i]] = c]
  /\ SetConnection(c, "connected", table[i])
  /\ UNCHANGED <<kicks, table, lifetime>>

\* connect with an id that is: the client it had is kicked.
Reconnect(c, i) ==
  LET s == table[i]
      old == sclient[s]
      lost == {old} \ {None}
  IN /\ con[c] = "not_validated"
     /\ s # None
     /\ con' = [d \in Client |-> IF d = c THEN "connected"
                                 ELSE IF d \in lost THEN "invalid" ELSE con[d]]
     /\ timer' = [d \in Client |-> IF d \in lost \cup {c} THEN 0 ELSE timer[d]]
     /\ pings' = [d \in Client |-> IF d \in lost \cup {c} THEN 0 ELSE pings[d]]
     /\ conSession' = [d \in Client |-> IF d = c THEN s
                                        ELSE IF d \in lost THEN None ELSE conSession[d]]
     /\ sclient' = [sclient EXCEPT ![s] = c]
     /\ kicks' = kicks \cup lost
     /\ UNCHANGED <<table, lifetime>>

\* USER_ALREADY_CONNECTED: an error message.
ConnectAgain(c) ==
  /\ con[c] # "not_validated"
  /\ con[c] # "none"
  /\ UNCHANGED <<kicks, conVars, sessVars>>

Pong(c) ==
  /\ con[c] = "connected"
  /\ pings' = [pings EXCEPT ![c] = 0]
  /\ UNCHANGED <<kicks, con, timer, conSession, sessVars>>

\* on_message; a message from a connection that is not connected, or that is
\* not known, is a critical error.
OnMessage(c, m) ==
  \/ m \in SessionId /\ (ConnectNew(c, m) \/ Reconnect(c, m) \/ ConnectAgain(c))
  \/ m \in SessionId /\ con[c] = "none" /\ KickClient(c)
  \/ m = "pong" /\ Pong(c)
  \/ m = "other" /\ con[c] = "connected" /\ UNCHANGED <<kicks, conVars, sessVars>>
  \/ m \in {"pong", "other"} /\ con[c] # "connected" /\ KickClient(c)
  \/ m = "bad" /\ KickClient(c)

Handle(c, m) ==
  \/ m = "connected" /\ OnConnect(c)
  \/ m = "disconnected" /\ OnDisconnect(c)
  \/ OnMessage(c, m)

(***************************************************************************)
(* The main thread: tick and stop.                                         *)
(***************************************************************************)

Wake ==
  /\ phase = "sleep"
  /\ phase' = "pump"
  /\ UNCHANGED <<netVars, queue, todo, conVars, sessVars, late>>

PopMessage ==
  /\ phase = "pump"
  /\ queue # <<>>
  /\ queue' = Tail(queue)
  /\ Handle(Head(queue)[1], Head(queue)[2])
  /\ UNCHANGED <<socket, sent, closing, phase, todo, late>>

\* The queue is empty: the loop over m_connections begins.
PumpDone ==
  /\ phase = "pump"
  /\ queue = <<>>
  /\ phase' = "timers"
  /\ todo' = {c \in Client : con[c] # "none"}
  /\ UNCHANGED <<netVars, queue, conVars, sessVars, late>>

\* Mutant: ++ping_count > pings_until_disconnect instead of >=.
TimeoutLate(c) ==
  \/ con[c] = "not_validated" /\ timer[c] >= AcceptTimer
  \/ /\ con[c] = "connected"
     /\ timer[c] >= PingInterval
     /\ pings[c] >= PingsUntilDisconnect

Timeout(c) ==
  \/ con[c] = "not_validated" /\ timer[c] >= AcceptTimer
  \/ /\ con[c] = "connected"
     /\ timer[c] >= PingInterval
     /\ pings[c] + 1 >= PingsUntilDisconnect

\* Mutant: a ping that is sent starts the count again.
CountPingsReset(c) ==
  /\ timer' = [timer EXCEPT ![c] = 0]
  /\ pings' = [pings EXCEPT ![c] = 0]
  /\ UNCHANGED <<con, conSession>>

CountPings(c) ==
  /\ timer' = [timer EXCEPT ![c] = IF @ >= PingInterval THEN 0 ELSE @ + 1]
  /\ pings' = [pings EXCEPT ![c] = IF timer[c] >= PingInterval THEN @ + 1 ELSE @]
  /\ UNCHANGED <<con, conSession>>

\* Mutant: the timeout of a connection that is not validated is not counted.
CountTimeoutNever(c) == UNCHANGED conVars

CountTimeout(c) ==
  /\ timer' = [timer EXCEPT ![c] = @ + 1]
  /\ UNCHANGED <<con, pings, conSession>>

TickTimer(c) ==
  /\ phase = "timers"
  /\ c \in todo
  /\ todo' = todo \ {c}
  /\ IF Timeout(c) THEN KickClient(c)
     ELSE /\ \/ con[c] = "connected" /\ CountPings(c)
             \/ con[c] = "not_validated" /\ CountTimeout(c)
             \/ con[c] = "invalid" /\ UNCHANGED conVars
          /\ UNCHANGED <<kicks, sessVars>>
  /\ UNCHANGED <<socket, sent, closing, queue, phase, late>>

Lost == {i \in SessionId : table[i] # None /\ Expired(table[i])}

\* Mutant: a session is erased at the first tick without its client.
ErasedAtOnce == Lost

Erased == {i \in Lost : lifetime[table[i]] <= 1}

\* The loop over m_sessions, and the end of tick().
SessionLoop ==
  /\ phase = "timers"
  /\ todo = {}
  /\ table' = [i \in SessionId |-> IF i \in Erased THEN None ELSE table[i]]
  /\ lifetime' = [s \in Session |->
                    IF \E i \in Lost \ Erased : table[i] = s
                    THEN lifetime[s] - 1 ELSE UserLifetime]
  /\ late' = {c \in Client : socket[c] = "closed" /\ \E s \in Session : sclient[s] = c}
  /\ phase' = "sleep"
  /\ UNCHANGED <<netVars, queue, todo, conVars, sclient>>

\* A signal stopped the main loop: stop() kicks every client.
Stop ==
  /\ phase = "sleep"
  /\ phase' = "stopping"
  /\ todo' = {c \in Client : con[c] # "none"}
  /\ UNCHANGED <<netVars, queue, conVars, sessVars, late>>

StopKick(c) ==
  /\ phase = "stopping"
  /\ c \in todo
  /\ todo' = todo \ {c}
  /\ KickClient(c)
  /\ UNCHANGED <<socket, sent, closing, queue, phase, late>>

Stopped ==
  /\ phase = "stopping"
  /\ todo = {}
  /\ phase' = "stopped"
  /\ UNCHANGED <<netVars, queue, todo, conVars, sessVars, late>>

Network ==
  \/ \E c \in Client :
       \/ Open(c)
       \/ \E m \in Message \ {"connected", "disconnected"} : Receive(c, m)
       \/ Close(c)
       \/ DeferredKick(c)
  \/ DeferredClose

Main ==
  \/ Wake
  \/ PopMessage
  \/ PumpDone
  \/ \E c \in Client : TickTimer(c) \/ StopKick(c)
  \/ SessionLoop
  \/ Stopped

Next == Network \/ Main \/ Stop

Spec == Init /\ [][Next]_vars

\* Both threads run: the main loop goes on, the deferred closures are run,
\* and server.close() reaches every socket.
Fairness ==
  /\ WF_vars(Main)
  /\ WF_vars(DeferredClose)
  /\ \A c \in Client : WF_vars(DeferredKick(c)) /\ WF_vars(closing /\ Close(c))

FairSpec == Spec /\ Fairness

(***************************************************************************)
(* Properties.                                                             *)
(***************************************************************************)

\* Every variable has its type; timers stay within their limits.
TypeOK ==
  /\ socket \in [Client -> {"new", "open", "closed"}]
  /\ sent \in [Client -> 0 .. MaxSent]
  /\ kicks \subseteq Client
  /\ closing \in BOOLEAN
  /\ queue \in Seq(Client \X Message)
  /\ phase \in {"sleep", "pump", "timers", "stopping", "stopped"}
  /\ todo \subseteq Client
  /\ con \in [Client -> {"none", "not_validated", "connected", "invalid"}]
  /\ timer \in [Client -> 0 .. AcceptTimer + PingInterval]
  /\ pings \in [Client -> 0 .. PingsUntilDisconnect - 1]
  /\ conSession \in [Client -> Session \cup {None}]
  /\ table \in [SessionId -> Session \cup {None}]
  /\ sclient \in [Session -> Client \cup {None}]
  /\ lifetime \in [Session -> 1 .. UserLifetime]
  /\ late \subseteq Client

\* The queue keeps the order of each client: on_message and on_disconnect
\* never see a client m_connections does not hold (CLIENT_NOT_FOUND), and
\* on_connect never one it already holds.
MessagesKnown ==
  queue # <<>> =>
    (con[Head(queue)[1]] = "none" <=> Head(queue)[2] = "connected")

\* A connection that is connected and its session point to each other: a
\* session has one connection at most, and the disconnection of a client
\* that was replaced cannot take the session from the one that replaced it.
OneClient ==
  \A c \in Client, s \in Session :
    sclient[s] = c <=> con[c] = "connected" /\ conSession[c] = s

\* To the lobbies the connections look like SessionLifecycle.
Lifecycle == INSTANCE SessionLifecycle WITH
  live <- {table[i] : i \in SessionId} \ {None},
  client <- [s \in Session |->
               IF sclient[s] = None THEN "reset"
               ELSE IF socket[sclient[s]] = "open" THEN "open"
               ELSE IF sclient[s] \in late THEN "stale" ELSE "closed"],
  lifetime <- lifetime

ImplementsLifecycle == Lifecycle!Spec

\* A connection that was made invalid leaves m_connections: its socket is
\* closed, and the disconnection read, unless the server stops.
InvalidRemoved ==
  \A c \in Client : con[c] = "invalid" ~> (con[c] = "none" \/ phase = "stopped")

\* A socket that never sends a valid connect is not kept.
HandshakeEnds ==
  \A c \in Client :
    con[c] = "not_validated" ~> (con[c] # "not_validated" \/ phase = "stopped")

PongQueued(c) == \E k \in DOMAIN queue : queue[k] = <<c, "pong">>

\* A client that does not answer the pings is disconnected.
SilentDropped ==
  \A c \in Client :
    con[c] = "connected" ~> (con[c] # "connected" \/ PongQueued(c) \/ phase = "stopped")

\* After stop() every socket is closed for good, also one that was accepted
\* after the connections were kicked.
StopCloses == phase = "stopped" ~> [](\A c \in Client : socket[c] # "open")
=============================================================================
