-------------------------- MODULE ConnectionsProofs --------------------------
(***************************************************************************)
(* What holds of sockets, queue and connections for every number of        *)
(* clients, sessions and messages and every limit of the timers: no        *)
(* message comes from a client that is not known, a session has one        *)
(* client, and to the lobbies it all looks like SessionLifecycle.          *)
(***************************************************************************)
EXTENDS Connections, SequenceTheorems, TLAPS

(***************************************************************************)
(* The inductive invariant.                                                *)
(***************************************************************************)

Queued(c, m) == \E i \in DOMAIN queue : queue[i] = <<c, m>>

\* In the messages of a client "connected" is the first, "disconnected" the
\* last.
Ordered ==
  \A i, j \in DOMAIN queue :
    i < j /\ queue[i][1] = queue[j][1]
      => queue[j][2] # "connected" /\ queue[i][2] # "disconnected"

\* The "connected" of a client is read when its connection is made, and
\* everything else after that.
Announced ==
  /\ \A c \in Client : con[c] # "none" => ~Queued(c, "connected")
  /\ \A i \in DOMAIN queue :
       con[queue[i][1]] = "none"
         => \E j \in 1 .. i : queue[j] = <<queue[i][1], "connected">>
  /\ \A c \in Client :
       socket[c] = "open" /\ con[c] = "none" => Queued(c, "connected")

\* A socket that is closed has its disconnection in the queue until it is
\* read, and nothing else of it is left after that.
Closing ==
  /\ \A c \in Client :
       socket[c] = "new" => con[c] = "none" /\ \A i \in DOMAIN queue : queue[i][1] # c
  /\ \A c \in Client : socket[c] = "open" => ~Queued(c, "disconnected")
  /\ \A c \in Client :
       socket[c] = "closed"
         /\ (con[c] # "none" \/ \E i \in DOMAIN queue : queue[i][1] = c)
         => Queued(c, "disconnected")

\* A client found expired at the end of a tick was connected: it never is
\* again, and its session has lost it when the timers of the next tick run.
LateGone ==
  /\ \A c \in late :
       socket[c] = "closed" /\ con[c] # "not_validated" /\ ~Queued(c, "connected")
  /\ phase = "timers" => \A s \in Session : sclient[s] \notin late

\* The lifetime of a session is counted down only while m_sessions holds it.
CountedInTable ==
  \A s \in Session : (\A i \in SessionId : table[i] # s) => lifetime[s] = UserLifetime

QueueInv == Ordered /\ Announced /\ Closing

IInv ==
  /\ TypeOK /\ QueueInv /\ OneClient /\ LateGone /\ CountedInTable

(***************************************************************************)
(* The queue.                                                              *)
(***************************************************************************)

LEMMA QueueType ==
  ASSUME TypeOK
  PROVE  /\ Len(queue) \in Nat /\ DOMAIN queue = 1 .. Len(queue)
         /\ \A i \in DOMAIN queue :
              /\ queue[i][1] \in Client /\ queue[i][2] \in Message
              /\ queue[i] = <<queue[i][1], queue[i][2]>>
<1>1. queue \in Seq(Client \X Message)
  BY DEF TypeOK
<1>2. Len(queue) \in Nat /\ DOMAIN queue = 1 .. Len(queue)
  BY <1>1, LenProperties
<1>3. \A i \in DOMAIN queue : queue[i] \in Client \X Message
  BY <1>1, <1>2, ElementOfSeq
<1> QED BY <1>2, <1>3

LEMMA EmplaceQueue ==
  ASSUME TypeOK, NEW c \in Client, NEW m \in Message, Emplace(c, m)
  PROVE  /\ queue' \in Seq(Client \X Message)
         /\ DOMAIN queue' = 1 .. Len(queue) + 1
         /\ queue'[Len(queue) + 1] = <<c, m>>
         /\ \A i \in DOMAIN queue : queue'[i] = queue[i]
<1>1. queue \in Seq(Client \X Message) /\ <<c, m>> \in Client \X Message
  BY DEF TypeOK
<1>2. queue' = Append(queue, <<c, m>>)
  BY DEF Emplace
<1>3. /\ queue' \in Seq(Client \X Message) /\ Len(queue') = Len(queue) + 1
      /\ queue'[Len(queue) + 1] = <<c, m>>
      /\ \A i \in 1 .. Len(queue) : queue'[i] = queue[i]
  BY <1>1, <1>2, AppendProperties
<1>4. DOMAIN queue' = 1 .. Len(queue')
  BY <1>3, LenProperties
<1> QED BY <1>3, <1>4, QueueType

LEMMA PopQueue ==
  ASSUME TypeOK, queue # <<>>, queue' = Tail(queue)
  PROVE  /\ Len(queue) \in Nat \ {0} /\ 1 \in DOMAIN queue
         /\ Head(queue) = queue[1]
         /\ queue' \in Seq(Client \X Message)
         /\ DOMAIN queue' = 1 .. Len(queue) - 1
         /\ \A i \in DOMAIN queue' : i + 1 \in DOMAIN queue /\ queue'[i] = queue[i + 1]
<1>1. queue \in Seq(Client \X Message)
  BY DEF TypeOK
<1>2. Len(queue) \in Nat \ {0} /\ DOMAIN queue = 1 .. Len(queue)
  BY <1>1, LenProperties, EmptySeq
<1>3. /\ queue' \in Seq(Client \X Message) /\ Len(queue') = Len(queue) - 1
      /\ \A i \in 1 .. Len(queue) - 1 : queue'[i] = queue[i + 1]
  BY <1>1, HeadTailProperties
<1>4. DOMAIN queue' = 1 .. Len(queue')
  BY <1>3, LenProperties
<1> QED BY <1>2, <1>3, <1>4

LEMMA NoTag == \A m \in SessionId : m \notin Tag
BY ConnectionsAssumption

\* The first message of the queue is "connected" exactly when its client is
\* not in m_connections.
LEMMA HeadKnown ==
  ASSUME TypeOK, QueueInv
  PROVE  MessagesKnown
<1> SUFFICES ASSUME queue # <<>>
             PROVE  con[Head(queue)[1]] = "none" <=> Head(queue)[2] = "connected"
  BY DEF MessagesKnown
<1>1. queue \in Seq(Client \X Message)
  BY DEF TypeOK
<1>2. Len(queue) \in Nat \ {0} /\ DOMAIN queue = 1 .. Len(queue) /\ Head(queue) = queue[1]
  BY <1>1, LenProperties, EmptySeq, HeadTailProperties
<1>3. /\ queue[1][1] \in Client /\ queue[1] = <<queue[1][1], queue[1][2]>>
      /\ 1 \in DOMAIN queue
  BY <1>2, QueueType
<1>4. ASSUME con[queue[1][1]] = "none" PROVE queue[1][2] = "connected"
  <2>1. PICK j \in 1 .. 1 : queue[j] = <<queue[1][1], "connected">>
    BY <1>3, <1>4 DEF QueueInv, Announced
  <2>2. j = 1
    OBVIOUS
  <2>3. queue[1] = <<queue[1][1], "connected">>
    BY <2>1, <2>2
  <2> QED BY <1>3, <2>3
<1>5. ASSUME queue[1][2] = "connected" PROVE con[queue[1][1]] = "none"
  <2>1. Queued(queue[1][1], "connected")
    BY <1>3, <1>5 DEF Queued
  <2> QED BY <1>3, <2>1 DEF QueueInv, Announced
<1> QED BY <1>2, <1>4, <1>5

\* A step that leaves queue and sockets alone and makes no connection.
LEMMA FrameQueue ==
  ASSUME TypeOK, QueueInv, UNCHANGED <<queue, socket>>,
         \A c \in Client : con'[c] = "none" <=> con[c] = "none"
  PROVE  QueueInv'
<1>1. Ordered'
  BY DEF QueueInv, Ordered
<1>2. \A c, m : Queued(c, m)' <=> Queued(c, m)
  BY DEF Queued
<1>3. Announced'
  BY <1>2, QueueType DEF QueueInv, Announced
<1>4. Closing'
  BY <1>2 DEF QueueInv, Closing
<1> QED BY <1>1, <1>3, <1>4 DEF QueueInv

\* A socket is opened, sends a message, or is closed.
LEMMA EmplaceInv ==
  ASSUME TypeOK, QueueInv, NEW c \in Client, NEW m \in Message, Emplace(c, m),
         UNCHANGED con, \A d \in Client \ {c} : socket'[d] = socket[d],
         \/ socket[c] = "new" /\ socket'[c] = "open" /\ m = "connected"
         \/ socket[c] = "open" /\ socket'[c] = "open" /\ m \notin {"connected", "disconnected"}
         \/ socket[c] = "open" /\ socket'[c] = "closed" /\ m = "disconnected"
  PROVE  QueueInv'
<1> DEFINE n == Len(queue) + 1
<1>1. /\ DOMAIN queue = 1 .. Len(queue) /\ Len(queue) \in Nat
      /\ \A i \in DOMAIN queue :
           queue[i][1] \in Client /\ queue[i] = <<queue[i][1], queue[i][2]>>
  BY QueueType
<1>2. /\ DOMAIN queue' = 1 .. n
      /\ queue'[n] = <<c, m>>
      /\ \A i \in DOMAIN queue : queue'[i] = queue[i]
  BY EmplaceQueue
<1>3. \A i \in DOMAIN queue' : i = n \/ i \in DOMAIN queue
  BY <1>1, <1>2
<1>4. ASSUME NEW d, NEW t
      PROVE  Queued(d, t)' <=> Queued(d, t) \/ (d = c /\ t = m)
  BY <1>1, <1>2, <1>3 DEF Queued
<1>5. \A i \in DOMAIN queue : \A t : queue[i] = <<c, t>> => queue[i][1] = c /\ queue[i][2] = t
  OBVIOUS
<1>6. Ordered'
  <2> SUFFICES ASSUME NEW i \in DOMAIN queue', NEW j \in DOMAIN queue',
                      i < j, queue'[i][1] = queue'[j][1]
               PROVE  queue'[j][2] # "connected" /\ queue'[i][2] # "disconnected"
    BY DEF Ordered
  <2>1. i \in DOMAIN queue /\ queue'[i] = queue[i]
    BY <1>1, <1>2, <1>3
  <2>2. CASE j \in DOMAIN queue
    BY <2>1, <2>2, <1>2 DEF QueueInv, Ordered
  <2>3. CASE j = n
    <3>1. queue[i][1] = c /\ queue'[j][2] = m
      BY <2>1, <2>3, <1>2
    <3>2. socket[c] = "open"
      BY <2>1, <3>1 DEF QueueInv, Closing
    <3>3. queue[i][2] # "disconnected"
      BY <2>1, <3>1, <3>2, <1>1 DEF QueueInv, Closing, Queued
    <3> QED BY <2>1, <3>1, <3>2, <3>3
  <2> QED BY <1>3, <2>2, <2>3
<1>7. Announced'
  <2>1. \A d \in Client : con'[d] # "none" => ~Queued(d, "connected")'
    BY <1>4 DEF QueueInv, Announced, Closing
  <2>2. ASSUME NEW i \in DOMAIN queue', con'[queue'[i][1]] = "none"
        PROVE  \E j \in 1 .. i : queue'[j] = <<queue'[i][1], "connected">>
    <3>1. CASE i \in DOMAIN queue
      <4>1. PICK j \in 1 .. i : queue[j] = <<queue[i][1], "connected">>
        BY <2>2, <3>1, <1>2 DEF QueueInv, Announced
      <4>2. j \in DOMAIN queue
        BY <3>1, <1>1
      <4> QED BY <3>1, <4>1, <4>2, <1>2
    <3>2. CASE i = n /\ m = "connected"
      BY <3>2, <1>1, <1>2
    <3>3. CASE i = n /\ m # "connected"
      <4>1. queue'[i][1] = c
        BY <3>3, <1>2
      <4>2. Queued(c, "connected")
        BY <2>2, <3>3, <4>1 DEF QueueInv, Announced
      <4>3. PICK j \in DOMAIN queue : queue[j] = <<c, "connected">>
        BY <4>2 DEF Queued
      <4>4. j \in 1 .. i /\ queue'[j] = <<c, "connected">>
        BY <3>3, <4>3, <1>1, <1>2
      <4> QED BY <4>1, <4>4
    <3> QED BY <1>3, <3>1, <3>2, <3>3
  <2>3. \A d \in Client :
          socket'[d] = "open" /\ con'[d] = "none" => Queued(d, "connected")'
    BY <1>4 DEF QueueInv, Announced
  <2> QED BY <2>1, <2>2, <2>3 DEF Announced
<1>8. Closing'
  <2>1. ASSUME NEW d \in Client, socket'[d] = "new"
        PROVE  con'[d] = "none" /\ \A i \in DOMAIN queue' : queue'[i][1] # d
    BY <2>1, <1>2, <1>3 DEF QueueInv, Closing
  <2>2. \A d \in Client : socket'[d] = "open" => ~Queued(d, "disconnected")'
    <3>1. socket[c] = "new" => ~Queued(c, "disconnected")
      BY DEF QueueInv, Closing, Queued
    <3> QED BY <3>1, <1>4 DEF QueueInv, Closing
  <2>3. ASSUME NEW d \in Client, socket'[d] = "closed",
               con'[d] # "none" \/ \E i \in DOMAIN queue' : queue'[i][1] = d
        PROVE  Queued(d, "disconnected")'
    <3>1. CASE d = c
      BY <2>3, <3>1, <1>4
    <3>2. CASE d # c
      <4>1. con[d] # "none" \/ \E i \in DOMAIN queue : queue[i][1] = d
        BY <2>3, <3>2, <1>2, <1>3
      <4> QED BY <2>3, <3>2, <4>1, <1>4 DEF QueueInv, Closing
    <3> QED BY <3>1, <3>2
  <2> QED BY <2>1, <2>2, <2>3 DEF Closing
<1> QED BY <1>6, <1>7, <1>8 DEF QueueInv

\* A message is read: "connected" makes the connection, "disconnected" takes
\* it out of m_connections, and no other message does either.
LEMMA PopInv ==
  ASSUME TypeOK, QueueInv, queue # <<>>, queue' = Tail(queue), UNCHANGED socket,
         NEW c \in Client, NEW m \in Message, Head(queue) = <<c, m>>,
         \A d \in Client \ {c} : con'[d] = "none" <=> con[d] = "none",
         con'[c] = "none" <=> m = "disconnected"
  PROVE  QueueInv'
<1>1. /\ Len(queue) \in Nat \ {0} /\ 1 \in DOMAIN queue
      /\ queue[1] = <<c, m>>
      /\ DOMAIN queue' = 1 .. Len(queue) - 1
      /\ \A i \in DOMAIN queue' : i + 1 \in DOMAIN queue /\ queue'[i] = queue[i + 1]
  BY PopQueue
<1>2. /\ DOMAIN queue = 1 .. Len(queue)
      /\ \A i \in DOMAIN queue :
           queue[i][1] \in Client /\ queue[i] = <<queue[i][1], queue[i][2]>>
  BY QueueType
<1>3. ASSUME NEW i \in DOMAIN queue, i # 1
      PROVE  i - 1 \in DOMAIN queue' /\ queue'[i - 1] = queue[i]
  <2>1. i - 1 \in DOMAIN queue' /\ (i - 1) + 1 = i
    BY <1>1, <1>2, <1>3
  <2> QED BY <1>1, <2>1
<1>4. con[c] = "none" <=> m = "connected"
  BY HeadKnown DEF MessagesKnown
<1>5. \A i \in DOMAIN queue :
        i # 1 /\ queue[i][1] = c => queue[i][2] # "connected" /\ m # "disconnected"
  BY <1>1, <1>2 DEF QueueInv, Ordered
<1>6. ASSUME NEW d, NEW t, d # c \/ t # m PROVE Queued(d, t)' <=> Queued(d, t)
  <2>1. ASSUME Queued(d, t)' PROVE Queued(d, t)
    BY <1>1, <2>1 DEF Queued
  <2>2. ASSUME Queued(d, t) PROVE Queued(d, t)'
    <3>1. PICK i \in DOMAIN queue : queue[i] = <<d, t>>
      BY <2>2 DEF Queued
    <3>2. i # 1
      BY <3>1, <1>1, <1>6
    <3> QED BY <3>1, <3>2, <1>3 DEF Queued
  <2> QED BY <2>1, <2>2
<1>7. ~Queued(c, "connected")'
  <2> SUFFICES ASSUME NEW i \in DOMAIN queue', queue'[i] = <<c, "connected">>
               PROVE  FALSE
    BY DEF Queued
  <2>1. i + 1 \in DOMAIN queue /\ queue[i + 1] = <<c, "connected">> /\ i + 1 # 1
    BY <1>1
  <2> QED BY <2>1, <1>5
<1>8. Ordered'
  <2> SUFFICES ASSUME NEW i \in DOMAIN queue', NEW j \in DOMAIN queue',
                      i < j, queue'[i][1] = queue'[j][1]
               PROVE  queue'[j][2] # "connected" /\ queue'[i][2] # "disconnected"
    BY DEF Ordered
  <2>1. i + 1 < j + 1 /\ i + 1 \in DOMAIN queue /\ j + 1 \in DOMAIN queue
    BY <1>1
  <2> QED BY <1>1, <2>1 DEF QueueInv, Ordered
<1>9. Announced'
  <2>1. \A d \in Client : con'[d] # "none" => ~Queued(d, "connected")'
    BY <1>6, <1>7 DEF QueueInv, Announced
  <2>2. ASSUME NEW i \in DOMAIN queue', con'[queue'[i][1]] = "none"
        PROVE  \E j \in 1 .. i : queue'[j] = <<queue'[i][1], "connected">>
    <3>1. i + 1 \in DOMAIN queue /\ queue'[i] = queue[i + 1] /\ i + 1 # 1
      BY <1>1
    <3>2. queue[i + 1][1] # c
      BY <2>2, <3>1, <1>5
    <3>3. con[queue[i + 1][1]] = "none"
      BY <2>2, <3>1, <3>2, <1>2
    <3>4. PICK j \in 1 .. i + 1 : queue[j] = <<queue[i + 1][1], "connected">>
      BY <3>1, <3>3 DEF QueueInv, Announced
    <3>5. j # 1
      BY <3>2, <3>4, <1>1
    <3>6. j \in DOMAIN queue
      BY <3>1, <3>4, <1>2
    <3>7. j - 1 \in 1 .. i /\ queue'[j - 1] = queue[j]
      BY <3>4, <3>5, <3>6, <1>3, <1>1
    <3> QED BY <3>1, <3>4, <3>7
  <2>3. ASSUME NEW d \in Client, socket'[d] = "open", con'[d] = "none"
        PROVE  Queued(d, "connected")'
    <3>1. d # c
      <4>1. m = "disconnected" => Queued(c, "disconnected")
        BY <1>1 DEF Queued
      <4> QED BY <2>3, <4>1 DEF QueueInv, Closing
    <3> QED BY <2>3, <3>1, <1>6 DEF QueueInv, Announced
  <2> QED BY <2>1, <2>2, <2>3 DEF Announced
<1>10. Closing'
  <2>1. ASSUME NEW d \in Client, socket'[d] = "new"
        PROVE  con'[d] = "none" /\ \A i \in DOMAIN queue' : queue'[i][1] # d
    <3>1. con[d] = "none" /\ \A i \in DOMAIN queue : queue[i][1] # d
      BY <2>1 DEF QueueInv, Closing
    <3>2. d # c
      BY <3>1, <1>1
    <3> QED BY <3>1, <3>2, <1>1
  <2>2. ASSUME NEW d \in Client, socket'[d] = "open"
        PROVE  ~Queued(d, "disconnected")'
    <3>1. ~Queued(d, "disconnected")
      BY <2>2 DEF QueueInv, Closing
    <3>2. Queued(d, "disconnected")' => Queued(d, "disconnected")
      BY <1>1 DEF Queued
    <3> QED BY <3>1, <3>2
  <2>3. ASSUME NEW d \in Client, socket'[d] = "closed",
               con'[d] # "none" \/ \E i \in DOMAIN queue' : queue'[i][1] = d
        PROVE  Queued(d, "disconnected")'
    <3>1. CASE d = c /\ m = "disconnected"
      <4>1. \A i \in DOMAIN queue' : queue'[i][1] # c
        BY <3>1, <1>1, <1>5
      <4> QED BY <2>3, <3>1, <4>1
    <3>2. CASE d # c \/ m # "disconnected"
      <4>1. con[d] # "none" \/ \E i \in DOMAIN queue : queue[i][1] = d
        BY <2>3, <1>1
      <4>2. Queued(d, "disconnected")
        BY <2>3, <4>1 DEF QueueInv, Closing
      <4> QED BY <3>2, <4>2, <1>6
    <3> QED BY <3>1, <3>2
  <2> QED BY <2>1, <2>2, <2>3 DEF Closing
<1> QED BY <1>8, <1>9, <1>10 DEF QueueInv

(***************************************************************************)
(* The handlers of the main thread: what each does to connections and      *)
(* sessions.                                                               *)
(***************************************************************************)

HandlerType ==
  /\ kicks \subseteq Client
  /\ con \in [Client -> {"none", "not_validated", "connected", "invalid"}]
  /\ timer \in [Client -> 0 .. AcceptTimer + PingInterval]
  /\ pings \in [Client -> 0 .. PingsUntilDisconnect - 1]
  /\ conSession \in [Client -> Session \cup {None}]
  /\ table \in [SessionId -> Session \cup {None}]
  /\ sclient \in [Session -> Client \cup {None}]
  /\ lifetime \in [Session -> 1 .. UserLifetime]

\* What the steps that only take clients from sessions have in common.
Loosens ==
  /\ UNCHANGED <<table, lifetime>>
  /\ \A s \in Session : sclient'[s] \in {sclient[s], None}

LEMMA Zeros == 0 \in 0 .. AcceptTimer + PingInterval /\ 0 \in 0 .. PingsUntilDisconnect - 1
BY ConnectionsAssumption

LEMMA SetConnectionType ==
  ASSUME TypeOK, NEW c \in Client, NEW session \in Session \cup {None},
         NEW kind \in {"none", "not_validated", "connected", "invalid"},
         SetConnection(c, kind, session)
  PROVE  /\ con' \in [Client -> {"none", "not_validated", "connected", "invalid"}]
         /\ timer' \in [Client -> 0 .. AcceptTimer + PingInterval]
         /\ pings' \in [Client -> 0 .. PingsUntilDisconnect - 1]
         /\ conSession' \in [Client -> Session \cup {None}]
         /\ con'[c] = kind /\ conSession'[c] = session
         /\ \A d \in Client : d # c => con'[d] = con[d] /\ conSession'[d] = conSession[d]
BY Zeros DEF SetConnection, TypeOK

\* A connection ends or becomes invalid, and its session loses the client.
LEMMA Release ==
  ASSUME TypeOK, OneClient, NEW c \in Client, NEW kind \in {"none", "invalid"},
         SetConnection(c, kind, None), ResetClients(Detached(c))
  PROVE  /\ OneClient'
         /\ sclient' \in [Session -> Client \cup {None}]
         /\ \A s \in Session : sclient'[s] = IF sclient[s] = c THEN None ELSE sclient[s]
<1>1. /\ con'[c] = kind
      /\ \A d \in Client : d # c => con'[d] = con[d] /\ conSession'[d] = conSession[d]
  BY SetConnectionType
<1>2. \A s \in Session : sclient[s] = c <=> s \in Detached(c)
  BY DEF OneClient, Detached
<1>3. sclient' = [s \in Session |-> IF sclient[s] = c THEN None ELSE sclient[s]]
  BY <1>2 DEF ResetClients
<1>4. \A s \in Session : sclient'[s] = IF sclient[s] = c THEN None ELSE sclient[s]
  BY <1>3
<1>5. ASSUME NEW d \in Client, NEW s \in Session
      PROVE  sclient'[s] = d <=> con'[d] = "connected" /\ conSession'[d] = s
  <2>1. None # d
    BY ConnectionsAssumption
  <2>2. sclient[s] = d <=> con[d] = "connected" /\ conSession[d] = s
    BY DEF OneClient
  <2>3. CASE d = c
    BY <2>1, <2>3, <1>1, <1>4
  <2>4. CASE d # c
    BY <2>1, <2>2, <2>4, <1>1, <1>4
  <2> QED BY <2>3, <2>4
<1>6. sclient' \in [Session -> Client \cup {None}]
  BY <1>3 DEF TypeOK
<1> QED BY <1>4, <1>5, <1>6 DEF OneClient

LEMMA Kick ==
  ASSUME TypeOK, OneClient, NEW c \in Client, KickClient(c)
  PROVE  /\ HandlerType' /\ OneClient' /\ Loosens
         /\ \A d \in Client : con'[d] = "none" <=> con[d] = "none"
         /\ \A d \in Client : con'[d] = "not_validated" => con[d] = "not_validated"
         /\ \A s \in Session : sclient'[s] = IF sclient[s] = c THEN None ELSE sclient[s]
<1>1. kicks' \subseteq Client /\ UNCHANGED <<table, lifetime>>
  BY DEF KickClient, TypeOK
<1>2. CASE con[c] = "none"
  <2>1. UNCHANGED conVars /\ Detached(c) = {}
    BY <1>2 DEF KickClient, Detached
  <2>2. sclient' = sclient
    BY <2>1 DEF KickClient, ResetClients, TypeOK
  <2>3. \A s \in Session : sclient[s] # c
    BY <1>2 DEF OneClient
  <2> QED BY <1>1, <2>1, <2>2, <2>3 DEF conVars, HandlerType, TypeOK, OneClient, Loosens
<1>3. CASE con[c] # "none"
  <2>1. SetConnection(c, "invalid", None) /\ ResetClients(Detached(c))
    BY <1>3 DEF KickClient
  <2>2. /\ OneClient'
        /\ sclient' \in [Session -> Client \cup {None}]
        /\ \A s \in Session : sclient'[s] = IF sclient[s] = c THEN None ELSE sclient[s]
    BY <2>1, Release
  <2>3. HandlerType'
    BY <1>1, <2>1, <2>2, SetConnectionType DEF HandlerType, TypeOK
  <2>4. con'[c] = "invalid" /\ \A d \in Client : d # c => con'[d] = con[d]
    BY <2>1, SetConnectionType
  <2> QED BY <1>1, <1>3, <2>2, <2>3, <2>4 DEF Loosens
<1> QED BY <1>2, <1>3

LEMMA Connected ==
  ASSUME TypeOK, OneClient, NEW c \in Client, con[c] = "none", OnConnect(c)
  PROVE  /\ HandlerType' /\ OneClient' /\ UNCHANGED sessVars
         /\ con'[c] = "not_validated"
         /\ \A d \in Client : d # c => con'[d] = con[d]
<1>1. SetConnection(c, "not_validated", None) /\ UNCHANGED <<kicks, table, sclient, lifetime>>
  BY DEF OnConnect, sessVars
<1>2. HandlerType'
  BY <1>1, SetConnectionType DEF HandlerType, TypeOK
<1>3. /\ con'[c] = "not_validated"
      /\ \A d \in Client : d # c => con'[d] = con[d] /\ conSession'[d] = conSession[d]
  BY <1>1, SetConnectionType
<1>4. OneClient'
  BY <1>1, <1>3 DEF OneClient
<1> QED BY <1>1, <1>2, <1>3, <1>4 DEF sessVars

LEMMA Disconnected ==
  ASSUME TypeOK, OneClient, NEW c \in Client, OnDisconnect(c)
  PROVE  /\ HandlerType' /\ OneClient' /\ Loosens
         /\ con'[c] = "none"
         /\ \A d \in Client : d # c => con'[d] = con[d]
         /\ \A s \in Session : sclient'[s] = IF sclient[s] = c THEN None ELSE sclient[s]
<1>1. /\ SetConnection(c, "none", None) /\ ResetClients(Detached(c))
      /\ UNCHANGED <<kicks, table, lifetime>>
  BY DEF OnDisconnect
<1>2. /\ OneClient'
      /\ sclient' \in [Session -> Client \cup {None}]
      /\ \A s \in Session : sclient'[s] = IF sclient[s] = c THEN None ELSE sclient[s]
  BY <1>1, Release
<1>3. HandlerType'
  BY <1>1, <1>2, SetConnectionType DEF HandlerType, TypeOK
<1>4. con'[c] = "none" /\ \A d \in Client : d # c => con'[d] = con[d]
  BY <1>1, SetConnectionType
<1> QED BY <1>1, <1>2, <1>3, <1>4 DEF Loosens

\* A new session: nothing referred to the object before.
LEMMA Created ==
  ASSUME TypeOK, OneClient, CountedInTable, NEW c \in Client, NEW i \in SessionId,
         ConnectNew(c, i)
  PROVE  /\ HandlerType' /\ OneClient'
         /\ con[c] = "not_validated" /\ con'[c] = "connected"
         /\ \A d \in Client : d # c => con'[d] = con[d]
         /\ \E s \in Session :
              /\ \A k \in SessionId : table[k] # s
              /\ table[i] = None /\ table' = [table EXCEPT ![i] = s]
              /\ sclient[s] = None /\ sclient' = [sclient EXCEPT ![s] = c]
              /\ UNCHANGED lifetime
<1>1. PICK s \in Session :
        /\ FreshSession(s)
        /\ table' = [table EXCEPT ![i] = s]
        /\ sclient' = [sclient EXCEPT ![s] = c]
        /\ lifetime' = [lifetime EXCEPT ![s] = UserLifetime]
        /\ SetConnection(c, "connected", s)
  BY DEF ConnectNew
<1>2. con[c] = "not_validated" /\ table[i] = None /\ UNCHANGED kicks
  BY DEF ConnectNew
<1>3. /\ \A k \in SessionId : table[k] # s
      /\ \A d \in Client : conSession[d] # s
  BY <1>1 DEF FreshSession
<1>4. sclient[s] = None
  BY <1>3 DEF OneClient, TypeOK
<1>5. lifetime' = lifetime
  <2>1. lifetime[s] = UserLifetime
    BY <1>3 DEF CountedInTable
  <2> QED BY <1>1, <2>1 DEF TypeOK
<1>6. /\ con'[c] = "connected" /\ conSession'[c] = s
      /\ \A d \in Client : d # c => con'[d] = con[d] /\ conSession'[d] = conSession[d]
  BY <1>1, SetConnectionType
<1>7. HandlerType'
  <2>1. table' \in [SessionId -> Session \cup {None}] /\ sclient' \in [Session -> Client \cup {None}]
    BY <1>1 DEF TypeOK
  <2> QED BY <1>1, <1>2, <1>5, <2>1, SetConnectionType DEF HandlerType, TypeOK
<1>8. ASSUME NEW d \in Client, NEW t \in Session
      PROVE  sclient'[t] = d <=> con'[d] = "connected" /\ conSession'[d] = t
  <2>1. sclient[t] = d <=> con[d] = "connected" /\ conSession[d] = t
    BY DEF OneClient
  <2>2. sclient'[t] = IF t = s THEN c ELSE sclient[t]
    BY <1>1 DEF TypeOK
  <2> QED BY <2>1, <2>2, <1>2, <1>3, <1>6
<1> QED BY <1>1, <1>2, <1>3, <1>4, <1>5, <1>6, <1>7, <1>8 DEF OneClient

\* A session that is there changes its client, and the old one is kicked.
LEMMA Replaced ==
  ASSUME TypeOK, OneClient, NEW c \in Client, NEW i \in SessionId, Reconnect(c, i)
  PROVE  /\ HandlerType' /\ OneClient'
         /\ con[c] = "not_validated" /\ con'[c] = "connected"
         /\ \A d \in Client : con'[d] = "none" <=> con[d] = "none"
         /\ \A d \in Client : con'[d] = "not_validated" => con[d] = "not_validated"
         /\ table[i] \in Session /\ sclient' = [sclient EXCEPT ![table[i]] = c]
         /\ UNCHANGED <<table, lifetime>>
<1>1. PICK s \in Session : s = table[i]
  BY DEF Reconnect, TypeOK
<1> DEFINE lost == {sclient[s]} \ {None}
<1>2. /\ con[c] = "not_validated"
      /\ con' = [d \in Client |-> IF d = c THEN "connected"
                                  ELSE IF d \in lost THEN "invalid" ELSE con[d]]
      /\ timer' = [d \in Client |-> IF d \in lost \cup {c} THEN 0 ELSE timer[d]]
      /\ pings' = [d \in Client |-> IF d \in lost \cup {c} THEN 0 ELSE pings[d]]
      /\ conSession' = [d \in Client |-> IF d = c THEN s
                                         ELSE IF d \in lost THEN None ELSE conSession[d]]
      /\ sclient' = [sclient EXCEPT ![s] = c]
      /\ kicks' = kicks \cup lost
      /\ UNCHANGED <<table, lifetime>>
  BY <1>1 DEF Reconnect
<1>3. lost \subseteq Client /\ \A d \in lost : d # c /\ con[d] = "connected" /\ conSession[d] = s
  <2>1. \A d \in Client : sclient[s] = d <=> con[d] = "connected" /\ conSession[d] = s
    BY DEF OneClient
  <2>2. sclient[s] \in Client \cup {None}
    BY DEF TypeOK
  <2> QED BY <1>2, <2>1, <2>2
<1>4. \A d \in Client : d \in lost <=> sclient[s] = d
  BY ConnectionsAssumption
<1> HIDE DEF lost
<1>5. HandlerType'
  <2>1. con' \in [Client -> {"none", "not_validated", "connected", "invalid"}]
    BY <1>2 DEF TypeOK
  <2>2. timer' \in [Client -> 0 .. AcceptTimer + PingInterval]
    BY <1>2, Zeros DEF TypeOK
  <2>3. pings' \in [Client -> 0 .. PingsUntilDisconnect - 1]
    BY <1>2, Zeros DEF TypeOK
  <2>4. conSession' \in [Client -> Session \cup {None}]
    BY <1>2 DEF TypeOK
  <2>5. sclient' \in [Session -> Client \cup {None}]
    BY <1>2 DEF TypeOK
  <2>6. kicks' \subseteq Client
    BY <1>2, <1>3 DEF TypeOK
  <2> QED BY <1>2, <2>1, <2>2, <2>3, <2>4, <2>5, <2>6 DEF HandlerType, TypeOK
<1>6. ASSUME NEW d \in Client, NEW t \in Session
      PROVE  sclient'[t] = d <=> con'[d] = "connected" /\ conSession'[d] = t
  <2>1. sclient[t] = d <=> con[d] = "connected" /\ conSession[d] = t
    BY DEF OneClient
  <2>2. sclient'[t] = IF t = s THEN c ELSE sclient[t]
    BY <1>2 DEF TypeOK
  <2>3. CASE d = c
    BY <2>1, <2>2, <2>3, <1>2
  <2>4. CASE d # c /\ d \in lost
    BY <2>1, <2>2, <2>4, <1>2, <1>3
  <2>5. CASE d # c /\ d \notin lost
    BY <2>1, <2>2, <2>5, <1>2, <1>4
  <2> QED BY <2>3, <2>4, <2>5
<1>7. /\ con'[c] = "connected"
      /\ \A d \in Client : con'[d] = "none" <=> con[d] = "none"
      /\ \A d \in Client : con'[d] = "not_validated" => con[d] = "not_validated"
  BY <1>2, <1>3
<1> QED BY <1>1, <1>2, <1>5, <1>6, <1>7 DEF OneClient

(***************************************************************************)
(* Steps of the main thread.                                               *)
(***************************************************************************)

\* The handler of any message, of which every message's client is known.
LEMMA Handled ==
  ASSUME TypeOK, QueueInv, OneClient, CountedInTable, queue # <<>>,
         NEW c \in Client, NEW m \in Message, Head(queue) = <<c, m>>, Handle(c, m)
  PROVE  /\ HandlerType' /\ OneClient' /\ UNCHANGED lifetime
         /\ \A d \in Client \ {c} : con'[d] = "none" <=> con[d] = "none"
         /\ con'[c] = "none" <=> m = "disconnected"
         /\ \A d \in Client :
              con'[d] = "not_validated"
                => con[d] = "not_validated" \/ (d = c /\ m = "connected")
         /\ \A s \in Session : (\A k \in SessionId : table'[k] # s)
                                 => (\A k \in SessionId : table[k] # s)
<1> USE DEF Loosens
<1>1. con[c] = "none" <=> m = "connected"
  BY HeadKnown DEF MessagesKnown
<1>2. CASE m = "connected"
  <2>1. con[c] = "none" /\ OnConnect(c)
    BY <1>1, <1>2, NoTag DEF Handle, OnMessage, Tag
  <2> QED BY <1>2, <2>1, Connected DEF sessVars
<1>3. CASE m = "disconnected"
  <2>1. OnDisconnect(c)
    BY <1>3, NoTag DEF Handle, OnMessage, Tag
  <2> QED BY <1>3, <2>1, Disconnected
<1>4. CASE m \notin {"connected", "disconnected"}
  <2>1. con[c] # "none" /\ OnMessage(c, m)
    BY <1>1, <1>4 DEF Handle
  <2>2. CASE KickClient(c)
    BY <1>4, <2>1, <2>2, Kick
  <2>3. CASE m \in SessionId /\ ConnectNew(c, m)
    <3>1. PICK s \in Session : table[m] = None /\ table' = [table EXCEPT ![m] = s]
      BY <2>3, Created
    <3>2. \A k \in SessionId : table'[k] = IF k = m THEN s ELSE table[k]
      BY <2>3, <3>1 DEF TypeOK
    <3>3. \A t \in Session : table[m] # t
      BY <3>1, ConnectionsAssumption
    <3>4. \A t \in Session : (\A k \in SessionId : table'[k] # t)
                               => (\A k \in SessionId : table[k] # t)
      BY <3>2, <3>3
    <3>5. /\ HandlerType' /\ OneClient' /\ UNCHANGED lifetime
          /\ con'[c] = "connected" /\ \A d \in Client : d # c => con'[d] = con[d]
      BY <2>3, Created
    <3> QED BY <1>4, <3>4, <3>5
  <2>4. CASE m \in SessionId /\ Reconnect(c, m)
    BY <1>4, <2>1, <2>4, Replaced
  <2>5. CASE ConnectAgain(c) \/ Pong(c) \/ UNCHANGED <<kicks, conVars, sessVars>>
    <3>1. /\ UNCHANGED <<kicks, con, timer, conSession, table, sclient, lifetime>>
          /\ pings' \in [Client -> 0 .. PingsUntilDisconnect - 1]
      BY <2>5, Zeros DEF ConnectAgain, Pong, conVars, sessVars, TypeOK
    <3> QED BY <1>4, <2>1, <3>1 DEF HandlerType, TypeOK, OneClient
  <2> QED BY <2>1, <2>2, <2>3, <2>4, <2>5 DEF OnMessage
<1> QED BY <1>2, <1>3, <1>4

LEMMA MessageInv ==
  ASSUME IInv, PopMessage
  PROVE  IInv'
<1> TypeOK /\ QueueInv /\ OneClient /\ CountedInTable /\ LateGone
  BY DEF IInv
<1>1. /\ phase = "pump" /\ queue # <<>> /\ queue' = Tail(queue)
      /\ UNCHANGED <<socket, sent, closing, phase, todo, late>>
  BY DEF PopMessage
<1>2. /\ 1 \in DOMAIN queue /\ Head(queue) = queue[1]
      /\ queue' \in Seq(Client \X Message)
      /\ \A i \in DOMAIN queue' : i + 1 \in DOMAIN queue /\ queue'[i] = queue[i + 1]
  BY <1>1, PopQueue
<1>3. PICK c \in Client, m \in Message : Head(queue) = <<c, m>>
  BY <1>2, QueueType
<1>4. Handle(c, m)
  BY <1>3 DEF PopMessage
<1>5. /\ HandlerType' /\ OneClient' /\ UNCHANGED lifetime
      /\ \A d \in Client \ {c} : con'[d] = "none" <=> con[d] = "none"
      /\ con'[c] = "none" <=> m = "disconnected"
      /\ \A d \in Client :
           con'[d] = "not_validated"
             => con[d] = "not_validated" \/ (d = c /\ m = "connected")
      /\ \A s \in Session : (\A k \in SessionId : table'[k] # s)
                              => (\A k \in SessionId : table[k] # s)
  BY <1>1, <1>3, <1>4, Handled
<1>6. TypeOK'
  BY <1>1, <1>2, <1>5 DEF HandlerType, TypeOK
<1>7. QueueInv'
  BY <1>1, <1>3, <1>5, PopInv
<1>8. CountedInTable'
  BY <1>5 DEF CountedInTable
<1>9. LateGone'
  <2>1. \A d, t : Queued(d, t)' => Queued(d, t)
    BY <1>2 DEF Queued
  <2>2. m = "connected" => Queued(c, "connected")
    BY <1>2, <1>3 DEF Queued
  <2>3. late \subseteq Client
    BY DEF TypeOK
  <2> QED BY <1>1, <1>5, <2>1, <2>2, <2>3 DEF LateGone
<1> QED BY <1>5, <1>6, <1>7, <1>8, <1>9 DEF IInv

\* kick_client out of the loops over m_connections.
LEMMA KickStepInv ==
  ASSUME IInv, NEW c \in Client, KickClient(c), todo' \subseteq todo,
         UNCHANGED <<socket, sent, closing, queue, phase, late>>
  PROVE  IInv'
<1> TypeOK /\ QueueInv /\ OneClient /\ CountedInTable /\ LateGone
  BY DEF IInv
<1>1. /\ HandlerType' /\ OneClient' /\ Loosens
      /\ \A d \in Client : con'[d] = "none" <=> con[d] = "none"
      /\ \A d \in Client : con'[d] = "not_validated" => con[d] = "not_validated"
  BY Kick
<1>2. TypeOK'
  BY <1>1 DEF HandlerType, TypeOK
<1>3. QueueInv'
  BY <1>1, FrameQueue
<1>4. CountedInTable'
  BY <1>1 DEF CountedInTable, Loosens
<1>5. LateGone'
  <2>1. None \notin late /\ late \subseteq Client
    BY ConnectionsAssumption DEF TypeOK
  <2> QED BY <1>1, <2>1 DEF LateGone, Queued, Loosens
<1> QED BY <1>1, <1>2, <1>3, <1>4, <1>5 DEF IInv

LEMMA TimerInv ==
  ASSUME IInv, NEW c \in Client, TickTimer(c)
  PROVE  IInv'
<1> TypeOK /\ QueueInv /\ OneClient /\ CountedInTable /\ LateGone
  BY DEF IInv
<1>1. /\ todo' \subseteq todo
      /\ UNCHANGED <<socket, sent, closing, queue, phase, late>>
  BY DEF TickTimer
<1>2. CASE Timeout(c)
  BY <1>1, <1>2, KickStepInv DEF TickTimer
<1>3. CASE ~Timeout(c)
  <2>1. /\ UNCHANGED <<kicks, sessVars>>
        /\ \/ con[c] = "connected" /\ CountPings(c)
           \/ con[c] = "not_validated" /\ CountTimeout(c)
           \/ UNCHANGED conVars
    BY <1>3 DEF TickTimer
  <2>2. UNCHANGED <<con, conSession>>
    BY <2>1 DEF CountPings, CountTimeout, conVars
  <2>3. /\ timer[c] \in 0 .. AcceptTimer + PingInterval
        /\ pings[c] \in 0 .. PingsUntilDisconnect - 1
    BY DEF TypeOK
  <2>4. /\ timer' \in [Client -> 0 .. AcceptTimer + PingInterval]
        /\ pings' \in [Client -> 0 .. PingsUntilDisconnect - 1]
    <3>1. CASE con[c] = "connected" /\ CountPings(c)
      <4>1. (IF timer[c] >= PingInterval THEN 0 ELSE timer[c] + 1)
              \in 0 .. AcceptTimer + PingInterval
        BY <2>3, ConnectionsAssumption
      <4>2. (IF timer[c] >= PingInterval THEN pings[c] + 1 ELSE pings[c])
              \in 0 .. PingsUntilDisconnect - 1
        BY <1>3, <2>3, <3>1, ConnectionsAssumption DEF Timeout
      <4> QED BY <3>1, <4>1, <4>2 DEF CountPings, TypeOK
    <3>2. CASE con[c] = "not_validated" /\ CountTimeout(c)
      <4>1. timer[c] + 1 \in 0 .. AcceptTimer + PingInterval
        BY <1>3, <2>3, <3>2, ConnectionsAssumption DEF Timeout
      <4> QED BY <3>2, <4>1 DEF CountTimeout, TypeOK
    <3>3. CASE UNCHANGED conVars
      BY <3>3 DEF conVars, TypeOK
    <3> QED BY <2>1, <3>1, <3>2, <3>3
  <2>5. TypeOK'
    BY <1>1, <2>1, <2>2, <2>4 DEF TypeOK, sessVars
  <2>6. QueueInv'
    BY <1>1, <2>2, FrameQueue
  <2>7. (OneClient /\ CountedInTable /\ LateGone)'
    BY <1>1, <2>1, <2>2 DEF OneClient, CountedInTable, LateGone, Queued, sessVars
  <2> QED BY <2>5, <2>6, <2>7 DEF IInv
<1> QED BY <1>2, <1>3

\* The end of the messages: no client found expired at the last tick is left
\* in a session, its disconnection has been read.
LEMMA PumpInv ==
  ASSUME IInv, PumpDone
  PROVE  IInv'
<1> TypeOK /\ QueueInv /\ OneClient /\ CountedInTable /\ LateGone
  BY DEF IInv
<1>1. /\ queue = <<>> /\ phase' = "timers" /\ todo' \subseteq Client
      /\ UNCHANGED <<socket, sent, kicks, closing, queue, con, timer, pings,
                     conSession, table, sclient, lifetime, late>>
  BY DEF PumpDone, netVars, conVars, sessVars
<1>2. TypeOK'
  BY <1>1 DEF TypeOK
<1>3. QueueInv'
  BY <1>1, FrameQueue
<1>4. (OneClient /\ CountedInTable)'
  BY <1>1 DEF OneClient, CountedInTable
<1>5. ASSUME NEW s \in Session, sclient[s] \in late PROVE FALSE
  <2>1. PICK c \in Client : c = sclient[s]
    BY <1>5 DEF TypeOK
  <2>2. con[c] = "connected" /\ socket[c] = "closed"
    BY <1>5, <2>1 DEF OneClient, LateGone
  <2>3. Queued(c, "disconnected")
    BY <2>2 DEF QueueInv, Closing
  <2>4. DOMAIN queue = {}
    BY <1>1
  <2> QED BY <2>3, <2>4 DEF Queued
<1>6. LateGone'
  BY <1>1, <1>5 DEF LateGone, Queued
<1> QED BY <1>2, <1>3, <1>4, <1>6 DEF IInv

LEMMA SessionLoopInv ==
  ASSUME IInv, SessionLoop
  PROVE  IInv'
<1> TypeOK /\ QueueInv /\ OneClient /\ CountedInTable
  BY DEF IInv
<1>1. /\ phase' = "sleep" /\ late' \subseteq Client
      /\ late' = {c \in Client : socket[c] = "closed" /\ \E s \in Session : sclient[s] = c}
      /\ table' = [i \in SessionId |-> IF i \in Erased THEN None ELSE table[i]]
      /\ lifetime' = [s \in Session |->
                        IF \E i \in Lost \ Erased : table[i] = s
                        THEN lifetime[s] - 1 ELSE UserLifetime]
      /\ UNCHANGED <<socket, sent, kicks, closing, queue, todo, con, timer,
                     pings, conSession, sclient>>
  BY DEF SessionLoop, netVars, conVars
<1>2. \A s \in Session :
        (\E i \in Lost \ Erased : table[i] = s) => lifetime[s] - 1 \in 1 .. UserLifetime
  BY ConnectionsAssumption DEF TypeOK, Lost, Erased
<1>3. UserLifetime \in 1 .. UserLifetime
  BY ConnectionsAssumption
<1>4. lifetime' \in [Session -> 1 .. UserLifetime] /\ table' \in [SessionId -> Session \cup {None}]
  BY <1>1, <1>2, <1>3 DEF TypeOK
<1>5. TypeOK'
  BY <1>1, <1>4 DEF TypeOK
<1>6. QueueInv'
  BY <1>1, FrameQueue
<1>7. OneClient'
  BY <1>1 DEF OneClient
<1>8. CountedInTable'
  <2> SUFFICES ASSUME NEW s \in Session, \A i \in SessionId : table'[i] # s
               PROVE  lifetime'[s] = UserLifetime
    BY DEF CountedInTable
  <2>1. ~ \E i \in Lost \ Erased : table[i] = s
    BY <1>1 DEF Lost
  <2> QED BY <1>1, <2>1
<1>9. LateGone'
  <2>1. ASSUME NEW c \in late'
        PROVE  socket[c] = "closed" /\ con[c] # "not_validated" /\ ~Queued(c, "connected")
    <3>1. c \in Client /\ socket[c] = "closed" /\ con[c] = "connected"
      BY <1>1, <2>1 DEF OneClient
    <3> QED BY <3>1 DEF QueueInv, Announced
  <2>2. \A c, m : Queued(c, m)' <=> Queued(c, m)
    BY <1>1 DEF Queued
  <2> QED BY <1>1, <2>1, <2>2 DEF LateGone
<1> QED BY <1>5, <1>6, <1>7, <1>8, <1>9 DEF IInv

\* Steps that only move phase, todo, closing or the deferred closures.
LEMMA PhaseInv ==
  ASSUME IInv, phase' # "timers" \/ UNCHANGED phase,
         UNCHANGED <<socket, sent, queue, conVars, sessVars, late>>,
         /\ kicks' \subseteq kicks /\ closing' \in BOOLEAN /\ todo' \subseteq Client
         /\ phase' \in {"sleep", "pump", "timers", "stopping", "stopped"}
  PROVE  IInv'
<1> USE DEF conVars, sessVars
<1> TypeOK /\ QueueInv /\ OneClient /\ CountedInTable /\ LateGone
  BY DEF IInv
<1>1. TypeOK'
  BY DEF TypeOK
<1>2. QueueInv'
  BY FrameQueue
<1>3. (OneClient /\ CountedInTable)'
  BY DEF OneClient, CountedInTable
<1>4. LateGone'
  BY DEF LateGone, Queued
<1> QED BY <1>1, <1>2, <1>3, <1>4 DEF IInv

(***************************************************************************)
(* Steps of the network's thread.                                          *)
(***************************************************************************)

LEMMA NetworkInv ==
  ASSUME IInv, NEW c \in Client, NEW m \in Message, Emplace(c, m),
         UNCHANGED <<closing, phase, todo, conVars, sessVars, late>>,
         kicks' \subseteq kicks, sent' \in [Client -> 0 .. MaxSent],
         \/ /\ socket[c] = "new" /\ socket' = [socket EXCEPT ![c] = "open"]
            /\ m = "connected"
         \/ /\ socket[c] = "open" /\ socket' = socket
            /\ m \notin {"connected", "disconnected"}
         \/ /\ socket[c] = "open" /\ socket' = [socket EXCEPT ![c] = "closed"]
            /\ m = "disconnected"
  PROVE  IInv'
<1> USE DEF conVars, sessVars
<1> TypeOK /\ QueueInv /\ OneClient /\ CountedInTable /\ LateGone
  BY DEF IInv
<1>1. /\ \A d \in Client \ {c} : socket'[d] = socket[d]
      /\ socket' \in [Client -> {"new", "open", "closed"}]
      /\ \/ socket[c] = "new" /\ socket'[c] = "open" /\ m = "connected"
         \/ socket[c] = "open" /\ socket'[c] = "open" /\ m \notin {"connected", "disconnected"}
         \/ socket[c] = "open" /\ socket'[c] = "closed" /\ m = "disconnected"
  BY DEF TypeOK
<1>2. TypeOK'
  BY <1>1, EmplaceQueue DEF TypeOK
<1>3. QueueInv'
  BY <1>1, EmplaceInv
<1>4. (OneClient /\ CountedInTable)'
  BY DEF OneClient, CountedInTable
<1>5. LateGone'
  <2>1. \A d, t : Queued(d, t)' => Queued(d, t) \/ (d = c /\ t = m)
    <3>1. \A i \in DOMAIN queue' : i = Len(queue) + 1 \/ i \in DOMAIN queue
      BY EmplaceQueue, QueueType
    <3> QED BY <3>1, EmplaceQueue DEF Queued
  <2>2. c \notin late
    BY <1>1 DEF LateGone
  <2>3. late \subseteq Client
    BY DEF TypeOK
  <2> QED BY <1>1, <2>1, <2>2, <2>3 DEF LateGone
<1> QED BY <1>2, <1>3, <1>4, <1>5 DEF IInv

(***************************************************************************)
(* The invariant.                                                          *)
(***************************************************************************)

LEMMA InitInv == Init => IInv
<1> SUFFICES ASSUME Init PROVE IInv
  OBVIOUS
<1> USE DEF Init
<1>1. queue \in Seq(Client \X Message) /\ DOMAIN queue = {}
  BY EmptySeq
<1>2. TypeOK
  <2>1. UserLifetime \in 1 .. UserLifetime /\ 0 \in 0 .. MaxSent
    BY ConnectionsAssumption
  <2> QED BY <1>1, <2>1, Zeros DEF TypeOK
<1>3. QueueInv
  BY <1>1 DEF QueueInv, Ordered, Announced, Closing, Queued
<1>4. OneClient /\ LateGone /\ CountedInTable
  BY ConnectionsAssumption DEF OneClient, LateGone, CountedInTable
<1> QED BY <1>2, <1>3, <1>4 DEF IInv

LEMMA NetworkStepInv ==
  ASSUME IInv, Network
  PROVE  IInv'
<1>1. ASSUME NEW c \in Client, Open(c) PROVE IInv'
  <2>1. "connected" \in Message
    BY DEF Message, Tag
  <2> QED BY <1>1, <2>1, NetworkInv DEF Open, IInv, TypeOK
<1>2. ASSUME NEW c \in Client, NEW m \in Message \ {"connected", "disconnected"},
             Receive(c, m)
      PROVE  IInv'
  <2>1. sent' \in [Client -> 0 .. MaxSent]
    <3>1. sent[c] + 1 \in 0 .. MaxSent
      BY <1>2, ConnectionsAssumption DEF Receive, IInv, TypeOK
    <3> QED BY <1>2, <3>1 DEF Receive, IInv, TypeOK
  <2> QED BY <1>2, <2>1, NetworkInv DEF Receive
<1>3. ASSUME NEW c \in Client, Close(c) PROVE IInv'
  <2>1. "disconnected" \in Message
    BY DEF Message, Tag
  <2> QED BY <1>3, <2>1, NetworkInv DEF Close, CloseNow, IInv, TypeOK
<1>4. ASSUME NEW c \in Client, DeferredKick(c) PROVE IInv'
  <2>1. "disconnected" \in Message
    BY DEF Message, Tag
  <2>2. CASE CloseNow(c)
    BY <1>4, <2>1, <2>2, NetworkInv DEF DeferredKick, CloseNow, IInv, TypeOK
  <2>3. CASE UNCHANGED <<socket, queue>>
    BY <1>4, <2>3, PhaseInv DEF DeferredKick, IInv, TypeOK
  <2> QED BY <1>4, <2>2, <2>3 DEF DeferredKick
<1>5. CASE DeferredClose
  BY <1>5, PhaseInv DEF DeferredClose, IInv, TypeOK
<1> QED BY <1>1, <1>2, <1>3, <1>4, <1>5 DEF Network

LEMMA StepInv ==
  ASSUME IInv, [Next]_vars
  PROVE  IInv'
<1>1. CASE Wake \/ Stopped
  BY <1>1, PhaseInv DEF Wake, Stopped, netVars, IInv, TypeOK
<1>2. CASE Stop
  BY <1>2, PhaseInv DEF Stop, netVars, IInv, TypeOK
<1>3. ASSUME NEW c \in Client, StopKick(c) PROVE IInv'
  BY <1>3, KickStepInv DEF StopKick
<1>4. ASSUME NEW c \in Client, TickTimer(c) PROVE IInv'
  BY <1>4, TimerInv
<1>5. CASE UNCHANGED vars
  BY <1>5, PhaseInv DEF vars, netVars, IInv, TypeOK
<1> QED BY <1>1, <1>2, <1>3, <1>4, <1>5, NetworkStepInv, MessageInv, PumpInv,
           SessionLoopInv DEF Next, Main

LEMMA Inductive == Spec => []IInv
<1>1. Init => IInv
  BY InitInv
<1>2. IInv /\ [Next]_vars => IInv'
  BY StepInv
<1> QED BY <1>1, <1>2, PTL DEF Spec

\* The sockets, the queue, m_connections and m_sessions have the types of
\* TypeOK; the timers and the count of pings stay within their limits.
THEOREM TypeCorrect == Spec => []TypeOK
<1>1. IInv => TypeOK
  BY DEF IInv
<1> QED BY <1>1, Inductive, PTL

\* on_message and on_disconnect never see a client m_connections does not
\* hold, and on_connect never one it does, in every interleaving of the
\* network's thread with the main thread.
THEOREM ClientsKnown == Spec => []MessagesKnown
<1>1. IInv => MessagesKnown
  BY HeadKnown DEF IInv
<1> QED BY <1>1, Inductive, PTL

\* A connected client and its session point to each other: a session that
\* was taken over by another client is not lost with the first one.
THEOREM ClientAndSession == Spec => []OneClient
<1>1. IInv => OneClient
  BY DEF IInv
<1> QED BY <1>1, Inductive, PTL

(***************************************************************************)
(* The refinement of SessionLifecycle.                                     *)
(***************************************************************************)

Live == {table[i] : i \in SessionId} \ {None}

\* The mapping of session->client.
States == [s \in Session |->
             IF sclient[s] = None THEN "reset"
             ELSE IF socket[sclient[s]] = "open" THEN "open"
             ELSE IF sclient[s] \in late THEN "stale" ELSE "closed"]

Stutters == UNCHANGED <<Live, States, lifetime>>

\* A session's connection ends: the abstract Detach, or nothing.
LEMMA LosesClient ==
  ASSUME IInv, NEW c \in Client, UNCHANGED <<table, lifetime, socket, late>>,
         sclient' \in [Session -> Client \cup {None}],
         \A s \in Session : sclient'[s] = IF sclient[s] = c THEN None ELSE sclient[s]
  PROVE  Stutters \/ \E s \in Session : Lifecycle!Detach(s)
<1> TypeOK /\ OneClient
  BY DEF IInv
<1>1. Live' = Live
  BY DEF Live
<1>2. CASE \E s \in Session : sclient[s] = c
  <2>1. PICK s \in Session : sclient[s] = c
    BY <1>2
  <2>2. \A t \in Session : t # s => sclient[t] # c
    BY <2>1 DEF OneClient
  <2>3. c # None
    BY ConnectionsAssumption
  <2>4. sclient'[s] = None /\ \A t \in Session : t # s => sclient'[t] = sclient[t]
    BY <2>1, <2>2
  <2>5. States[s] # "reset"
    BY <2>1, <2>3 DEF States
  <2>6. States' = [States EXCEPT ![s] = "reset"]
    <3>1. \A t \in Session : States'[t] = IF t = s THEN "reset" ELSE States[t]
      BY <2>4 DEF States
    <3>2. States' = [t \in Session |-> States'[t]] /\ States = [t \in Session |-> States[t]]
      BY DEF States
    <3> QED BY <3>1, <3>2
  <2>7. Lifecycle!Detach(s)
    BY <1>1, <2>5, <2>6 DEF Lifecycle!Detach, Live, States
  <2> QED BY <2>7
<1>3. CASE \A s \in Session : sclient[s] # c
  <2>1. \A s \in Session : sclient'[s] = sclient[s]
    BY <1>3
  <2>2. States' = States
    BY <2>1 DEF States
  <2> QED BY <1>1, <2>2 DEF Stutters
<1> QED BY <1>2, <1>3

\* A client gets a session, new or not: the abstract Attach.
LEMMA GetsClient ==
  ASSUME IInv, NEW c \in Client, NEW s \in Session, con[c] = "not_validated",
         Live' = Live \cup {s}, s \in Live \/ sclient[s] = None,
         sclient' = [sclient EXCEPT ![s] = c],
         UNCHANGED <<lifetime, socket, late>>
  PROVE  Lifecycle!Attach(s)
<1> TypeOK /\ LateGone
  BY DEF IInv
<1>1. c \notin late /\ c # None
  BY ConnectionsAssumption DEF LateGone
<1>2. sclient'[s] = c /\ \A t \in Session : t # s => sclient'[t] = sclient[t]
  BY DEF TypeOK
<1>3. States'[s] \in {"open", "closed"}
  BY <1>1, <1>2 DEF States
<1>4. States' = [States EXCEPT ![s] = States'[s]]
  <2>1. \A t \in Session : t # s => States'[t] = States[t]
    BY <1>2 DEF States
  <2>2. States' = [t \in Session |-> States'[t]] /\ States = [t \in Session |-> States[t]]
    BY DEF States
  <2> QED BY <2>1, <2>2
<1>5. sclient[s] = None => States[s] = "reset"
  BY DEF States
<1>6. \E state \in {"open", "closed"} : States' = [States EXCEPT ![s] = state]
  BY <1>3, <1>4
<1> QED BY <1>5, <1>6 DEF Lifecycle!Attach, Live, States

\* A socket closes under a session: the abstract CloseSocket, or nothing.
LEMMA SocketGone ==
  ASSUME IInv, NEW c \in Client, socket[c] = "open",
         socket' = [socket EXCEPT ![c] = "closed"],
         UNCHANGED <<table, sclient, lifetime, late>>
  PROVE  Stutters \/ \E s \in Session : Lifecycle!CloseSocket(s)
<1> TypeOK /\ OneClient /\ LateGone
  BY DEF IInv
<1>1. Live' = Live
  BY DEF Live
<1>2. socket'[c] = "closed" /\ c \notin late /\ c # None
      /\ \A d \in Client : d # c => socket'[d] = socket[d]
  BY ConnectionsAssumption DEF TypeOK, LateGone
<1>3. \A t \in Session : sclient[t] \in Client \cup {None}
  BY DEF TypeOK
<1>4. \A t \in Session : sclient[t] # c => States'[t] = States[t]
  BY <1>2, <1>3 DEF States
<1>5. States' = [t \in Session |-> States'[t]] /\ States = [t \in Session |-> States[t]]
  BY DEF States
<1>6. CASE \E s \in Session : sclient[s] = c
  <2>1. PICK s \in Session : sclient[s] = c
    BY <1>6
  <2>2. \A t \in Session : t # s => sclient[t] # c
    BY <2>1 DEF OneClient
  <2>3. States[s] = "open" /\ States'[s] = "closed"
    BY <2>1, <1>2 DEF States
  <2>4. States' = [States EXCEPT ![s] = "closed"]
    BY <2>2, <2>3, <1>4, <1>5
  <2>5. Lifecycle!CloseSocket(s)
    BY <1>1, <2>3, <2>4 DEF Lifecycle!CloseSocket, Live, States
  <2> QED BY <2>5
<1>7. CASE \A s \in Session : sclient[s] # c
  <2>1. States' = States
    BY <1>4, <1>5, <1>7
  <2> QED BY <1>1, <2>1 DEF Stutters
<1> QED BY <1>6, <1>7

\* The loop over m_sessions: the abstract tick.
LEMMA LoopTicks ==
  ASSUME IInv, SessionLoop
  PROVE  Lifecycle!SessionTick
<1> TypeOK /\ OneClient /\ LateGone /\ QueueInv
  BY DEF IInv
<1>1. /\ phase = "timers"
      /\ table' = [i \in SessionId |-> IF i \in Erased THEN None ELSE table[i]]
      /\ lifetime' = [s \in Session |->
                        IF \E i \in Lost \ Erased : table[i] = s
                        THEN lifetime[s] - 1 ELSE UserLifetime]
      /\ late' = {c \in Client : socket[c] = "closed" /\ \E s \in Session : sclient[s] = c}
      /\ UNCHANGED <<socket, sclient>>
  BY DEF SessionLoop, netVars
<1>2. ASSUME NEW s \in Session
      PROVE  /\ States[s] # "stale"
             /\ States'[s] = IF States[s] = "closed" THEN "stale" ELSE States[s]
             /\ States[s] # "open" <=> Expired(s)
  <2>1. sclient[s] \notin late
    BY <1>1 DEF LateGone
  <2>2. sclient[s] # None => sclient[s] \in Client /\ socket[sclient[s]] \in {"open", "closed"}
    <3>1. CASE sclient[s] # None
      <4>1. PICK c \in Client : c = sclient[s]
        BY <3>1 DEF TypeOK
      <4>2. con[c] # "none"
        BY <4>1 DEF OneClient
      <4>3. socket[c] # "new"
        BY <4>2 DEF QueueInv, Closing
      <4> QED BY <4>1, <4>3 DEF TypeOK
    <3> QED BY <3>1
  <2>3. sclient[s] # None /\ socket[sclient[s]] = "closed" => sclient[s] \in late'
    BY <1>1, <2>2
  <2> QED BY <1>1, <2>1, <2>2, <2>3 DEF States, Expired
<1>3. States' = [s \in Session |-> IF States[s] = "closed" THEN "stale" ELSE States[s]]
  <2>1. States' = [s \in Session |-> States'[s]]
    BY DEF States
  <2> QED BY <1>2, <2>1
<1>4. None \notin Session
  BY ConnectionsAssumption
<1>5. Live \subseteq Session /\ \A s \in Session : s \in Live <=> \E i \in SessionId : table[i] = s
  BY <1>4 DEF Live, TypeOK
<1>6. \A i \in SessionId :
        i \in Erased <=> table[i] \in Session /\ Expired(table[i]) /\ lifetime[table[i]] <= 1
  BY <1>4 DEF Erased, Lost, TypeOK
<1>7. ASSUME NEW s \in Session
      PROVE  s \in Live' <=> s \in Live /\ (~Expired(s) \/ lifetime[s] > 1)
  <2>1. s \in Live' <=> \E i \in SessionId : table'[i] = s
    BY <1>4 DEF Live
  <2>2. \A i \in SessionId : table'[i] = s <=> table[i] = s /\ i \notin Erased
    BY <1>1, <1>4
  <2>3. lifetime[s] \in Nat
    BY DEF TypeOK
  <2> QED BY <2>1, <2>2, <2>3, <1>5, <1>6
<1>8. Live' = {s \in Live : ~(States[s] # "open") \/ lifetime[s] > 1}
  <2>1. Live' \subseteq Session
    BY <1>1 DEF Live, TypeOK
  <2> QED BY <2>1, <1>2, <1>5, <1>7
<1>9. ASSUME NEW s \in Session
      PROVE  (\E i \in Lost \ Erased : table[i] = s) <=> s \in Live' /\ States[s] # "open"
  <2>1. (\E i \in Lost \ Erased : table[i] = s)
          <=> s \in Live /\ Expired(s) /\ ~(lifetime[s] <= 1)
    BY <1>4, <1>5, <1>6 DEF Lost
  <2>2. lifetime[s] \in Nat
    BY DEF TypeOK
  <2> QED BY <2>1, <2>2, <1>2, <1>7
<1>10. lifetime' = [s \in Session |->
                      IF s \in Live' /\ States[s] # "open"
                      THEN lifetime[s] - 1 ELSE UserLifetime]
  BY <1>1, <1>9
<1> QED BY <1>2, <1>3, <1>8, <1>10
        DEF Lifecycle!SessionTick, Lifecycle!Gone, Live, States

\* A message: a client gets a session, loses it, or nothing happens to one.
LEMMA MessageRefines ==
  ASSUME IInv, PopMessage
  PROVE  Stutters \/ \E s \in Session : Lifecycle!Attach(s) \/ Lifecycle!Detach(s)
<1> TypeOK /\ QueueInv /\ OneClient /\ CountedInTable
  BY DEF IInv
<1>1. /\ queue # <<>> /\ queue' = Tail(queue) /\ UNCHANGED <<socket, late>>
  BY DEF PopMessage
<1>2. PICK c \in Client, m \in Message : Head(queue) = <<c, m>>
  BY <1>1, PopQueue, QueueType
<1>3. Handle(c, m)
  BY <1>2 DEF PopMessage
<1>4. ASSUME UNCHANGED sessVars PROVE Stutters
  BY <1>1, <1>4 DEF Stutters, Live, States, sessVars
<1>5. CASE OnConnect(c)
  BY <1>4, <1>5 DEF OnConnect
<1>6. CASE OnDisconnect(c)
  BY <1>1, <1>6, Disconnected, LosesClient DEF Loosens, HandlerType
<1>7. CASE KickClient(c)
  BY <1>1, <1>7, Kick, LosesClient DEF Loosens, HandlerType
<1>8. CASE m \in SessionId /\ ConnectNew(c, m)
  <2>1. PICK s \in Session :
          /\ table[m] = None /\ table' = [table EXCEPT ![m] = s]
          /\ sclient[s] = None /\ sclient' = [sclient EXCEPT ![s] = c]
          /\ UNCHANGED lifetime /\ con[c] = "not_validated"
    BY <1>8, Created
  <2>2. \A i \in SessionId : table'[i] = IF i = m THEN s ELSE table[i]
    BY <1>8, <2>1 DEF TypeOK
  <2>3. s # None
    BY ConnectionsAssumption
  <2>4. Live' = Live \cup {s}
    BY <1>8, <2>1, <2>2, <2>3 DEF Live
  <2> QED BY <1>1, <2>1, <2>4, GetsClient
<1>9. CASE m \in SessionId /\ Reconnect(c, m)
  <2>1. PICK s \in Session : s = table[m]
    BY <1>9, Replaced
  <2>2. /\ con[c] = "not_validated" /\ sclient' = [sclient EXCEPT ![s] = c]
        /\ UNCHANGED <<table, lifetime>>
    BY <1>9, <2>1, Replaced
  <2>3. s # None
    BY ConnectionsAssumption
  <2>4. s \in Live /\ Live' = Live
    BY <1>9, <2>1, <2>2, <2>3 DEF Live
  <2> QED BY <1>1, <2>2, <2>4, GetsClient
<1>10. CASE ConnectAgain(c) \/ Pong(c) \/ UNCHANGED <<kicks, conVars, sessVars>>
  BY <1>4, <1>10 DEF ConnectAgain, Pong
<1> QED BY <1>3, <1>5, <1>6, <1>7, <1>8, <1>9, <1>10 DEF Handle, OnMessage

LEMMA StepRefines ==
  ASSUME IInv, [Next]_vars
  PROVE  Lifecycle!Next \/ Stutters
<1>1. CASE PopMessage
  BY <1>1, MessageRefines DEF Lifecycle!Next
<1>2. CASE SessionLoop
  BY <1>2, LoopTicks DEF Lifecycle!Next
<1>3. ASSUME NEW c \in Client, KickClient(c), UNCHANGED <<socket, late>>
      PROVE  Lifecycle!Next \/ Stutters
  <2>1. Stutters \/ \E s \in Session : Lifecycle!Detach(s)
    BY <1>3, Kick, LosesClient DEF Loosens, HandlerType, IInv
  <2> QED BY <2>1 DEF Lifecycle!Next
<1>4. ASSUME NEW c \in Client, CloseNow(c), UNCHANGED <<sessVars, late>>
      PROVE  Lifecycle!Next \/ Stutters
  <2>1. Stutters \/ \E s \in Session : Lifecycle!CloseSocket(s)
    BY <1>4, SocketGone DEF CloseNow, sessVars
  <2> QED BY <2>1 DEF Lifecycle!Next
<1>5. ASSUME UNCHANGED <<sessVars, socket, late>> PROVE Stutters
  BY <1>5 DEF Stutters, Live, States, sessVars
<1>6. ASSUME NEW c \in Client, Open(c) PROVE Stutters
  <2>1. con[c] = "none"
    BY <1>6 DEF Open, IInv, QueueInv, Closing
  <2>2. \A s \in Session : sclient[s] # c /\ sclient[s] \in Client \cup {None}
    BY <2>1 DEF IInv, OneClient, TypeOK
  <2>3. \A d \in Client : d # c => socket'[d] = socket[d]
    BY <1>6 DEF Open, IInv, TypeOK
  <2>4. UNCHANGED <<sessVars, late>>
    BY <1>6 DEF Open
  <2>5. \A s \in Session : sclient[s] # None => socket'[sclient[s]] = socket[sclient[s]]
    BY <2>2, <2>3
  <2>6. States' = States
    BY <2>4, <2>5 DEF States, sessVars
  <2> QED BY <2>4, <2>6 DEF Stutters, Live, sessVars
<1>7. ASSUME NEW c \in Client, NEW m, Receive(c, m) PROVE Stutters
  BY <1>5, <1>7 DEF Receive
<1>8. ASSUME NEW c \in Client, Close(c) PROVE Lifecycle!Next \/ Stutters
  BY <1>4, <1>8 DEF Close
<1>9. ASSUME NEW c \in Client, DeferredKick(c) PROVE Lifecycle!Next \/ Stutters
  BY <1>4, <1>5, <1>9 DEF DeferredKick
<1>10. ASSUME NEW c \in Client, TickTimer(c) PROVE Lifecycle!Next \/ Stutters
  BY <1>3, <1>5, <1>10 DEF TickTimer
<1>11. ASSUME NEW c \in Client, StopKick(c) PROVE Lifecycle!Next \/ Stutters
  BY <1>3, <1>11 DEF StopKick
<1>12. CASE DeferredClose \/ Wake \/ PumpDone \/ Stop \/ Stopped \/ UNCHANGED vars
  BY <1>5, <1>12 DEF DeferredClose, Wake, PumpDone, Stop, Stopped, vars, netVars
<1> QED BY <1>1, <1>2, <1>6, <1>7, <1>8, <1>9, <1>10, <1>11, <1>12
        DEF Next, Network, Main

\* To the lobbies the connections of wsserver.cpp and manager.cpp look like
\* SessionLifecycle: every interleaving of the two threads is a behaviour
\* of the abstract life of a session.
THEOREM RefinesLifecycle == Spec => ImplementsLifecycle
<1>1. ASSUME Init PROVE Lifecycle!Init
  <2>1. Live = {}
    BY <1>1 DEF Init, Live
  <2>2. States = [s \in Session |-> "reset"]
    BY <1>1 DEF Init, States
  <2> QED BY <1>1, <2>1, <2>2 DEF Lifecycle!Init, Init, Live, States
<1>2. ASSUME IInv, [Next]_vars
      PROVE  [Lifecycle!Next]_<<Live, States, lifetime>>
  BY <1>2, StepRefines DEF Stutters
<1> QED BY <1>1, <1>2, Inductive, PTL
        DEF Spec, ImplementsLifecycle, Lifecycle!Spec, Live, States
=============================================================================
