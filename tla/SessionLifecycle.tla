-------------------------- MODULE SessionLifecycle --------------------------
(***************************************************************************)
(* What the lobbies rely on of a session: it has a client or none, the     *)
(* client's socket can be gone before the manager hears of it, and a       *)
(* session whose client is gone for UserLifetime ticks in a row is erased. *)
(* Connections implements this with sockets, a queue and timers;           *)
(* GameManager is built on it.                                             *)
(***************************************************************************)
EXTENDS Integers

CONSTANTS
  Session,
  UserLifetime

VARIABLES
  live,      \* the sessions in m_sessions
  client,    \* "open", "closed" (the socket is gone, since this tick's messages
             \*   were read), "stale" (since an earlier tick) or "reset"
  lifetime   \* session->lifetime

Gone(s) == client[s] # "open"

Init ==
  /\ live = {}
  /\ client = [s \in Session |-> "reset"]
  /\ lifetime = [s \in Session |-> UserLifetime]

\* A client connects, with a new session or with one that is still there.
Attach(s) ==
  /\ s \in live \/ client[s] = "reset"
  /\ live' = live \cup {s}
  /\ \E state \in {"open", "closed"} : client' = [client EXCEPT ![s] = state]
  /\ UNCHANGED lifetime

CloseSocket(s) ==
  /\ client[s] = "open"
  /\ client' = [client EXCEPT ![s] = "closed"]
  /\ UNCHANGED <<live, lifetime>>

Detach(s) ==
  /\ client[s] # "reset"
  /\ client' = [client EXCEPT ![s] = "reset"]
  /\ UNCHANGED <<live, lifetime>>

\* Once per tick; no disconnection waits for longer than one.
SessionTick ==
  /\ \A s \in Session : client[s] # "stale"
  /\ client' = [s \in Session |->
                  IF client[s] = "closed" THEN "stale" ELSE client[s]]
  /\ live' = {s \in live : ~Gone(s) \/ lifetime[s] > 1}
  /\ lifetime' = [s \in Session |->
                    IF s \in live' /\ Gone(s) THEN lifetime[s] - 1 ELSE UserLifetime]

Next ==
  \/ \E s \in Session : Attach(s) \/ CloseSocket(s) \/ Detach(s)
  \/ SessionTick

Spec == Init /\ [][Next]_<<live, client, lifetime>>
=============================================================================
