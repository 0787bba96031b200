# TLA+ models of bang-server

bang-server is the server of an on-line version of the card game Bang!. One
thread (uWebSockets) owns the sockets and puts what happens on them into a
queue; a second one, the main loop, empties that queue once per tick, runs a
handler for each message, and ticks the timers, the sessions, the lobbies and
the games. This directory models the parts of it that are hard to test: what
remains true under every order of messages, lost sockets, reconnections, ticks,
cards that call each other and exceptions that leave half of a step undone.

The repository has no tests and no specification of the server; the code is
the reference, and every definition stands for the lines that `PROJECT.json`
gives it under `map`.

## 1. The system

Paths are relative to `src/src`.

| component | state | operations | how it meets the others |
|---|---|---|---|
| connections (`net/wsserver.cpp`, `utils/tsqueue.h`, `net/manager.cpp`, `net/main.cpp`) | `m_message_queue`, `m_connections` with the handshake and ping timers | open, message, close on the network's thread; `tick`, `on_connect`, `on_disconnect`, `kick_client`, `stop` on the main loop's | the queue goes one way, deferred closures the other; a `weak_ptr` tells whether a socket is still there |
| sessions and lobbies (`net/manager.cpp`, `net/lobby.*`, `net/chat_commands.cpp`) | `m_sessions`, `m_lobbies`, users and their flags, user ids, lifetimes | join, leave, kick, appoint, spectate, start, return, rejoin, options, tick | the handlers of `on_message`; a lobby owns its game |
| request queue (`game/request_queue.*`, `game/request_base.h`, `utils/stable_queue.h`) | queued requests, their timers, `m_state` | `queue_request`, `queue_action`, `pop_request`, `commit_updates`, `tick` | calls back into the cards, which call it again; asks the bots |
| event listeners (`game/event_map.*`) | the listeners, their index, the list of those to erase, the lock | add, remove, dispatch | every card with a lasting effect; dispatches nest |
| disablers (`game/disabler_map.*`) | predicates on cards | add, remove | call `on_disable` / `on_enable` of cards |
| table and flow (`game/game.cpp`, `game/game_table.cpp`, `game/player.cpp`) | players, seats, roles, hit points, flags, piles, cubes, tokens, whose turn it is | start, draw, move, damage, death, turns, victory | queues requests and actions, calls events |
| play (`game/play_verify.cpp`, `game/play_dispatch.cpp`, `game/possible_to_play.cpp`, `target_types/`) | the context of a play, prompts | `verify_and_play`, `get_all_playable_cards` | from the handler of `game_action` and from the bots |
| bots (`game/bot_ai.cpp`) | none of their own | `request_bot_play` | called by the request queue |
| updates (`game/game_net.*`, `game/game_update.h`) | the queued updates with targets and durations | add, deliver, snapshot for a client that joins | drained by the manager once per tick |
| image registry (`net/image_registry.*`) | pictures and reference counts | register, deregister, serve | both threads |
| options and expansions (`game/game_options.*`) | the options of a lobby | validate | the handlers of the lobby |
| effects (`effects/*`, one directory per expansion) | the requests, listeners and flags of each card | `on_play`, `on_equip`, `on_update`, `on_resolve`, ... | all of the above |

What is hard about it:

* **Two threads.** A socket can be destroyed between any two handlers; what the
  main thread still reads of it is in the queue, what it wants of it is deferred.
* **Three lifetimes.** A connection, the session of a user and the membership in
  a lobby end at different times, each by its own counter, and a user may come
  back at any point in between, with a new socket and the same session id.
* **Re-entrancy.** The code of a card runs inside the engine (an `on_update`, a
  listener, a timer's end) and changes the structure it is called from: it
  queues and pops requests, removes the listener that runs, dispatches events.
* **Everything is deferred.** A death, a turn or a draw! is a set of requests and
  actions in one priority queue. What is true when a thing is queued may be
  false when it runs, and the priorities (200, 100, 50, 1, 0, -1 ... -10) are the
  only thing that keeps the order right.
* **Exceptions.** A handler that throws kicks the client and leaves the game as
  it is at that moment.

What makes each component correct:

* connections: per client, messages keep their order; one session has one
  connection at most; what is silent, invalid or never identifies itself goes.
* sessions and lobbies: the session's pointer, the lobby's users and the flags
  agree; one owner; one user per player; nobody loses a seat but by leaving.
* request queue: requests leave by priority and age; the engine rests on a
  request only after it presented it; it never waits for ever.
* listeners: no iterator dangles; no dispatch misses a listener or calls a
  removed one; removed listeners go.
* flow: every living player is on turn again and again, there is one turn at a
  time, a player dies once; victory is declared when it is there; the dead hold nothing.
* cards: each is in the one pocket that it names; a client was sent the face of
  the cards it may see; an equip is in force just while a living player bears it
  and nothing silences it; lives, cubes and what is counted for a turn agree.
* effects: whatever is dropped, redirected or answered by another, no handler
  meets a card or request that is gone, and the engine comes to rest.

## 2. Modules

| module | what it models |
|---|---|
| `Connections` | sockets, the queue, `m_connections` and `m_sessions`; the actions of the two threads interleave in every way |
| `SessionLifecycle` | the life of a session as the lobbies may rely on it; `Connections` implements it |
| `GameManager` | sessions, lobbies, users: each handler of `game_manager` and the two loops of `tick()` |
| `RequestQueue` | the engine of a game, with any code in the place of the cards |
| `PriorityFifo` | what a stable priority queue promises; `RequestQueue` implements it |
| `ListenerMap` | the event listeners, with nested dispatches and exceptions |
| `TurnFlow` | turns, deaths and victory as the requests and actions they are made of |
| `Table` | the table of a game as one record, and the operations of `card`, `player` and `game_table` on it: moves, visibility, decks, flags, the queue, listeners |
| `Equips`, `Queries`, `Events` | equips, disablers and cubes; what the rules ask of the cards in force; the events and their listeners |
| `BaseCards`, `Draws` | the requests and cards of the base game; draws, checks, discards, turns |
| `Noon`, `Shadows`, `Canyon`, `Gold`, `Armed` | those of High Noon, A Fistful of Cards, Dodge City and The Bullet; of Wild West Show and Valley of Shadows; of Canyon Diablo; Gold Rush; Armed & Dangerous |
| `Targets`, `PlayVerify` | the target types with their checks; `verify_and_play` |
| `CardGame` | the state machine: the engine on the top request, and every answer and play |
| `Sheets` | what is written on the cards, from the .yml files of the sets |
| `RequestQueueProofs`, `GameManagerProofs`, `ListenerMapProofs`, `ConnectionsProofs`, `TurnFlowProofs`, `TableProofs` | the theorems about the module they are named for (section 4) |
| `TurnOrderProofs`, `TurnGhostsProofs` | those about the requests of a turn and the ghosts in `TurnFlow`; each builds on the one before |
| `MC...` | the instances TLC checks; the values are in the `.cfg` files |

How they fit together: `Connections` and `GameManager` meet in
`SessionLifecycle`. The first refines it (property `ImplementsLifecycle`); the
actions `NewSession`, `Reconnect`, `CloseSocket`, `InvalidateConnection` and the
session part of `Tick` of the second are that life, with lobbies on top of it.
That they are is a theorem (`SessionsFollowLifecycle`), so the two modules meet
there from both sides. `RequestQueue` is driven by the same tick. `TurnFlow` is a user of
`RequestQueue`: its variable `queue` is the content of that queue in the order
in which `PriorityFifo` lets it go, one action of `TurnFlow` is one turn of the
loop of `commit_updates`. `ListenerMap` is below both: in `TurnFlow` the
listeners of a card are written out where the event is called. `CardGame` looks at
the same game closer: the requests are those of the cards, the players two or
three, and the turns of many players are left to `TurnFlow`.

### Connections

The network's thread has `Open`, `Receive`, `Close` and the closures `DeferredKick`
and `DeferredClose`. The main loop is a program counter, `phase`: `sleep`, then
`pump` (`wsserver::tick`, one message per `PopMessage`), then `timers` (the loop
over `m_connections`, one connection per `TickTimer`), then `SessionLoop` and
`sleep` again; `stopping` and `stopped` are `game_manager::stop()`. A handler
runs on one thread and meets the other only in the queue, the closures and
`client.expired()`, so a handler is one action. `kick_client` makes the
connection invalid at once and defers the close; the network's own close may
come first. `late` is a history variable of the refinement, nothing reads it.

### GameManager

One action per handler. `Session` is the set of `game_session` *objects*: an
erased session stays in the users of its lobbies while a client that comes back
with its id gets a new object. The users of a lobby are a set ordered by their
ids (`uid`), which is the order of the vector. `seats` is the game as the lobby
sees it: the human players and whose user id each has. `Tick` is the rest of
`game_manager::tick` after the messages were read: sessions are counted down,
erased with what `kick_user_from_lobby` does for each, then lobbies.
`GameRejoinNoLobby` is the one handler that dereferences `session->lobby`
unchecked (section 8).

### RequestQueue

`call` says whom the engine has called: the loop of `commit_updates`, an
`on_update`, a timer's `on_finished`, the end of a turn, a bot, a player's move.
While it is one of the last five, the code of the cards runs: any sequence of
`GameQueueRequest`, `GamePopRequest`, `GameAddUpdate`, `GameOver`, ended by a
return or by `GameThrow`. This over-approximates all cards at once; what is
proved about the engine holds for each. A request carries its number (`seq`) and
the engine its counter, which starts again at 0 when the queue is empty.

### ListenerMap

`listeners` is the multimap, `mapped` the index `m_map`, `toRemove` the list of
those to erase when the lock is free. Dispatches are a stack of frames with the
iterator `cur` and the end of the range `high`; the listener that runs may add,
remove, dispatch or throw. `due` is a history variable: what the dispatch still
owes a call.

### TurnFlow

`queue` holds records `[kind, who, by]`; `Priority` gives each kind the priority
the code queues it with. One action runs the request or action on top, whole:
`on_update`, the player's answer and `on_resolve` are one step, because what a
player can do in between that moves turns or deaths is modelled as the alternatives of
the step (saved or not, missed or not, broken out or not), with one exception:
Mirage, with which one of those that a play is aimed at ends the turn. `Mirage(S)`
is that play: the players in S are hurt, another answers with Mirage, and the skip,
of priority 0, runs when all are hurt and dead but before the sheriff discards (-2)
and before the verdicts (-4). Of a player's
cards it keeps whether there are any. The games that may be started are in the constant `Games`: the
roles and the cards that change the flow, one disjunct each. `SwitchTurn` lets any card
of the scenario deck come up, `None` standing for one that does nothing to the
flow.

### CardGame

A handler of a card calls a dozen methods of `card`, `player` and `game` in a row,
so these are operators from a table to the table after the call, and the only
variable is `table`. The modules form a chain, `Table` <- `Equips` <- `Queries` <-
`Events` <- `BaseCards` <- `Draws` <- `Noon` <- `Shadows` <- `Canyon` <- `Gold` <-
`Armed` <- `Targets` <- `PlayVerify` <- `CardGame`; where the outcome is open (a
random card of a hand, the verdict of a role not known) an operator gives the set
of tables that may follow. One step is the whole of an `on_update`, a queued
action, a pick, a resolution, or a play with everything `verify_and_play` does.

What is on the cards is the constant `Sheet`, given by `Sheets`: for each name the
effects, responses, equips and modifiers of the .yml file.

* `auto_pick`, `auto_resolve`, the pass of a player who can play nothing and the
  bots give answers that a player may give too: they are no actions of their own.
* A play has one modifier at most. Two at once, which `bangmod` and Belltower
  allow, are left out. A pick of several cards, a list of cubes included, names
  them in one order.
* Roles are open: whose reward or victory a death brings is any of the outcomes.
* Timers are left to `RequestQueue`; the action `Timeout` is the one timer a card
  gives a duration by default, that of the damage.
* When deck and discards are both empty `top_of_deck` throws in the middle of a
  handler. That, with a deck of six cards, is a bound of the model: `lost` becomes
  `"dry"` and the game stops. The same holds of the shop.
* Cards that are dealt aside lie in `Away`: the spare characters Greygory Deck
  takes (exactly two), the copies Vera Custer is given, the backups of New Identity.
* `Deal` makes a table in the middle of a game, the first player about to begin a
  turn; the drafting of characters is left out.

## 3. What the runs check

Every run exhausts its state space: from 8 thousand to 2.6 million distinct
states, at most two or three minutes each.

| run | instance | properties | shows |
|---|---|---|---|
| `gm_safety` | 3 sessions, 1 lobby | `MembershipAgrees`, `OneOwner`, `SeatsAgree`, `SeatKept` | membership, ownership, spectators and players' user ids agree under every order of handlers, ticks and lost sockets |
| `gm_liveness` | 2 sessions, bots, fairness | `LostSessionEnds`, `DesertedLobbyEnds` | what nobody comes back to is removed |
| `conn_safety` | 2 sockets that use one session id, 2 messages each | `MessagesKnown`, `OneClient`, `ImplementsLifecycle` | each client's order holds across the threads, a session has one connection, and its life is the one the lobbies rely on |
| `conn_liveness` | 2 sockets, 1 message each, fairness | `HandshakeEnds`, `SilentDropped`, `InvalidRemoved`, `StopCloses` | no connection stays that should not |
| `rq_safety` | an action, a request without timer, one with a timer, one whose timer is 0; any game code | `TopPresented`, `StablePriorityOrder` | what the engine rests on, and in which order requests leave |
| `rq_liveness` | an action, a request with and one without timer, bots, fairness | `CommitEnds`, `WaitingEnds`, `TimedRequestEnds` | the engine always comes back, even if cards queue for ever |
| `listeners` | 4 listeners of 2 cards and 3 events, nesting up to 3 | `NoDanglingIterator`, `DueAhead` | listeners may change the structure they are called from |
| `flow_safety` | 3 to 5 players in these games: jail and dynamite, with 3 players and with a deputy; Gold Rush, Ghost Town and Ghost, with the jail and without; Ghost Town, Dead Man, A Fistful of Cards and Don Bell; Bone Orchard and Wild West Show, with Mirage and without; jail, Mirage, Lady Rosa and inverted rotation; jail, Lady Rosa and Gold Rush; Mirage with Ghost Town and Dead Man, with Dead Man, and with the jail and a deputy | `EliminatedOnce`, `OneTurnAtATime`, `VictoryNoticed`, `DeadHoldNothing`, `GhostsInTurn` | turns and deaths come out right whatever interrupts what |
| `flow_live` | 3 players; jail, Ghost Town, Don Bell, Mirage; fairness | `TurnsPass`, `EveryoneIsOnTurn` | turns end and come round |
| `cards_base` | tables with each card and character of the base game, Dodge City, The Bullet and Armed & Dangerous | `ViewsAgree`, `HitPointsAgree`, `EffectsAgree` | what clients know, lives and what is in force agree with the table after any plays and answers |
| `cards_scenarios` | the scenarios of High Noon, A Fistful of Cards and Wild West Show, alone and one after another, with cards of Gold Rush and Armed & Dangerous | `EffectsAgree`, `TurnLeavesNothing` | nothing outlives the turn, the card or the disabler it comes from |
| `cards_shadows` | Valley of Shadows, Canyon Diablo, Wild West Show and Gold Rush | `NothingDangling`, `EngineSettles` | requests that replace, redirect and drop each other leave no handler with nothing in its hands, and never chase each other for ever |

One run per module also checks its `TypeOK`. For every property of every run
`PROJECT.json` has a mutant: an operator of the module, marked *Mutant*, that
changes one definition as a plausible bug would, and under which the run finds
the property violated.

### Bounds, and why they are enough

* Ticks: lifetimes and timers of 1 to 3 ticks instead of minutes. The code only
  compares a counter with its limit and resets it, so one tick below, at and
  above the limit are all the cases.
* `UserIdCount` is the number of users a lobby ever had, hence bounded by the
  set of sessions. Three sessions are an owner, a successor and one who takes a
  seat over.
* `MaxSent` bounds what a client sends. It also is the assumption that the queue
  can be emptied: `wsserver::tick` drains it before anything else, and a flood
  faster than the main loop would keep it there.
* `MaxCounter`, `MaxAnimation`: the counter passes the number of requests, so
  that a reset at the wrong time overtakes; an animation can be longer than the
  limit `MaxUpdateTime` and shorter.
* `MaxStamp`, `MaxLock`: a listener can be removed and added again inside a
  dispatch inside a dispatch.
* `MaxHp` is 1, and `maxHit` players at most are hurt by one play, each once, so
  that every volley kills one, several or all. One extra turn is bought at a
  time. With 3 players the game has its own victory rules, with 4 or more the roles
  decide, 5 is the first deal with a deputy. The game with the jail, Lady Rosa and Gold
  Rush reaches the turn that comes back to the player in jail (section 8): there
  `OneTurnAtATime` is violated when `KeptApart` is dropped from it.
* The tables of `CardGame` have two or three players (a third where somebody must
  sit between two others) of one or two lives, so that each hit is either a
  wound or a death, one or two plays and up to two more turns, and a deck in which
  every suit comes up. Each card is in a hand, on a table or a character in some
  table, against opponents that can answer and ones that cannot. The effects of
  one card meet those of another where a table puts them together; all pairs
  of cards are not tried.

The runs with symmetry check no liveness. `CHECK_DEADLOCK FALSE` stands where
the system may stop: all sessions erased and the sockets used up, the process
crashed, every bounded counter at its bound.

### Fairness, and why the code justifies it

* The main loop of `main.cpp` ticks until it is stopped: weak fairness of `Tick`,
  of `Main`, of the tick of the engine. It starves only under the flood above.
* The network's loop runs what was deferred to it and tells of every socket that
  it closes: weak fairness of `DeferredKick`, `DeferredClose` and, once the server
  closes, of `Close`.
* Code of the cards returns: weak fairness of the return steps of
  `RequestQueue`; that it returns without queueing for ever is not assumed,
  `CommitEnds` shows that the limits of the loop stop it.
* `TurnFlow`: the engine runs what is queued (weak fairness, written with the
  condition `Busy` that enables it) and a player whose turn it is passes some
  time (strong fairness of `Pass`). The second is an assumption about players;
  nothing in the code bounds the time of a turn.
* `TimedRequestEnds` speaks of the time after the last move of a player or a bot,
  because each commit starts the timer of the top request again.

## 4. What is proved

The theorems hold for every value of the constants that satisfies the named
assumption of the module. Each rests on an inductive invariant, `IInv` or as
named; TLC checked each of them on the safety instances of section 3 before it was
proved. The proofs follow one pattern: `Init` implies it, a lemma per action
or group of actions keeps it, and it implies the property.

**`RequestQueueProofs`**, from `RequestAssumption` (any requests, priorities,
durations and limits):

* `TypeCorrect`: `Spec => []TypeOK`. `TypeOK` is inductive; one lemma per group of
  actions (the loop, the returns, the tick, the steps of game code).
* `ImplementsPriorityFifo`: `Spec => StablePriorityOrder`, that is, the queue of
  the code refines `PriorityFifo`. The abstract queue keeps for each request the
  set of those that came before it; the code keeps numbers from a counter that
  starts again. The mapping calls *older* what has the smaller number. The
  invariant `SeqInv` makes it work: numbers of queued requests are distinct and
  below the counter. It needs the counter to be reset only when the queue is
  empty, which is what the code does, and it is not implied by `TypeOK`.
* `RestsPresented`: `Spec => []TopPresented`. Every state in which the engine rests
  and nobody threw has the top request presented. `TopPresented` alone is not
  inductive: while a commit runs nothing is presented, so `PresentedInv` adds what
  holds in the middle of the loop, after an `on_update` and in the tick.

**`GameManagerProofs`**, from `ConstantsAssumption` (any finite set of session
objects, any ids of lobbies, any limits):

* `TypeCorrect`, `Membership`, `Ownership`, `Seating` and, for steps, `SeatsStay`.
  `IInv` adds to the properties what they lean on: user ids count the users of a
  lobby and differ (`IdsDiffer`), a player's user id was given to somebody
  (`SeatsKnown`), so that the id of the next user controls nobody; players exist only
  while a game does; a lobby not made has nobody, and ids of lobbies have a greatest
  one, so that the next lobby is none of those there are. `Owned` says of the owner
  that it *is* one session; `OneOwner` counts. The
  finiteness of `Session` is used for the counter of the users only.
* `SessionsFollowLifecycle`: `Spec => Lifecycle!Spec`. With the lobbies left away,
  every handler and tick is a step of `SessionLifecycle` or none.

**`ConnectionsProofs`**, from the assumption of the module (any numbers of
sockets, session ids and messages, any limits; tags of messages are no session ids):

* `TypeCorrect`, `ClientsKnown`, `ClientAndSession`. `IInv` describes the messages of
  one client in the queue: *connected* first, *disconnected* last (`Ordered`); a
  connection exists once its *connected* was read (`Announced`); a closed socket
  has its *disconnected* in the queue until it is read (`Closing`). That is what the
  order of the two threads' steps amounts to, and none of the three properties
  implies it.
* `RefinesLifecycle`: `Spec => ImplementsLifecycle`. It needs besides that a client
  found expired in one tick has been disconnected before the session loop of the next
  (`LateGone`), and that a session outside of `m_sessions` has its full
  lifetime (`CountedInTable`).

**`ListenerMapProofs`**, from `ListenerAssumption` (any listeners, cards, priorities,
any depth of nesting):

* `TypeCorrect`, `NoneDangles`, `NoneMissed`. Inductive is `AllAhead`, of every
  dispatch on the stack: its iterators point to listeners, those that are due are in the
  index and of its type, the one that is called is due no more. `Sorted` says what is
  where: the multimap holds the index and the removed ones that wait, and none wait
  when no lock is held.

**`TurnFlowProofs`**, from `TurnFlowAssumption`: games of 3 to 8 players, any deal in
which somebody is sheriff or deputy of three and which, with more than three players,
has a sheriff and an outlaw or renegade, any cards in play, any lives. That is what
`game.cpp` deals.

* `TypeCorrect`, `DiesOnce` (`EliminatedOnce`), `NothingLeftToTheDead`
  (`DeadHoldNothing`), `WinnersAreDeclared` (`VictoryNoticed`).
* `EliminatedOnce` is about the whole queue at once. `Good` says that the queue is
  sorted, that a player who is hurt has no elimination or burial queued and no second
  hit, nor two of these, and that an elimination comes before the burial of the
  same player. Then a step that queues an elimination takes away the one request that
  could lead to another. What makes it true is the priorities: bangs of A Fistful
  of Cards (-1) run when no death (50) is under way.
* The other two speak of states in which nothing is queued. `Mourned`, `Buried`,
  `FirstLives` and `Undecided` say the same of all states: what is wrong is on its
  way to be put right. Whoever is to be eliminated has a burial and a verdict queued, a
  dead player with cards a burial, a dead first player and a game that is decided
  a verdict. The rest of `IInv` (`Seated`, `LargeRoles`, `ShowIsLast`,
  `Fresh`) ties seats, roles and the one-sided victory of Wild West Show to this.

**`TurnOrderProofs`**, from the same assumption and on top of `IInv`:

* `OneTurn`: `Spec => []OneTurnAtATime`. `Turning` describes the requests of a turn: at
  most one step (`pre_turn`, `predraw`, `jail`, `pass`, `end_turn` and so on) is queued
  and it is the playing player's (`Single`); a draw is on top and of the player on
  turn (`DrawFirst`). To follow that through an insertion into the queue, `Traced`
  says where each request of the new queue was in the old one.
* The last part of the property, that a draw waits for no check of its turn, is about games
  without the jail or without Lady Rosa (`KeptApart`). There `Turning(TRUE)` holds, which
  adds `Starts`: a draw excludes all steps, and of the requests that start turns those of
  turns that were skipped come first and are dropped, the one of the turn that plays is
  last. Its induction needs that a turn lost in jail is not followed by another turn
  of the same player (`JailPasses`), and this that without Lady Rosa nobody changes seats or
  skips a turn (`Unmoved`). With both cards the code breaks it (section 8).

**`TurnGhostsProofs`**, on top of both:

* `GhostsLeaveInTime`: `Spec /\ [][SpentWhenSkipped]_vars => []OnlyInTurn`, where `OnlyInTurn`
  is `GhostsInTurn` without its condition on the cards. The invariant
  is `GhostsLeave`: a ghost is on turn under Ghost Town or has no extra turn, no
  check for one and its leaving queued (`Haunted`); a turn of a ghost that ends has an
  extra turn or a leaving queued (`EndsGhost`); leavings come before the end of
  the turn, though both have priority -5 (`EndLast`), and none is queued while cards
  must be discarded (`PassFirst`). It uses `Turning(FALSE)`: the player whose turn ends
  is the one that plays. The condition `SpentWhenSkipped` is about one step: a ghost
  whose turn is skipped has no extra turn left, and under Ghost Town no turn is skipped
  while the first player is dead and waits for the verdict.
* `GhostsLeaveWhenApart`: `Spec => []GhostsInTurn`. For the games of `GhostsApart` that
  condition follows from the cards. `Dealt`, an invariant of every game, says that
  without Ghost Town there are no ghosts, without Mirage no skips, and without Gold Rush
  and Don Bell no extra turns; and the jail's check is below the verdicts.

TLC checked `Turning`, `GhostsLeave` and `Dealt` as invariants, over games with these
cards, before they were proved.

**`TableProofs`** is about operators, not about a specification, and holds for any
table of any number of players and cards that is as follows. `IsTable`: it has the
fields. `Informed`: each client was sent the faces of the cards it may see and no others.
`IsPiled` and `InPlace`: each card lies, once, in the one pocket that `card::pocket`
and `card::owner` name. `Fits`: what only its owner sees is in a hand or was dealt to a
selection, and nothing there is face down to its owner. `Sound` is all of these.

* `ShowInforms`, `MoveInforms`, `ReshuffleInforms`: `Informed` is kept by
  `set_visibility`, `move_to` and a reshuffle, between any pockets and with any
  visibility, moves from one player's hand to another's or to the selection included.
* `HandsPrivate`: a card that comes into a hand is known to its player alone.
* `MoveKeepsPlaces`: `move_to` keeps `IsPiled` and `InPlace`. A move within the
  selection, from one player's to another's, takes the card out of a list and puts it
  back on the same one.
* `SnapshotsAgree`: in a sound table what a client that joins or comes back is sent
  (`get_spectator_join_updates`, `get_rejoin_updates`, which look at pockets and
  visibility) is what a client that watched was told one card at a time, the cards of
  the removed aside. That is the formula of `ViewsAgree`. `Fits` is needed: a card
  shown to its owner anywhere else would be told once and never again.
* `ReshuffleSound`, `DrawsSound`: a reshuffle keeps `Sound` and the cards; so does
  `draw_card(n)` for any n, with a reshuffle in between or not, and the player has n
  cards more unless deck and discards ran dry. `DrawTo` repeats a step n times with a
  fold; `DrawsOneByOne` unfolds it to a sequence of tables, with an induction that
  takes the least counterexample (`Least`, from `WFMin`).
* `QueueInOrder`: `stable_priority_queue::emplace` as the models of the cards use it
  keeps the queue sorted and puts a request behind all those of its priority or above.

All these conditions were checked as invariants of the three runs of `CardGame` before
anything was proved from them, so that the hypotheses are those of tables that occur.

**Only model-checked**, and why:

* Liveness: the provers do neither fairness nor ENABLED.
* The properties of `CardGame`. `Equips`, `Draws` and `Noon`, which it extends, have
  recursive operators (`EnableKind` and `DisableKind`, `DrawAll`, `KeepRest`), and the
  prover accepts none of them. What `TableProofs` shows is
  what each call of the handlers keeps; that every handler calls `move_to` as `Fits`
  demands (`MayPut`) is what the runs check with `ViewsAgree` and `TypeOK`.
* What the operators with `SelectSeq` return (the living players in the order of their
  seats, for one): it is built into the prover without a definition.
* `GhostsInTurn` in games outside of `GhostsApart`: there it can fail (section 8), and is
  proved under the condition on the step only.

## 5. What is left out

* `give_card`, with which a chat command of the cheats moves a card (`game/give_card.cpp`).
* Contents: names, pictures, passwords, chat, the JSON of messages, logs,
  animations and sounds. In `TurnFlow` also distances, suits and ranks: there a
  draw! is a choice. In `CardGame` a rank is an ace or not.
* `net/tracking.*`, `net/logging.*`: input and output. `config/`, `cards/`: data; what
  the runs need of it is in `Sheets`.
* The drafting of characters, the shuffles of the first deal, prompts, which only
  ask the player again, and the list of playable cards that a client is sent.
* Great Train Robbery: its train, stations and locomotive.
* The queue of updates, its delivery and durations beyond their sum.
* The image registry, whose methods each take its mutex, and the options of a
  lobby, which are independent switches.
* `utils/`: containers; the models use their mathematical counterparts, except
  `stable_queue.h` and `tsqueue.h`, which are modelled.

## 6. Hazards

`PROJECT.json` lists them with their line and the properties that watch them.
Those without a property have a note: what the plan has for them, or why the
code excludes nothing.

## 7. Plan

What is left, in this order:

1. The recursive operators of `Equips`, `Draws` and `Noon` as functions, so that
   `TableProofs` can go on to the handlers: that each keeps `Sound`.
2. `UpdateStream`: updates with targets, their delivery, users that join with a
   snapshot, leave and come back under another id. Property: what a client sees
   once all is delivered is the snapshot of the table. Composes with `Table`, whose
   `Informed` is what the stream has to keep.
3. Great Train Robbery: the train and its stations, as one more module of the chain.
4. Two modifiers of one play.

## 8. Observations

Behaviour of the code that the models follow and that a reader may not expect.

* `game_rejoin` (`net/manager.cpp:592`) dereferences `session->lobby` without the
  check of its neighbours: sent outside of a lobby it ends the process.
* A session whose socket closed may be erased while its last messages, and its
  disconnection, are still in the queue: for that time a connection holds a
  session that `m_sessions` does not: `live` of `SessionLifecycle` shrinks while the
  client is still there.
* In the state `waiting`, `tick` counts down the timer of the top request though
  nothing started it: one with lifetime 0 expires before the players saw it.
* An exception of a card leaves `m_state` as it was, and `m_lock` of the listeners
  above 0 for the rest of the game: listeners removed later stay in the map,
  inactive.
* Every commit starts the timer of the top request again.
* With Ghost Town, Gold Rush and the jail or Mirage a ghost outlives its turn: the extra
  turn it bought stays when the turn is skipped, the ghost with it, and it is used a
  round later.
* With Ghost Town and Mirage another ghost stays. In a volley that kills the first player
  Mirage skips the turn before the verdict has moved the first player on.
  If the dead one is next, Ghost Town revives it, and as its turn is still that of the first
  player the next scenario card covers Ghost Town (`highnoon/ruleset.cpp:8`,
  `game/game_table.cpp:162`), whose listener was to take the ghost away. It stays to the
  end of the game. `GhostsInTurn` is therefore stated for games that keep these cards apart
  (`GhostsApart`), and `GhostsLeaveInTime` says that there is no other way.
* In that volley the skip can also revive a victim before its own verdict, and a 3-player
  game that the killer had won by it goes on: `Winners` asks whether the victim is dead.
* A player in jail may draw for two turns in one. With three turns in a row (of Don
  Bell and Gold Rush) Lady Rosa is used twice, so that both opponents skip
  their next turn, and the player puts the jail on itself, which `equip_target: notsheriff`
  allows and `base/jail.cpp:13` only asks to confirm. When the third turn's check fails,
  `skip_turn` passes over both opponents and starts the same player's next turn while the
  second action of the lost one is still queued. That action (`game/player.cpp:287`) only
  asks whether the player is on turn: it draws, before the new turn's checks, and the new
  turn draws again. `TurnFlow` reaches it in the game with the jail, Lady Rosa and Gold Rush.
  `OneTurnAtATime` claims nothing of the draw's place in such games (`KeptApart`), and
  its proof says that there is no other way.
* `LostSessionEnds` and `DesertedLobbyEnds` are about `GameManager`, to which a session that
  was erased sends nothing more: they do not cover what is still queued for such a session.
  In `conn_liveness` a client sends one message, so a pong after the kick of a silent client
  is only met in `conn_safety`.
* A request above priority 50 that hurts a player for whom the actions of
  `handle_player_death` are queued would kill the player twice. A Fistful of Cards
  queues its bangs with priority -1, which is what `EliminatedOnce` depends on.
* Nothing limits the time of a turn, nor the rate of messages.
* Multi Vulture Sam with only black cards left to take waits for a pick that is not
  there: the request has no timer of its own.
* `request_thedaltons` waits also for a player without a blue card, and Handcuffs and
  Peyote for one that is dead or not on turn, unlike Ranch. Bandidos rests when
  the cards left in the hand cannot be discarded.
* A second barrel check uses the request that is on top when its result comes,
  whichever that is.
* A player that dies in its own turn passes it on without `on_turn_end`.
* `adjacent_players::get_error` accepts the player itself as the second target; the
  bots never choose it.
* `handler_play_as_missed::get_error` does not ask `get_play_card_error` of the card that
  is chosen; Bandolier can be used up while LeMat is equipped.
* Madam Yto draws without being asked whether she is alive. The extra characters of a
  player that is removed keep their pocket and owner.
* `move_cubes` on an orange card without owner would follow a null pointer; no table of
  the runs gets there.
* Two tumbleweeds in force would pop each other's request; there is one in the deck.
