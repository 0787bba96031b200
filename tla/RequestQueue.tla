---------------------------- MODULE RequestQueue ----------------------------
(***************************************************************************)
(* The request queue of a game, the engine every effect runs on:           *)
(* src/src/game/request_queue.h and .cpp, request_base.h and the           *)
(* stable_priority_queue of src/src/utils/stable_queue.h, driven by        *)
(* game_manager::tick and by the players' actions.                         *)
(*                                                                         *)
(* The engine calls the code of the cards: on_update of the top request,   *)
(* on_finished of a timer, the end of a turn, a bot's or a player's move.  *)
(* That code is any sequence of the steps with which it can touch the      *)
(* engine (GameQueueRequest, GamePopRequest, GameAddUpdate, GameOver) and  *)
(* ends by returning or by throwing; "call" says whom it returns to.       *)
(* While "call" is "idle" the engine is between two ticks or messages.     *)
(***************************************************************************)
EXTENDS Integers, FiniteSets

CONSTANTS
  Request,        \* the request_base objects
  Priority,       \* [Request -> Int], request_base::priority
  Action,         \* the requests that are a request_action (queue_action)
  Timed,          \* the requests whose timer() is not null
  Duration,       \* [Request -> Int], request_timer::duration
  MaxUpdateTime,  \* max_update_timer_duration, in ticks
  MaxUpdateCount, \* max_update_count
  Bots,           \* options.num_bots # 0
  BotPlayTimer,   \* options.bot_play_timer, in ticks
  MaxCounter,     \* bound of the model on m_counter
  MaxAnimation    \* bound of the model on the update time

ASSUME RequestAssumption ==
  /\ Priority \in [Request -> Int]
  /\ Duration \in [Request -> Int]
  /\ Action \subseteq Request
  /\ Timed \subseteq Request \ Action
  /\ MaxUpdateTime \in Nat
  /\ MaxUpdateCount \in Nat
  /\ Bots \in BOOLEAN
  /\ BotPlayTimer \in Nat
  /\ MaxCounter \in Nat
  /\ MaxAnimation \in Nat

VARIABLES
  queue,     \* the requests in m_requests
  seq,       \* the number each one was emplaced with (stable_element.second)
  counter,   \* m_counter
  live,      \* the requests with request_base::live
  lifetime,  \* request_timer::lifetime; 0 before start()
  state,     \* the tag of m_state
  left,      \* the ticks of m_state, 0 in "done" and "next"
  call,      \* what runs: "idle", "commit" (the loop of commit_updates),
             \*   "ready" (in send_request_status_ready) or the game code
             \*   called by the engine
  current,   \* the request whose on_update runs
  count,     \* the local count of commit_updates
  ticking,   \* the call came from game_manager::tick
  updates,   \* get_total_update_time(): the animations not delivered yet
  over,      \* is_game_over()
  faulted    \* history: game code threw, and no commit has ended since

queueVars == <<queue, seq, counter, live, lifetime>>
loopVars == <<state, left, call, current, count, ticking>>
vars == <<queueVars, loopVars, updates, over, faulted>>

States == {"done", "next", "waiting", "bot_play"}
GameCode == {"on_update", "on_finished", "end_turn", "bot_play", "play"}
None == "none"

(***************************************************************************)
(* The stable priority queue.                                              *)
(***************************************************************************)

\* stable_compare: r goes before q.
Before(r, q) ==
  \/ Priority[r] > Priority[q]
  \/ Priority[r] = Priority[q] /\ seq[r] < seq[q]

\* m_requests.top() == r
IsTop(r) == r \in queue /\ \A q \in queue \ {r} : Before(r, q)

\* emplace: the request is a new object, its timer not started.
Emplace(r) ==
  /\ queue' = queue \cup {r}
  /\ seq' = [seq EXCEPT ![r] = counter]
  /\ counter' = counter + 1
  /\ live' = live \ {r}
  /\ lifetime' = [lifetime EXCEPT ![r] = 0]

\* Mutant: the counter starts again at every pop.
CounterAfterPopZero(r) == 0

\* pop: the counter starts again only when the queue is empty.
CounterAfterPop(r) == IF queue = {r} THEN 0 ELSE counter

Pop(r) ==
  /\ queue' = queue \ {r}
  /\ counter' = CounterAfterPop(r)
  /\ seq' = [seq EXCEPT ![r] = 0]
  /\ live' = live \ {r}
  /\ lifetime' = [lifetime EXCEPT ![r] = 0]

Init ==
  /\ queue = {}
  /\ seq = [r \in Request |-> 0]
  /\ counter = 0
  /\ live = {}
  /\ lifetime = [r \in Request |-> 0]
  /\ state = "done"
  /\ left = 0
  /\ call = "idle"
  /\ current = None
  /\ count = 0
  /\ ticking = FALSE
  /\ updates = 0
  /\ over = FALSE
  /\ faulted = FALSE

(***************************************************************************)
(* Control flow of the engine.                                             *)
(***************************************************************************)

\* m_state = {tag, ticks}, and the loop of commit_updates, tick() or the
\* message handler ends.  After a tick the manager delivers every update.
Return(tag, ticks) ==
  /\ state' = tag
  /\ left' = ticks
  /\ call' = "idle"
  /\ current' = None
  /\ count' = 0
  /\ ticking' = FALSE
  /\ updates' = IF ticking THEN 0 ELSE updates
  /\ faulted' = FALSE

\* m_state = next: commit_updates goes on, or is entered from tick().
LoopAgain ==
  /\ state' = "next"
  /\ left' = 0
  /\ call' = "commit"
  /\ current' = None
  /\ UNCHANGED <<count, ticking, updates, faulted>>

CallGame(code, request) ==
  /\ call' = code
  /\ current' = request
  /\ UNCHANGED <<state, left, updates, faulted>>

\* request_bot_play(instant): a bot moves now, or none of them can move.
BotMove ==
  \/ Return("done", 0)
  \/ CallGame("bot_play", None) /\ UNCHANGED <<count, ticking>>

\* request_bot_play(false)
BotPlay ==
  \/ ~Bots /\ Return("done", 0)
  \/ Bots /\ BotPlayTimer > 0 /\ Return("bot_play", updates + BotPlayTimer)
  \/ Bots /\ BotPlayTimer = 0 /\ BotMove

(***************************************************************************)
(* commit_updates and invoke_update.                                       *)
(***************************************************************************)

\* The updates take too long or too many requests were updated.
Exhausted == updates > MaxUpdateTime \/ count > MaxUpdateCount

CommitWait ==
  /\ call = "commit"
  /\ Exhausted
  /\ Return("waiting", updates)
  /\ UNCHANGED <<queueVars, over>>

CommitOver ==
  /\ call = "commit"
  /\ ~Exhausted
  /\ over
  /\ Return("done", 0)
  /\ UNCHANGED <<queueVars, over>>

\* Mutant: the updates are not counted.
InvokeUpdateUncounted(r) ==
  /\ call = "commit"
  /\ ~Exhausted
  /\ ~over
  /\ IsTop(r)
  /\ IF r \in Action THEN Pop(r) ELSE UNCHANGED queueVars
  /\ CallGame("on_update", r)
  /\ UNCHANGED <<count, ticking, over>>

\* on_update of the top request; a request_action pops itself first.
InvokeUpdate(r) ==
  /\ call = "commit"
  /\ ~Exhausted
  /\ ~over
  /\ IsTop(r)
  /\ IF r \in Action THEN Pop(r) ELSE UNCHANGED queueVars
  /\ CallGame("on_update", r)
  /\ count' = count + 1
  /\ UNCHANGED <<ticking, over>>

\* No request: send_request_status_ready.
InvokeReady ==
  /\ call = "commit"
  /\ ~Exhausted
  /\ ~over
  /\ queue = {}
  /\ call' = "ready"
  /\ count' = count + 1
  /\ UNCHANGED <<queueVars, state, left, current, ticking, updates, over,
                 faulted>>

\* on_update returned and the request is no longer on top.
UpdateNext ==
  /\ call = "on_update"
  /\ ~IsTop(current)
  /\ live' = live \cup ({current} \cap queue)
  /\ LoopAgain
  /\ UNCHANGED <<queue, seq, counter, lifetime, over>>

\* A timer without duration is not started: it finishes at once.
UpdateExpired ==
  /\ call = "on_update"
  /\ IsTop(current)
  /\ current \in Timed
  /\ Duration[current] <= 0
  /\ Pop(current)
  /\ CallGame("on_finished", None)
  /\ UNCHANGED <<count, ticking, over>>

\* The request stays on top: its timer starts again, and the players and
\* the bots are asked.
UpdatePresented ==
  /\ call = "on_update"
  /\ IsTop(current)
  /\ current \in Timed => Duration[current] > 0
  /\ live' = live \cup {current}
  /\ lifetime' = IF current \in Timed
                 THEN [lifetime EXCEPT ![current] = Duration[current] + updates]
                 ELSE lifetime
  /\ BotPlay
  /\ UNCHANGED <<queue, seq, counter, over>>

\* The player in turn, or the bots, are asked.
ReadyPresented ==
  /\ call = "ready"
  /\ BotPlay
  /\ UNCHANGED <<queueVars, over>>

\* The player in turn is dead or can only pass: start_next_turn, pass_turn.
ReadyEndsTurn ==
  /\ call = "ready"
  /\ CallGame("end_turn", None)
  /\ UNCHANGED <<queueVars, count, ticking, over>>

\* Mutant: the loop of commit_updates ends after a timer's on_finished.
GameNextOnce ==
  /\ call \in {"on_finished", "end_turn", "bot_play"}
  /\ IF call = "on_finished" THEN Return("done", 0) ELSE LoopAgain
  /\ UNCHANGED <<queueVars, over>>

\* A timer's on_finished, the end or the pass of a turn, a bot's move: next.
GameNext ==
  /\ call \in {"on_finished", "end_turn", "bot_play"}
  /\ LoopAgain
  /\ UNCHANGED <<queueVars, over>>

(***************************************************************************)
(* tick and invoke_tick_update.                                            *)
(***************************************************************************)

TimerExpires(r) == IsTop(r) /\ r \in Timed /\ lifetime[r] <= 1

TickOver ==
  /\ call = "idle"
  /\ over
  /\ state' = "done"
  /\ left' = 0
  /\ updates' = 0
  /\ UNCHANGED <<queueVars, call, current, count, ticking, over, faulted>>

\* The timer of the top request runs out, whatever m_state is.
TickExpired(r) ==
  /\ call = "idle"
  /\ ~over
  /\ TimerExpires(r)
  /\ Pop(r)
  /\ CallGame("on_finished", None)
  /\ count' = 0
  /\ ticking' = TRUE
  /\ UNCHANGED over

\* Mutant: the timer of the top request is not ticked in the state done.
TickTimerStopped ==
  /\ call = "idle"
  /\ ~over
  /\ \A r \in queue : ~TimerExpires(r)
  /\ lifetime' = [r \in Request |-> IF IsTop(r) /\ r \in Timed /\ state # "done"
                                    THEN lifetime[r] - 1 ELSE lifetime[r]]
  /\ UNCHANGED <<queue, seq, counter, live, over>>

\* No timer runs out.
TickTimer ==
  /\ call = "idle"
  /\ ~over
  /\ \A r \in queue : ~TimerExpires(r)
  /\ lifetime' = [r \in Request |-> IF IsTop(r) /\ r \in Timed
                                    THEN lifetime[r] - 1 ELSE lifetime[r]]
  /\ UNCHANGED <<queue, seq, counter, live, over>>

\* Mutant: timer >= 0 instead of timer > 0.
TickCountdownPast ==
  /\ TickTimer
  /\ left' = IF state \in {"waiting", "bot_play"} THEN left - 1 ELSE left
  /\ updates' = 0
  /\ UNCHANGED <<state, call, current, count, ticking, faulted>>

\* Mutant: the state waiting is not counted down.
TickCountdownStuck ==
  /\ TickTimer
  /\ state = "done" \/ left > 0
  /\ left' = IF left > 0 /\ state # "waiting" THEN left - 1 ELSE left
  /\ updates' = 0
  /\ UNCHANGED <<state, call, current, count, ticking, faulted>>

\* m_state stays, counted down.
TickCountdown ==
  /\ TickTimer
  /\ state = "done" \/ left > 0
  /\ left' = IF left > 0 THEN left - 1 ELSE 0
  /\ updates' = 0
  /\ UNCHANGED <<state, call, current, count, ticking, faulted>>

\* m_state is or becomes next: commit_updates.
TickCommit ==
  /\ TickTimer
  /\ state \in {"next", "waiting"}
  /\ left = 0
  /\ state' = "next"
  /\ call' = "commit"
  /\ ticking' = TRUE
  /\ UNCHANGED <<left, current, count, updates, faulted>>

\* The bots have waited long enough: request_bot_play(true).
TickBotMove ==
  /\ TickTimer
  /\ state = "bot_play"
  /\ left = 0
  /\ \/ /\ CallGame("bot_play", None)
        /\ ticking' = TRUE
        /\ UNCHANGED count
     \/ /\ state' = "done"
        /\ updates' = 0
        /\ UNCHANGED <<left, call, current, count, ticking, faulted>>

(***************************************************************************)
(* A player's move (start_game the first one): the game code, and then     *)
(* commit_updates.  The manager refuses it while the state is waiting.     *)
(***************************************************************************)

Play ==
  /\ call = "idle"
  /\ state # "waiting"
  /\ CallGame("play", None)
  /\ count' = 0
  /\ ticking' = FALSE
  /\ UNCHANGED <<queueVars, over>>

\* The move was legal: commit_updates, whatever m_state was.
PlayCommit ==
  /\ call = "play"
  /\ call' = "commit"
  /\ UNCHANGED <<queueVars, state, left, current, count, ticking, updates, over,
                 faulted>>

(***************************************************************************)
(* What game code does to the engine while it runs.                        *)
(***************************************************************************)

GameQueueRequest(r) ==
  /\ call \in GameCode
  /\ r \notin queue \cup {current}
  /\ counter < MaxCounter
  /\ Emplace(r)
  /\ UNCHANGED <<loopVars, updates, over, faulted>>

\* pop_request takes the top request, which is not always the one the
\* calling code has in mind.
GamePopRequest(r) ==
  /\ call \in GameCode
  /\ IsTop(r)
  /\ Pop(r)
  /\ UNCHANGED <<loopVars, updates, over, faulted>>

GameAddUpdate ==
  /\ call \in GameCode
  /\ updates < MaxAnimation
  /\ updates' = updates + 1
  /\ UNCHANGED <<queueVars, loopVars, over, faulted>>

GameOver ==
  /\ call \in GameCode
  /\ ~over
  /\ over' = TRUE
  /\ UNCHANGED <<queueVars, loopVars, updates, faulted>>

\* An exception unwinds tick() or the handler: m_state keeps the value of
\* its last assignment, and the manager does not deliver the updates.
GameThrow ==
  /\ call \in GameCode
  /\ call' = "idle"
  /\ current' = None
  /\ count' = 0
  /\ ticking' = FALSE
  /\ faulted' = TRUE
  /\ UNCHANGED <<queueVars, state, left, updates, over>>

Loop ==
  \/ CommitWait
  \/ CommitOver
  \/ \E r \in Request : InvokeUpdate(r)
  \/ InvokeReady

GameReturns ==
  \/ UpdateNext
  \/ UpdateExpired
  \/ UpdatePresented
  \/ ReadyPresented
  \/ ReadyEndsTurn
  \/ GameNext
  \/ PlayCommit

Tick ==
  \/ TickOver
  \/ \E r \in Request : TickExpired(r)
  \/ TickCountdown
  \/ TickCommit
  \/ TickBotMove

GameSteps ==
  \/ \E r \in Request : GameQueueRequest(r) \/ GamePopRequest(r)
  \/ GameAddUpdate
  \/ GameOver
  \/ GameThrow

Next == Loop \/ GameReturns \/ Tick \/ Play \/ GameSteps

Spec == Init /\ [][Next]_vars

\* The main loop ticks for ever, and game code always comes back.
Fairness == WF_vars(Loop) /\ WF_vars(GameReturns) /\ WF_vars(Tick)

FairSpec == Spec /\ Fairness

(***************************************************************************)
(* Properties.                                                             *)
(***************************************************************************)

\* Every variable has its type; the numbers of the queued requests are below
\* the counter.
TypeOK ==
  /\ queue \subseteq Request
  /\ counter \in Nat
  /\ seq \in [Request -> Nat]
  /\ live \subseteq queue
  /\ lifetime \in [Request -> Int]
  /\ state \in States
  /\ left \in Nat
  /\ call \in GameCode \cup {"idle", "commit", "ready"}
  /\ current \in Request \cup {None}
  /\ count \in Nat
  /\ ticking \in BOOLEAN
  /\ updates \in Nat
  /\ over \in BOOLEAN
  /\ faulted \in BOOLEAN

\* The queue with its counter, which starts again when the queue is empty,
\* implements the queue without one: requests leave by priority and, within
\* a priority, in the order they came.
Abstract == INSTANCE PriorityFifo WITH
  pending <- queue,
  older <- {pair \in queue \X queue : seq[pair[1]] < seq[pair[2]]}

StablePriorityOrder == Abstract!Spec

\* While the engine rests in "done" or "bot_play" the request on top is one
\* the players were asked about: on_update ran on it as the top request, it
\* is not an action still to be executed, and its timer runs.  Only an
\* exception of the game code since the last complete commit excuses it.
TopPresented ==
  call = "idle" /\ state \in {"done", "bot_play"} /\ ~over /\ ~faulted =>
    \A r \in Request : IsTop(r) =>
      /\ r \in live
      /\ r \notin Action
      /\ r \in Timed => lifetime[r] > 0

\* commit_updates ends whatever the cards do: the engine always comes back
\* to the main loop, even if every on_update queues another request.
CommitEnds == call # "idle" ~> call = "idle"

\* A game does not refuse the players' moves for ever: the state waiting
\* ends, unless game code throws.
WaitingEnds == state = "waiting" ~> (state # "waiting" \/ faulted)

\* When players and bots stop playing, a request with a timer leaves the top
\* of the queue, also after exceptions, or the game is over.
TimedRequestEnds ==
  <>[](call \notin {"play", "bot_play"}) =>
    \A r \in Timed : (call = "idle" /\ IsTop(r)) ~> (~IsTop(r) \/ over)
=============================================================================
