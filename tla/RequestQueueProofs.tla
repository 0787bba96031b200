------------------------- MODULE RequestQueueProofs -------------------------
(***************************************************************************)
(* What holds of the request queue for every set of requests, priorities,  *)
(* timers and bounds: its variables keep their types, requests leave it by *)
(* priority and in the order they came although its counter starts again,  *)
(* and the engine never rests on a request it has not presented.           *)
(***************************************************************************)
EXTENDS RequestQueue, TLAPS

(***************************************************************************)
(* Type correctness.                                                       *)
(***************************************************************************)

\* The operations of the queue keep the types of its variables.
LEMMA EmplaceType ==
  ASSUME TypeOK, NEW r \in Request, Emplace(r)
  PROVE  /\ queue' \subseteq Request
         /\ counter' \in Nat
         /\ seq' \in [Request -> Nat]
         /\ live' \subseteq queue'
         /\ lifetime' \in [Request -> Int]
BY DEF TypeOK, Emplace

LEMMA PopType ==
  ASSUME TypeOK, NEW r \in Request, Pop(r)
  PROVE  /\ queue' \subseteq Request
         /\ counter' \in Nat
         /\ seq' \in [Request -> Nat]
         /\ live' \subseteq queue'
         /\ lifetime' \in [Request -> Int]
BY DEF TypeOK, Pop, CounterAfterPop

\* The initial states have their types.
LEMMA InitType == Init => TypeOK
<1> SUFFICES ASSUME Init PROVE TypeOK
  OBVIOUS
<1>1. seq \in [Request -> Nat] /\ lifetime \in [Request -> Int]
  BY DEF Init
<1>2. counter \in Nat /\ left \in Nat /\ count \in Nat /\ updates \in Nat
  BY DEF Init
<1>3. queue \subseteq Request /\ live \subseteq queue
  BY DEF Init
<1>4. ticking \in BOOLEAN /\ over \in BOOLEAN /\ faulted \in BOOLEAN
  BY DEF Init
<1>5. state \in States /\ call \in GameCode \cup {"idle", "commit", "ready"}
      /\ current \in Request \cup {None}
  BY DEF Init, States
<1> QED BY <1>1, <1>2, <1>3, <1>4, <1>5 DEF TypeOK

\* The control variables are typed when the loop ends, when it goes on and
\* when it calls game code.
ControlType ==
  /\ state \in States
  /\ left \in Nat
  /\ call \in GameCode \cup {"idle", "commit", "ready"}
  /\ current \in Request \cup {None}
  /\ count \in Nat
  /\ ticking \in BOOLEAN
  /\ updates \in Nat
  /\ faulted \in BOOLEAN

LEMMA ReturnType ==
  ASSUME TypeOK, NEW tag \in States, NEW ticks \in Nat, Return(tag, ticks)
  PROVE  ControlType'
<1>1. ticking' \in BOOLEAN /\ faulted' \in BOOLEAN
  BY DEF Return
<1>2. state' \in States /\ left' \in Nat /\ count' \in Nat
  BY DEF Return
<1>3. call' \in GameCode \cup {"idle", "commit", "ready"}
  BY DEF Return
<1>4. current' \in Request \cup {None} /\ updates' \in Nat
  BY DEF Return, TypeOK
<1> QED BY <1>1, <1>2, <1>3, <1>4 DEF ControlType

LEMMA CallType ==
  ASSUME TypeOK, NEW code \in GameCode, NEW request \in Request \cup {None},
         CallGame(code, request), count' \in Nat, ticking' \in BOOLEAN
  PROVE  ControlType'
<1>1. faulted' \in BOOLEAN
  BY DEF CallGame, TypeOK
<1>2. /\ state' \in States /\ left' \in Nat /\ updates' \in Nat
      /\ call' \in GameCode \cup {"idle", "commit", "ready"}
      /\ current' \in Request \cup {None}
  BY DEF CallGame, TypeOK
<1> QED BY <1>1, <1>2 DEF ControlType

LEMMA BotPlayType == ASSUME TypeOK, BotPlay PROVE ControlType'
<1>1. "done" \in States /\ "bot_play" \in States /\ "bot_play" \in GameCode
  BY DEF States, GameCode
<1>2. CASE Return("done", 0)
  BY <1>1, <1>2, ReturnType
<1>3. CASE Return("bot_play", updates + BotPlayTimer)
  BY <1>1, <1>3, ReturnType, RequestAssumption DEF TypeOK
<1>4. CASE CallGame("bot_play", None) /\ UNCHANGED <<count, ticking>>
  BY <1>1, <1>4, CallType DEF TypeOK
<1> QED BY <1>2, <1>3, <1>4 DEF BotPlay, BotMove

\* One step, by the part of the engine that takes it.
LEMMA LoopType == ASSUME TypeOK, Loop PROVE TypeOK'
<1>1. CASE CommitWait
  <2>1. ControlType'
    BY <1>1, ReturnType DEF CommitWait, TypeOK, States
  <2> QED BY <1>1, <2>1 DEF CommitWait, TypeOK, ControlType, queueVars
<1>2. CASE CommitOver
  <2>1. ControlType'
    BY <1>2, ReturnType DEF CommitOver, States
  <2> QED BY <1>2, <2>1 DEF CommitOver, TypeOK, ControlType, queueVars
<1>3. ASSUME NEW r \in Request, InvokeUpdate(r) PROVE TypeOK'
  <2>1. ControlType'
    BY <1>3, CallType DEF InvokeUpdate, TypeOK, GameCode
  <2>2. CASE r \in Action
    BY <1>3, <2>1, <2>2, PopType DEF InvokeUpdate, TypeOK, ControlType
  <2>3. CASE r \notin Action
    BY <1>3, <2>1, <2>3 DEF InvokeUpdate, TypeOK, ControlType, queueVars
  <2> QED BY <2>2, <2>3
<1>4. CASE InvokeReady
  BY <1>4 DEF InvokeReady, TypeOK, queueVars
<1> QED BY <1>1, <1>2, <1>3, <1>4 DEF Loop

LEMMA ReturnsType == ASSUME TypeOK, GameReturns PROVE TypeOK'
<1>1. CASE UpdateNext
  BY <1>1 DEF UpdateNext, LoopAgain, TypeOK, States, GameCode, None
<1>2. CASE UpdateExpired
  <2>1. current \in Request
    BY <1>2 DEF UpdateExpired, IsTop, TypeOK
  <2>2. ControlType'
    BY <1>2, CallType DEF UpdateExpired, TypeOK, GameCode
  <2> QED BY <1>2, <2>1, <2>2, PopType DEF UpdateExpired, TypeOK, ControlType
<1>3. CASE UpdatePresented
  <2>1. lifetime' \in [Request -> Int] /\ live' \subseteq queue'
    BY <1>3, RequestAssumption DEF UpdatePresented, TypeOK, IsTop
  <2> QED BY <1>3, <2>1, BotPlayType DEF UpdatePresented, TypeOK, ControlType
<1>4. CASE ReadyPresented
  BY <1>4, BotPlayType DEF ReadyPresented, TypeOK, ControlType, queueVars
<1>5. CASE ReadyEndsTurn
  <2>1. ControlType'
    BY <1>5, CallType DEF ReadyEndsTurn, TypeOK, GameCode
  <2> QED BY <1>5, <2>1 DEF ReadyEndsTurn, TypeOK, ControlType, queueVars
<1>6. CASE GameNext
  BY <1>6 DEF GameNext, LoopAgain, TypeOK, States, GameCode, None, queueVars
<1>7. CASE PlayCommit
  BY <1>7 DEF PlayCommit, TypeOK, States, GameCode, None, queueVars
<1> QED BY <1>1, <1>2, <1>3, <1>4, <1>5, <1>6, <1>7 DEF GameReturns

LEMMA TickType == ASSUME TypeOK, Tick PROVE TypeOK'
<1>1. CASE TickOver
  BY <1>1 DEF TickOver, TypeOK, States, queueVars
<1>2. ASSUME NEW r \in Request, TickExpired(r) PROVE TypeOK'
  <2>1. ControlType'
    BY <1>2, CallType DEF TickExpired, GameCode
  <2> QED BY <1>2, <2>1, PopType DEF TickExpired, TypeOK, ControlType
<1>3. ASSUME TickTimer
      PROVE  /\ queue' \subseteq Request
             /\ counter' \in Nat
             /\ seq' \in [Request -> Nat]
             /\ live' \subseteq queue'
             /\ lifetime' \in [Request -> Int]
             /\ over' \in BOOLEAN
  BY <1>3 DEF TickTimer, TypeOK
<1>4. CASE TickCountdown
  BY <1>3, <1>4 DEF TickCountdown, TypeOK
<1>5. CASE TickCommit
  BY <1>3, <1>5 DEF TickCommit, TypeOK, States, GameCode
<1>6. CASE TickBotMove
  <2>1. CASE CallGame("bot_play", None)
    <3>1. ControlType'
      BY <1>6, <2>1, CallType DEF TickBotMove, TypeOK, GameCode
    <3> QED BY <1>3, <1>6, <3>1 DEF TickBotMove, TypeOK, ControlType
  <2>2. CASE ~CallGame("bot_play", None)
    BY <1>3, <1>6, <2>2 DEF TickBotMove, TypeOK, States
  <2> QED BY <2>1, <2>2
<1> QED BY <1>1, <1>2, <1>4, <1>5, <1>6 DEF Tick

LEMMA GameStepsType == ASSUME TypeOK, GameSteps PROVE TypeOK'
<1>1. ASSUME NEW r \in Request, GameQueueRequest(r) PROVE TypeOK'
  BY <1>1, EmplaceType DEF GameQueueRequest, TypeOK, loopVars
<1>2. ASSUME NEW r \in Request, GamePopRequest(r) PROVE TypeOK'
  BY <1>2, PopType DEF GamePopRequest, TypeOK, loopVars
<1>3. CASE GameAddUpdate
  BY <1>3 DEF GameAddUpdate, TypeOK, queueVars, loopVars
<1>4. CASE GameOver
  BY <1>4 DEF GameOver, TypeOK, queueVars, loopVars
<1>5. CASE GameThrow
  BY <1>5 DEF GameThrow, TypeOK, queueVars, None
<1> QED BY <1>1, <1>2, <1>3, <1>4, <1>5 DEF GameSteps

LEMMA NextType == ASSUME TypeOK, [Next]_vars PROVE TypeOK'
<1>1. CASE Play
  <2>1. ControlType'
    BY <1>1, CallType DEF Play, GameCode
  <2> QED BY <1>1, <2>1 DEF Play, TypeOK, ControlType, queueVars
<1>2. CASE UNCHANGED vars
  BY <1>2 DEF vars, queueVars, loopVars, TypeOK
<1> QED BY <1>1, <1>2, LoopType, ReturnsType, TickType, GameStepsType DEF Next

\* Every reachable state of the engine is well typed.
THEOREM TypeCorrect == Spec => []TypeOK
<1>1. Init => TypeOK
  BY InitType
<1>2. TypeOK /\ [Next]_vars => TypeOK'
  BY NextType
<1> QED BY <1>1, <1>2, PTL DEF Spec

(***************************************************************************)
(* The order in which requests leave.  The refinement needs that the       *)
(* number of a new request is above those of all that wait: the counter    *)
(* starts again only when nothing waits.                                   *)
(***************************************************************************)

\* The numbers of the waiting requests are below the counter and differ.
SeqInv ==
  /\ \A r \in queue : seq[r] < counter
  /\ \A q, r \in queue : q # r => seq[q] # seq[r]

LEMMA InitSeq == Init => SeqInv
BY DEF Init, SeqInv

LEMMA EmplaceSeq ==
  ASSUME TypeOK, SeqInv, NEW r \in Request, r \notin queue, Emplace(r)
  PROVE  SeqInv'
<1>1. seq'[r] = counter /\ \A q \in queue : seq'[q] = seq[q]
  BY DEF Emplace, TypeOK
<1>2. counter \in Nat /\ \A q \in queue : seq[q] \in Nat
  BY DEF TypeOK
<1>3. queue' = queue \cup {r} /\ counter' = counter + 1
  BY DEF Emplace
<1> QED BY <1>1, <1>2, <1>3 DEF SeqInv

LEMMA PopSeq ==
  ASSUME TypeOK, SeqInv, NEW r \in Request, Pop(r)
  PROVE  SeqInv'
<1>1. queue' = queue \ {r} /\ \A q \in queue' : seq'[q] = seq[q]
  BY DEF Pop, TypeOK
<1>2. queue' = {} \/ counter' = counter
  BY DEF Pop, CounterAfterPop
<1> QED BY <1>1, <1>2 DEF SeqInv

\* Every step is one emplace of a request that is not in the queue, one pop
\* of the top request, or leaves the queue as it is.
LEMMA QueueSteps ==
  ASSUME TypeOK, [Next]_vars
  PROVE  \/ \E r \in Request \ queue : Emplace(r)
         \/ \E r \in Request : IsTop(r) /\ Pop(r)
         \/ UNCHANGED <<queue, seq, counter>>
<1>1. CASE Loop
  BY <1>1 DEF Loop, CommitWait, CommitOver, InvokeUpdate, InvokeReady, queueVars
<1>2. CASE GameReturns
  <2>1. CASE UpdateExpired
    BY <2>1 DEF UpdateExpired, IsTop, TypeOK
  <2> QED BY <1>2, <2>1 DEF GameReturns, UpdateNext, UpdatePresented,
          ReadyPresented, ReadyEndsTurn, GameNext, PlayCommit, queueVars
<1>3. CASE Tick
  BY <1>3 DEF Tick, TickOver, TickExpired, TimerExpires, TickCountdown,
              TickCommit, TickBotMove, TickTimer, queueVars
<1>4. CASE Play
  BY <1>4 DEF Play, queueVars
<1>5. CASE GameSteps
  BY <1>5 DEF GameSteps, GameQueueRequest, GamePopRequest, GameAddUpdate,
              GameOver, GameThrow, queueVars
<1>6. CASE UNCHANGED vars
  BY <1>6 DEF vars, queueVars
<1> QED BY <1>1, <1>2, <1>3, <1>4, <1>5, <1>6 DEF Next

LEMMA NextSeq == ASSUME TypeOK, SeqInv, [Next]_vars PROVE SeqInv'
<1>1. CASE UNCHANGED <<queue, seq, counter>>
  BY <1>1 DEF SeqInv
<1> QED BY <1>1, QueueSteps, EmplaceSeq, PopSeq

\* The older pairs of the refinement mapping.
Older == {pair \in queue \X queue : seq[pair[1]] < seq[pair[2]]}

\* An emplace is the abstract Enqueue.
LEMMA EmplaceEnqueues ==
  ASSUME TypeOK, SeqInv, NEW r \in Request \ queue, Emplace(r)
  PROVE  Abstract!Enqueue(r)
<1>1. seq'[r] = counter /\ \A q \in queue : seq'[q] = seq[q]
  BY DEF Emplace, TypeOK
<1>2. counter \in Nat /\ \A q \in queue : seq[q] \in Nat
  BY DEF TypeOK
<1>3. queue' = queue \cup {r}
  BY DEF Emplace
<1>4. ASSUME NEW p, NEW q
      PROVE  <<p, q>> \in Older' <=> <<p, q>> \in Older \cup (queue \X {r})
  <2>1. CASE q = r
    BY <1>1, <1>2, <1>3, <2>1 DEF Older, SeqInv
  <2>2. CASE q # r
    BY <1>1, <1>2, <1>3, <2>2 DEF Older, SeqInv
  <2> QED BY <2>1, <2>2
<1>5. /\ \A pair \in Older' : pair = <<pair[1], pair[2]>>
      /\ \A pair \in Older \cup (queue \X {r}) : pair = <<pair[1], pair[2]>>
  BY DEF Older
<1>6. Older' = Older \cup (queue \X {r})
  BY <1>4, <1>5
<1> QED BY <1>3, <1>6 DEF Abstract!Enqueue, Older

\* A pop of the top request is the abstract Dequeue.
LEMMA PopDequeues ==
  ASSUME TypeOK, SeqInv, NEW r \in Request, IsTop(r), Pop(r)
  PROVE  Abstract!Dequeue(r)
<1>1. queue' = queue \ {r} /\ \A q \in queue' : seq'[q] = seq[q]
  BY DEF Pop, TypeOK
<1>2. \A q \in queue \ {r} :
        \/ Priority[q] < Priority[r]
        \/ Priority[q] = Priority[r] /\ <<r, q>> \in Older
  BY RequestAssumption DEF IsTop, Before, Older, TypeOK
<1>3. Older' = {pair \in Older : pair[1] # r /\ pair[2] # r}
  BY <1>1 DEF Older
<1> QED BY <1>1, <1>2, <1>3 DEF Abstract!Dequeue, Older, IsTop

\* The queue of the code, whose counter starts again, implements the queue
\* that lets requests leave by priority and, within a priority, in the order
\* in which they came.
THEOREM ImplementsPriorityFifo == Spec => StablePriorityOrder
<1>1. Init => Abstract!Init
  BY DEF Init, Abstract!Init
<1>2. ASSUME TypeOK, SeqInv, [Next]_vars
      PROVE  [Abstract!Next]_<<queue, Older>>
  <2>1. CASE \E r \in Request \ queue : Emplace(r)
    BY <1>2, <2>1, EmplaceEnqueues DEF Abstract!Next
  <2>2. CASE \E r \in Request : IsTop(r) /\ Pop(r)
    BY <1>2, <2>2, PopDequeues DEF Abstract!Next
  <2>3. CASE UNCHANGED <<queue, seq, counter>>
    BY <2>3 DEF Older
  <2> QED BY <1>2, <2>1, <2>2, <2>3, QueueSteps
<1>3. TypeOK /\ SeqInv /\ [Next]_vars => TypeOK' /\ SeqInv'
  BY NextType, NextSeq
<1>4. Init => TypeOK /\ SeqInv
  BY InitType, InitSeq
<1> QED BY <1>1, <1>2, <1>3, <1>4, PTL
        DEF Spec, StablePriorityOrder, Abstract!Spec, Older

(***************************************************************************)
(* The request on top when the engine rests.  The strengthening says what  *)
(* the two calls that end in a rest rely on: send_request_status_ready     *)
(* runs with an empty queue, and an action whose code runs has left the    *)
(* queue.                                                                  *)
(***************************************************************************)

PresentedInv ==
  /\ TopPresented
  /\ call = "ready" => queue = {}
  /\ call = "on_update" /\ current \in Action => current \notin queue

\* Two requests are not both on top.
LEMMA TopUnique ==
  ASSUME TypeOK, NEW q \in Request, NEW r \in Request, IsTop(q), IsTop(r)
  PROVE  q = r
<1>1. SUFFICES ASSUME q # r PROVE FALSE
  OBVIOUS
<1>2. Before(q, r) /\ Before(r, q)
  BY <1>1 DEF IsTop
<1>3. Priority[q] \in Int /\ Priority[r] \in Int /\ seq[q] \in Nat /\ seq[r] \in Nat
  BY RequestAssumption DEF TypeOK
<1> QED BY <1>2, <1>3 DEF Before

\* The queue is read the same before and after a step that does not change it.
LEMMA TopUnchanged ==
  ASSUME UNCHANGED <<queue, seq>>, NEW r
  PROVE  IsTop(r)' <=> IsTop(r)
BY DEF IsTop, Before

\* A step that leaves the engine running, or over, or faulted, or in another
\* state than "done" and "bot_play", owes nothing to TopPresented.
LEMMA NotResting ==
  ASSUME \/ call' # "idle"
         \/ state' \notin {"done", "bot_play"}
         \/ over'
         \/ faulted'
  PROVE  TopPresented'
BY DEF TopPresented

LEMMA LoopPresented ==
  ASSUME TypeOK, PresentedInv, Loop PROVE PresentedInv'
<1>1. CASE CommitWait
  BY <1>1, NotResting DEF CommitWait, Return, PresentedInv
<1>2. CASE CommitOver
  BY <1>2, NotResting DEF CommitOver, Return, PresentedInv
<1>3. ASSUME NEW r \in Request, InvokeUpdate(r) PROVE PresentedInv'
  <2>1. call' = "on_update" /\ current' = r
    BY <1>3 DEF InvokeUpdate, CallGame
  <2>2. r \in Action => r \notin queue'
    BY <1>3 DEF InvokeUpdate, Pop
  <2> QED BY <2>1, <2>2, NotResting DEF PresentedInv
<1>4. CASE InvokeReady
  BY <1>4, NotResting DEF InvokeReady, PresentedInv, queueVars
<1> QED BY <1>1, <1>2, <1>3, <1>4 DEF Loop

\* The request whose on_update returned stays on top: it was marked live, and
\* its timer started with a positive duration.
LEMMA UpdatePresents ==
  ASSUME TypeOK, PresentedInv, UpdatePresented PROVE PresentedInv'
<1>1. call' \in {"idle", "bot_play"} /\ current' = None
  BY DEF UpdatePresented, BotPlay, BotMove, Return, CallGame
<1>2. SUFFICES TopPresented'
  BY <1>1 DEF PresentedInv
<1>3. SUFFICES ASSUME NEW r \in Request, IsTop(r)'
               PROVE  r \in live' /\ r \notin Action
                      /\ (r \in Timed => lifetime'[r] > 0)
  BY DEF TopPresented
<1>4. IsTop(r)
  BY <1>3, TopUnchanged DEF UpdatePresented
<1>5. IsTop(current) /\ current \in Request
  BY DEF UpdatePresented, IsTop, TypeOK
<1>6. r = current
  BY <1>4, <1>5, TopUnique
<1>7. r \in live' /\ r \notin Action
  BY <1>5, <1>6 DEF UpdatePresented, PresentedInv, IsTop
<1>8. ASSUME r \in Timed PROVE lifetime'[r] > 0
  <2>1. Duration[r] \in Int /\ Duration[r] > 0 /\ updates \in Nat
    BY <1>5, <1>6, <1>8, RequestAssumption DEF UpdatePresented, TypeOK
  <2>2. lifetime'[r] = Duration[r] + updates
    BY <1>5, <1>6, <1>8 DEF UpdatePresented, TypeOK
  <2> QED BY <2>1, <2>2
<1> QED BY <1>7, <1>8

LEMMA ReturnsPresented ==
  ASSUME TypeOK, PresentedInv, GameReturns PROVE PresentedInv'
<1>1. CASE UpdateNext
  BY <1>1, NotResting DEF UpdateNext, LoopAgain, PresentedInv
<1>2. CASE UpdateExpired
  BY <1>2, NotResting DEF UpdateExpired, CallGame, PresentedInv
<1>3. CASE UpdatePresented
  BY <1>3, UpdatePresents
<1>4. CASE ReadyPresented
  <2>1. queue' = {}
    BY <1>4 DEF ReadyPresented, PresentedInv, queueVars
  <2>2. TopPresented'
    BY <2>1 DEF TopPresented, IsTop
  <2> QED BY <2>1, <2>2 DEF PresentedInv
<1>5. CASE ReadyEndsTurn
  BY <1>5, NotResting DEF ReadyEndsTurn, CallGame, PresentedInv
<1>6. CASE GameNext
  BY <1>6, NotResting DEF GameNext, LoopAgain, PresentedInv
<1>7. CASE PlayCommit
  BY <1>7, NotResting DEF PlayCommit, PresentedInv
<1> QED BY <1>1, <1>2, <1>3, <1>4, <1>5, <1>6, <1>7 DEF GameReturns

\* Counting down leaves a presented request presented: its timer is stopped
\* before it reaches 0, by running out.
LEMMA CountdownPresented ==
  ASSUME TypeOK, PresentedInv, TickTimer, UNCHANGED faulted,
         call' = "idle", state' \in {"done", "bot_play"},
         state \in {"done", "bot_play"}
  PROVE  TopPresented'
<1>1. SUFFICES ASSUME ~over', ~faulted', NEW r \in Request, IsTop(r)'
               PROVE  r \in live' /\ r \notin Action
                      /\ (r \in Timed => lifetime'[r] > 0)
  BY DEF TopPresented
<1>2. IsTop(r)
  BY <1>1, TopUnchanged DEF TickTimer
<1>3. r \in live /\ r \notin Action
  BY <1>1, <1>2 DEF PresentedInv, TopPresented, TickTimer
<1>4. ASSUME r \in Timed PROVE lifetime'[r] > 0
  <2>1. lifetime[r] \in Int /\ ~(lifetime[r] <= 1)
    BY <1>2, <1>4 DEF TickTimer, TimerExpires, IsTop, TypeOK
  <2>2. lifetime'[r] = lifetime[r] - 1
    BY <1>2, <1>4 DEF TickTimer
  <2> QED BY <2>1, <2>2
<1> QED BY <1>3, <1>4 DEF TickTimer

LEMMA TickPresented ==
  ASSUME TypeOK, PresentedInv, Tick PROVE PresentedInv'
<1>1. CASE TickOver
  BY <1>1, NotResting DEF TickOver, PresentedInv
<1>2. ASSUME NEW r \in Request, TickExpired(r) PROVE PresentedInv'
  BY <1>2, NotResting DEF TickExpired, CallGame, PresentedInv
<1>3. CASE TickCountdown
  <2>1. call' = "idle" /\ state' = state
    BY <1>3 DEF TickCountdown, TickTimer
  <2>2. TopPresented'
    <3>1. CASE state \in {"done", "bot_play"}
      BY <1>3, <2>1, <3>1, CountdownPresented DEF TickCountdown
    <3>2. CASE state \notin {"done", "bot_play"}
      BY <2>1, <3>2, NotResting
    <3> QED BY <3>1, <3>2
  <2> QED BY <2>1, <2>2 DEF PresentedInv
<1>4. CASE TickCommit
  BY <1>4, NotResting DEF TickCommit, PresentedInv
<1>5. CASE TickBotMove
  <2>1. CASE call' = "bot_play"
    BY <2>1, NotResting DEF PresentedInv
  <2>2. CASE call' # "bot_play"
    <3>1. call' = "idle" /\ state' = "done" /\ state = "bot_play"
          /\ UNCHANGED faulted
      BY <1>5, <2>2 DEF TickBotMove, TickTimer, CallGame
    <3> QED BY <1>5, <3>1, CountdownPresented DEF TickBotMove, PresentedInv
  <2> QED BY <2>1, <2>2
<1> QED BY <1>1, <1>2, <1>3, <1>4, <1>5 DEF Tick

LEMMA GameStepsPresented ==
  ASSUME TypeOK, PresentedInv, GameSteps PROVE PresentedInv'
<1>1. ASSUME NEW r \in Request, GameQueueRequest(r) PROVE PresentedInv'
  <2>1. call' = call /\ call \in GameCode /\ current' = current /\ current # r
    BY <1>1 DEF GameQueueRequest, loopVars
  <2>2. queue' = queue \cup {r}
    BY <1>1 DEF GameQueueRequest, Emplace
  <2> QED BY <2>1, <2>2, NotResting DEF GameCode, PresentedInv
<1>2. ASSUME NEW r \in Request, GamePopRequest(r) PROVE PresentedInv'
  <2>1. call' = call /\ call \in GameCode /\ current' = current
    BY <1>2 DEF GamePopRequest, loopVars
  <2>2. queue' = queue \ {r}
    BY <1>2 DEF GamePopRequest, Pop
  <2> QED BY <2>1, <2>2, NotResting DEF GameCode, PresentedInv
<1>3. CASE GameAddUpdate
  BY <1>3, NotResting DEF GameAddUpdate, GameCode, PresentedInv, loopVars, queueVars
<1>4. CASE GameOver
  BY <1>4, NotResting DEF GameOver, GameCode, PresentedInv, loopVars, queueVars
<1>5. CASE GameThrow
  BY <1>5, NotResting DEF GameThrow, PresentedInv
<1> QED BY <1>1, <1>2, <1>3, <1>4, <1>5 DEF GameSteps

LEMMA NextPresented ==
  ASSUME TypeOK, PresentedInv, [Next]_vars PROVE PresentedInv'
<1>1. CASE Play
  BY <1>1, NotResting DEF Play, CallGame, PresentedInv
<1>2. CASE UNCHANGED vars
  BY <1>2 DEF vars, queueVars, loopVars, PresentedInv, TopPresented, IsTop, Before
<1> QED BY <1>1, <1>2, LoopPresented, ReturnsPresented, TickPresented,
           GameStepsPresented DEF Next

\* Whatever the cards' code does, the engine rests in "done" or "bot_play"
\* only on a request it has presented, unless that code threw.
THEOREM RestsPresented == Spec => []TopPresented
<1>1. Init => PresentedInv
  BY DEF Init, PresentedInv, TopPresented, IsTop
<1>2. TypeOK /\ PresentedInv /\ [Next]_vars => PresentedInv'
  BY NextPresented
<1>3. PresentedInv => TopPresented
  BY DEF PresentedInv
<1> QED BY <1>1, <1>2, <1>3, TypeCorrect, PTL DEF Spec
=============================================================================
