---------------------------- MODULE PriorityFifo ----------------------------
(***************************************************************************)
(* What a stable priority queue promises: an element leaves only when no   *)
(* other has a higher priority and none of its own priority came earlier.  *)
(* Nothing here counts: who came earlier is a relation on the elements.    *)
(***************************************************************************)
EXTENDS Integers

CONSTANTS
  Request,
  Priority    \* [Request -> Int]

VARIABLES
  pending,    \* the elements of the queue
  older       \* <<q, r>>: both are pending, and q came before r

Init == pending = {} /\ older = {}

Enqueue(r) ==
  /\ r \in Request \ pending
  /\ pending' = pending \cup {r}
  /\ older' = older \cup (pending \X {r})

Dequeue(r) ==
  /\ r \in pending
  /\ \A q \in pending \ {r} :
       \/ Priority[q] < Priority[r]
       \/ Priority[q] = Priority[r] /\ <<r, q>> \in older
  /\ pending' = pending \ {r}
  /\ older' = {pair \in older : pair[1] # r /\ pair[2] # r}

Next == \E r \in Request : Enqueue(r) \/ Dequeue(r)

Spec == Init /\ [][Next]_<<pending, older>>
=============================================================================
