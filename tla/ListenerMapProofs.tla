-------------------------- MODULE ListenerMapProofs --------------------------
(***************************************************************************)
(* What holds of the listeners of a game for every set of listeners, every *)
(* order of their keys and every nesting of dispatches: the iterators      *)
(* event_map keeps point to elements of the multimap, and a dispatch       *)
(* misses no listener.                                                     *)
(***************************************************************************)
EXTENDS ListenerMap, SequenceTheorems, TLAPS

(***************************************************************************)
(* The inductive invariant.                                                *)
(***************************************************************************)

\* Every element of m_listeners is active and mapped, or waits to be erased;
\* nothing waits when no lock is held.
Sorted ==
  /\ listeners = mapped \cup inactive
  /\ mapped \cap inactive = {}
  /\ toRemove = inactive
  /\ lock = 0 => inactive = {}

\* The iterators of a dispatch f, and the listeners it has to reach.
Ahead(f) ==
  /\ f.cur \in listeners \cup {End}
  /\ f.high \in listeners \cup {End}
  /\ f.due \subseteq mapped
  /\ f.calling => f.cur \notin f.due
  /\ \A l \in f.due :
       /\ Type[l] = f.type
       /\ f.cur # End /\ f.cur # f.high
       /\ l = f.cur \/ Before(f.cur, l)
       /\ f.high = End \/ Before(l, f.high)

AllAhead == \A i \in DOMAIN stack : Ahead(stack[i])

IInv == TypeOK /\ Sorted /\ AllAhead

(***************************************************************************)
(* The order and the stack.                                                *)
(***************************************************************************)

LEMMA BeforeAsymmetric ==
  ASSUME TypeOK, NEW l \in Listener, NEW m \in Listener, Before(l, m)
  PROVE  ~Before(m, l)
<1>1. /\ Type[l] \in Int /\ Type[m] \in Int /\ Prio[l] \in Int /\ Prio[m] \in Int
      /\ Card[l] \in Int /\ Card[m] \in Int /\ stamp[l] \in Nat /\ stamp[m] \in Nat
  BY ListenerAssumption DEF TypeOK
<1> QED BY <1>1 DEF Before, KeyBefore, SameKey

LEMMA FrameFields ==
  ASSUME TypeOK, NEW i \in DOMAIN stack
  PROVE  /\ stack[i] \in Frame
         /\ stack[i].type \in Int
         /\ stack[i].cur \in Listener \cup {End}
         /\ stack[i].high \in Listener \cup {End}
         /\ stack[i].calling \in BOOLEAN
         /\ stack[i].due \subseteq Listener
<1>1. stack \in Seq(Frame)
  BY DEF TypeOK
<1>2. i \in 1 .. Len(stack)
  BY <1>1, LenProperties
<1>3. stack[i] \in Frame
  BY <1>1, <1>2, ElementOfSeq
<1> QED BY <1>3 DEF Frame

\* The top is an element of a stack that is not empty.
LEMMA TopFrame ==
  ASSUME TypeOK, stack # <<>>
  PROVE  /\ Len(stack) \in Nat \ {0} /\ Len(stack) \in DOMAIN stack
         /\ DOMAIN stack = 1 .. Len(stack)
         /\ Top = stack[Len(stack)] /\ Top \in Frame
<1>1. stack \in Seq(Frame)
  BY DEF TypeOK
<1>2. Len(stack) \in Nat \ {0} /\ DOMAIN stack = 1 .. Len(stack)
  BY <1>1, LenProperties, EmptySeq
<1> QED BY <1>2, FrameFields DEF Top

\* An assignment to fields of the top leaves the other frames alone.
LEMMA TopReplaced ==
  ASSUME TypeOK, stack # <<>>, NEW f \in Frame,
         stack' = [stack EXCEPT ![Len(stack)] = f]
  PROVE  /\ stack' \in Seq(Frame) /\ Len(stack') = Len(stack)
         /\ DOMAIN stack' = DOMAIN stack
         /\ stack'[Len(stack)] = f
         /\ \A i \in DOMAIN stack : i # Len(stack) => stack'[i] = stack[i]
<1>1. stack \in Seq(Frame) /\ Len(stack) \in 1 .. Len(stack) /\ DOMAIN stack = 1 .. Len(stack)
  BY TopFrame DEF TypeOK
<1>2. stack' \in Seq(Frame) /\ Len(stack') = Len(stack)
  BY <1>1, ExceptSeq
<1>3. DOMAIN stack' = DOMAIN stack
  BY <1>1, <1>2, LenProperties
<1>4. \A i \in DOMAIN stack : stack'[i] = IF i = Len(stack) THEN f ELSE stack[i]
  BY <1>1
<1> QED BY <1>1, <1>2, <1>3, <1>4

LEMMA InitInv == Init => IInv
<1> SUFFICES ASSUME Init PROVE IInv
  OBVIOUS
<1> USE DEF Init
<1>1. stack \in Seq(Frame) /\ Len(stack) = 0 /\ DOMAIN stack = {}
  BY EmptySeq
<1>2. TypeOK
  BY <1>1 DEF TypeOK
<1> QED BY <1>1, <1>2 DEF IInv, Sorted, AllAhead

(***************************************************************************)
(* Adding and removing.                                                    *)
(***************************************************************************)

LEMMA AddInv ==
  ASSUME IInv, NEW l \in Listener, AddListener(l)
  PROVE  IInv'
<1> USE DEF AddListener
<1> TypeOK
  BY DEF IInv
<1>1. TypeOK'
  <2>1. stamps + 1 \in Nat
    BY DEF TypeOK
  <2>2. stamp' \in [Listener -> Nat]
    BY <2>1 DEF TypeOK
  <2> QED BY <2>1, <2>2 DEF TypeOK
<1>2. Sorted'
  BY DEF IInv, Sorted, TypeOK
<1>3. \A m \in listeners : m \in Listener /\ stamp'[m] = stamp[m]
  BY DEF TypeOK
<1>4. \A m, n \in listeners : Before(m, n)' <=> Before(m, n)
  BY <1>3 DEF Before
<1>5. ASSUME NEW i \in DOMAIN stack PROVE Ahead(stack[i])'
  <2>1. Ahead(stack[i]) /\ mapped \subseteq listeners
    BY DEF IInv, AllAhead, Sorted
  <2>2. \A m \in stack[i].due :
          /\ stack[i].cur # End => (Before(stack[i].cur, m)' <=> Before(stack[i].cur, m))
          /\ stack[i].high # End => (Before(m, stack[i].high)' <=> Before(m, stack[i].high))
    BY <1>4, <2>1 DEF Ahead
  <2> QED BY <2>1, <2>2 DEF Ahead
<1> QED BY <1>1, <1>2, <1>5 DEF IInv, AllAhead

LEMMA RemoveInv ==
  ASSUME IInv, NEW range \in SUBSET mapped, DoRemoveListeners(range)
  PROVE  IInv'
<1> TypeOK /\ Sorted
  BY DEF IInv
<1>1. range \ inactive = range
  BY DEF Sorted
<1>2. stack \in Seq(Frame) /\ DOMAIN stack = 1 .. Len(stack) /\ Len(stack) \in Nat
  BY LenProperties DEF TypeOK
<1>3. /\ DOMAIN stack' = DOMAIN stack
      /\ \A i \in DOMAIN stack : stack'[i] = [stack[i] EXCEPT !.due = @ \ range]
  BY DEF DoRemoveListeners
<1>4. \A i \in DOMAIN stack :
        /\ stack'[i] \in Frame
        /\ stack'[i].type = stack[i].type /\ stack'[i].cur = stack[i].cur
        /\ stack'[i].high = stack[i].high /\ stack'[i].calling = stack[i].calling
        /\ stack'[i].due = stack[i].due \ range
  BY <1>3, FrameFields DEF Frame
<1>5. stack' \in Seq(Frame) /\ Len(stack') = Len(stack)
  <2>1. stack' \in [1 .. Len(stack) -> Frame]
    BY <1>2, <1>3, <1>4 DEF DoRemoveListeners
  <2>2. stack' \in Seq(Frame)
    BY <1>2, <2>1, SeqDef
  <2>3. DOMAIN stack' = 1 .. Len(stack') /\ Len(stack') \in Nat
    BY <2>2, LenProperties
  <2> QED BY <1>2, <1>3, <2>2, <2>3
<1>6. range \subseteq Listener
  BY DEF TypeOK
<1>7. TypeOK'
  <2>1. stamp' \in [Listener -> Nat]
    BY DEF TypeOK, DoRemoveListeners, Erase
  <2> QED BY <1>5, <1>6, <2>1 DEF TypeOK, Sorted, DoRemoveListeners, Erase
<1>8. Sorted'
  <2>1. mapped' = mapped \ range /\ lock' = lock
    BY DEF DoRemoveListeners
  <2>2. CASE lock > 0
    <3>1. /\ listeners' = listeners /\ inactive' = inactive \cup range
          /\ toRemove' = toRemove \cup range
      BY <1>1, <2>2 DEF DoRemoveListeners
    <3> QED BY <2>1, <2>2, <3>1 DEF Sorted
  <2>3. CASE ~(lock > 0)
    <3>1. /\ listeners' = listeners \ range
          /\ inactive' = inactive /\ toRemove' = toRemove
      BY <1>1, <2>3 DEF DoRemoveListeners, Erase
    <3> QED BY <2>1, <3>1 DEF Sorted
  <2> QED BY <2>2, <2>3
<1>9. AllAhead'
  <2>1. CASE lock > 0
    <3>1. UNCHANGED <<listeners, stamp>> /\ mapped' = mapped \ range
      BY <2>1 DEF DoRemoveListeners
    <3>2. \A m, n : Before(m, n)' <=> Before(m, n)
      BY <3>1 DEF Before
    <3> SUFFICES ASSUME NEW i \in DOMAIN stack PROVE Ahead(stack[i])'
      BY <1>3 DEF AllAhead
    <3>3. Ahead(stack[i])
      BY DEF IInv, AllAhead
    <3> QED BY <1>4, <3>1, <3>2, <3>3 DEF Ahead
  <2>2. CASE ~(lock > 0)
    <3>1. Len(stack) = 0
      BY <1>2, <2>2 DEF TypeOK
    <3> QED BY <1>2, <1>3, <3>1 DEF AllAhead
  <2> QED BY <2>1, <2>2
<1> QED BY <1>7, <1>8, <1>9 DEF IInv

(***************************************************************************)
(* do_call_event.                                                          *)
(***************************************************************************)

\* A new dispatch reaches every active listener of its type.
LEMMA CallInv ==
  ASSUME IInv, NEW type \in Int, CallEvent(type)
  PROVE  IInv'
<1> TypeOK /\ Sorted
  BY DEF IInv
<1>1. PICK l \in listeners, high \in listeners \cup {End} :
        /\ Type[l] = type
        /\ IsFirst(l, {m \in listeners : Type[m] = type})
        /\ IsFirst(high, {m \in listeners : Type[m] > type})
        /\ stack' = Append(stack,
             [type |-> type, cur |-> l, high |-> high, calling |-> FALSE,
              due |-> {m \in listeners \ inactive : Type[m] = type}])
  BY DEF CallEvent
<1> DEFINE due == {m \in listeners \ inactive : Type[m] = type}
           f == [type |-> type, cur |-> l, high |-> high, calling |-> FALSE, due |-> due]
<1>2. /\ UNCHANGED <<listeners, stamp, stamps, inactive, mapped, toRemove>>
      /\ lock' = lock + 1
  BY DEF CallEvent
<1>3. f \in Frame
  BY DEF Frame, TypeOK
<1>4. /\ f.cur = l /\ f.high = high /\ f.due = due /\ f.calling = FALSE /\ f.type = type
      /\ stack' = Append(stack, f)
  BY <1>1
<1> HIDE DEF f, due
<1>5. stack \in Seq(Frame) /\ DOMAIN stack = 1 .. Len(stack) /\ Len(stack) \in Nat
  BY LenProperties DEF TypeOK
<1>6. /\ stack' \in Seq(Frame) /\ Len(stack') = Len(stack) + 1
      /\ DOMAIN stack' = 1 .. Len(stack) + 1
      /\ stack'[Len(stack) + 1] = f
      /\ \A i \in DOMAIN stack : stack'[i] = stack[i]
  <2>1. stack' \in Seq(Frame) /\ Len(stack') = Len(stack) + 1
    BY <1>3, <1>4, <1>5, AppendProperties
  <2>2. stack'[Len(stack) + 1] = f /\ \A i \in 1 .. Len(stack) : stack'[i] = stack[i]
    BY <1>3, <1>4, <1>5, AppendProperties
  <2>3. DOMAIN stack' = 1 .. Len(stack')
    BY <2>1, LenProperties
  <2> QED BY <1>5, <2>1, <2>2, <2>3
<1>7. TypeOK'
  <2>1. lock' \in Nat /\ Len(stack') <= lock'
    BY <1>2, <1>5, <1>6 DEF TypeOK
  <2> QED BY <1>2, <1>6, <2>1 DEF TypeOK
<1>8. Sorted'
  BY <1>2 DEF Sorted, TypeOK
<1>9. Ahead(f)
  <2>1. due \subseteq mapped /\ \A m \in due : m \in listeners /\ Type[m] = type
    BY DEF Sorted, due
  <2>2. l \in Listener /\ l # End /\ type \in Int
    BY ListenerAssumption DEF TypeOK
  <2>3. l # high
    <3>1. CASE high = End
      BY <2>2, <3>1
    <3>2. CASE high # End
      <4>1. Type[high] > type
        BY <1>1, <3>2 DEF IsFirst
      <4> QED BY <4>1, <1>1, <2>2
    <3> QED BY <3>1, <3>2
  <2>4. \A m \in due : m = l \/ Before(l, m)
    BY <1>1, <2>1 DEF IsFirst
  <2>5. ASSUME NEW m \in due, high # End PROVE Before(m, high)
    <3>1. Type[high] > type /\ high \in Listener
      BY <1>1, <2>5 DEF IsFirst, TypeOK
    <3>2. Type[m] = type /\ Type[high] \in Int
      BY <2>1, <3>1, ListenerAssumption
    <3> QED BY <3>1, <3>2 DEF Before, KeyBefore
  <2> QED BY <1>4, <2>1, <2>2, <2>3, <2>4, <2>5 DEF Ahead
<1>10. ASSUME NEW i \in DOMAIN stack' PROVE Ahead(stack'[i])
  <2>1. CASE i = Len(stack) + 1
    BY <1>6, <1>9, <2>1
  <2>2. CASE i # Len(stack) + 1
    <3>1. i \in DOMAIN stack
      BY <1>5, <1>6, <2>2
    <3> QED BY <1>6, <3>1 DEF IInv, AllAhead
  <2> QED BY <2>1, <2>2
<1>11. AllAhead'
  BY <1>2, <1>10 DEF AllAhead, Ahead, Before
<1> QED BY <1>7, <1>8, <1>11 DEF IInv

\* A step that only replaces the top by a frame whose iterators are right.
LEMMA TopInv ==
  ASSUME IInv, stack # <<>>, NEW f \in Frame, Ahead(f),
         stack' = [stack EXCEPT ![Len(stack)] = f],
         UNCHANGED <<listeners, stamp, stamps, inactive, mapped, toRemove, lock>>
  PROVE  IInv'
<1> TypeOK /\ Sorted
  BY DEF IInv
<1>1. /\ stack' \in Seq(Frame) /\ Len(stack') = Len(stack)
      /\ DOMAIN stack' = DOMAIN stack
      /\ stack'[Len(stack)] = f
      /\ \A i \in DOMAIN stack : i # Len(stack) => stack'[i] = stack[i]
  BY TopReplaced
<1>2. TypeOK' /\ Sorted'
  BY <1>1 DEF TypeOK, Sorted
<1>3. \A i \in DOMAIN stack' : Ahead(stack'[i])
  BY <1>1 DEF IInv, AllAhead
<1>4. AllAhead'
  BY <1>3 DEF AllAhead, Ahead, Before
<1> QED BY <1>2, <1>4 DEF IInv

LEMMA InvokeInv ==
  ASSUME IInv, Invoke
  PROVE  IInv'
<1> TypeOK
  BY DEF IInv
<1> DEFINE f == [Top EXCEPT !.calling = TRUE, !.due = @ \ {Top.cur}]
<1>1. stack # <<>> /\ Top = stack[Len(stack)] /\ Top \in Frame /\ Ahead(Top)
  BY TopFrame DEF Invoke, Reached, IInv, AllAhead
<1>2. /\ f \in Frame
      /\ f.type = Top.type /\ f.cur = Top.cur /\ f.high = Top.high
      /\ f.calling = TRUE /\ f.due = Top.due \ {Top.cur}
  BY <1>1 DEF Frame
<1>3. stack' = [stack EXCEPT ![Len(stack)] = f]
  BY <1>1 DEF Invoke
<1> HIDE DEF f
<1>4. Ahead(f)
  BY <1>1, <1>2 DEF Ahead
<1> QED BY <1>1, <1>2, <1>3, <1>4, TopInv DEF Invoke

\* ++cur stops at the next listener of the multimap, and a listener the
\* dispatch has to reach is not in front of that.
LEMMA AdvanceInv ==
  ASSUME IInv, stack # <<>>, Top.cur \notin Top.due, Advance,
         UNCHANGED <<listeners, stamp, stamps, inactive, mapped, toRemove, lock>>
  PROVE  IInv'
<1> TypeOK /\ Sorted
  BY DEF IInv
<1>1. PICK n \in listeners \cup {End} :
        /\ IsFirst(n, After(Top.cur))
        /\ stack' = [stack EXCEPT ![Len(stack)].cur = n, ![Len(stack)].calling = FALSE]
  BY DEF Advance
<1> DEFINE f == [Top EXCEPT !.cur = n, !.calling = FALSE]
<1>2. Top = stack[Len(stack)] /\ Top \in Frame /\ Ahead(Top)
  BY TopFrame DEF IInv, AllAhead
<1>3. /\ f \in Frame
      /\ f.type = Top.type /\ f.cur = n /\ f.high = Top.high
      /\ f.calling = FALSE /\ f.due = Top.due
  BY <1>2 DEF Frame, TypeOK
<1>4. stack' = [stack EXCEPT ![Len(stack)] = f]
  BY <1>1, <1>2
<1> HIDE DEF f
<1>5. ASSUME NEW l \in Top.due
      PROVE  /\ n # End /\ n # Top.high
             /\ l = n \/ Before(n, l)
  <2>1. l \in listeners /\ l \in Listener
    BY <1>2 DEF Ahead, Sorted, TypeOK
  <2>2. Before(Top.cur, l)
    BY <1>2 DEF Ahead
  <2>3. l \in After(Top.cur)
    BY <2>1, <2>2 DEF After
  <2>4. n \in After(Top.cur) /\ (l = n \/ Before(n, l))
    BY <1>1, <2>3 DEF IsFirst
  <2>5. n \in Listener /\ n # End
    BY <2>4, ListenerAssumption DEF After, TypeOK
  <2>6. n # Top.high
    <3>1. Top.high = End \/ Before(l, Top.high)
      BY <1>2 DEF Ahead
    <3>2. CASE Top.high = n
      <4>1. Before(l, n)
        BY <2>5, <3>1, <3>2
      <4>2. ~Before(n, l) /\ l # n
        BY <2>1, <2>5, <4>1, BeforeAsymmetric
      <4> QED BY <2>4, <4>2
    <3> QED BY <3>2
  <2> QED BY <2>4, <2>5, <2>6
<1>6. Ahead(f)
  BY <1>2, <1>3, <1>5 DEF Ahead
<1> QED BY <1>3, <1>4, <1>6, TopInv

\* The iterator is not on a listener the call has to reach.
LEMMA MoveInv ==
  ASSUME IInv, Skip \/ ListenerReturns
  PROVE  IInv'
<1>1. stack # <<>> /\ Ahead(Top)
  BY TopFrame DEF IInv, AllAhead, Skip, Reached, ListenerReturns
<1>2. Top.cur \notin Top.due
  <2>1. CASE Skip
    BY <1>1, <2>1 DEF Skip, Ahead, IInv, Sorted
  <2>2. CASE ListenerReturns
    BY <1>1, <2>2 DEF ListenerReturns, Ahead
  <2> QED BY <2>1, <2>2
<1> QED BY <1>1, <1>2, AdvanceInv DEF Skip, ListenerReturns

LEMMA FinishInv ==
  ASSUME IInv, Finish
  PROVE  IInv'
<1> TypeOK /\ Sorted
  BY DEF IInv
<1> USE DEF Finish
<1>1. /\ stack \in Seq(Frame) /\ Len(stack) \in Nat \ {0}
      /\ DOMAIN stack = 1 .. Len(stack)
  BY TopFrame DEF TypeOK
<1>2. /\ stack' \in Seq(Frame) /\ Len(stack') = Len(stack) - 1
      /\ DOMAIN stack' = 1 .. Len(stack) - 1
      /\ \A i \in DOMAIN stack' : i \in DOMAIN stack /\ stack'[i] = stack[i]
  <2>1. stack' = SubSeq(stack, 1, Len(stack) - 1)
    OBVIOUS
  <2>2. /\ stack' \in Seq(Frame) /\ Len(stack') = Len(stack) - 1
        /\ \A i \in 1 .. Len(stack) - 1 : stack'[i] = stack[i]
    BY <1>1, <2>1, SubSeqProperties
  <2>3. DOMAIN stack' = 1 .. Len(stack')
    BY <2>2, LenProperties
  <2> QED BY <1>1, <2>2, <2>3
<1>3. lock \in Nat /\ Len(stack) <= lock
  BY DEF TypeOK
<1>4. CASE lock = 1
  <2>1. Len(stack) = 1 /\ lock' = 0
    BY <1>1, <1>3, <1>4
  <2>2. DOMAIN stack' = {} /\ Len(stack') = 0
    BY <1>2, <2>1
  <2>3. /\ listeners' = listeners \ toRemove /\ inactive' = {} /\ toRemove' = {}
        /\ stamp' \in [Listener -> Nat] /\ UNCHANGED <<stamps, mapped>>
    BY <1>4 DEF Erase, TypeOK, Sorted
  <2>4. TypeOK'
    BY <1>2, <2>1, <2>2, <2>3 DEF TypeOK
  <2>5. Sorted'
    BY <2>1, <2>3 DEF Sorted
  <2> QED BY <2>2, <2>4, <2>5 DEF IInv, AllAhead
<1>5. CASE lock # 1
  <2>1. UNCHANGED <<listeners, stamp, inactive, toRemove, stamps, mapped>>
    BY <1>5
  <2>2. lock' \in Nat \ {0} /\ Len(stack') <= lock'
    BY <1>1, <1>2, <1>3, <1>5
  <2>3. TypeOK'
    BY <1>2, <2>1, <2>2 DEF TypeOK
  <2>4. Sorted'
    BY <2>1, <2>2 DEF Sorted
  <2>5. \A i \in DOMAIN stack' : Ahead(stack'[i])
    BY <1>2 DEF IInv, AllAhead
  <2>6. AllAhead'
    BY <2>1, <2>5 DEF AllAhead, Ahead, Before
  <2> QED BY <2>3, <2>4, <2>6 DEF IInv
<1> QED BY <1>4, <1>5

LEMMA ThrowInv ==
  ASSUME IInv, ListenerThrows
  PROVE  IInv'
<1> USE DEF ListenerThrows
<1>1. stack' \in Seq(Frame) /\ Len(stack') = 0 /\ DOMAIN stack' = {}
  BY EmptySeq
<1>2. TypeOK'
  BY <1>1 DEF IInv, TypeOK
<1>3. Sorted'
  BY DEF IInv, Sorted
<1> QED BY <1>1, <1>2, <1>3 DEF IInv, AllAhead

(***************************************************************************)
(* The theorems.                                                           *)
(***************************************************************************)

LEMMA StepInv ==
  ASSUME IInv, [Next]_vars
  PROVE  IInv'
<1>1. ASSUME NEW l \in Listener, AddListener(l) PROVE IInv'
  BY <1>1, AddInv
<1>2. ASSUME NEW l \in Listener, RemoveKey(Card[l], Prio[l]) PROVE IInv'
  <2> DEFINE range == {k \in mapped : Card[k] = Card[l] /\ Prio[k] = Prio[l]}
  <2>1. PICK S \in SUBSET mapped : S = range
    OBVIOUS
  <2>2. DoRemoveListeners(S)
    BY <1>2, <2>1 DEF RemoveKey
  <2> QED BY <2>2, RemoveInv
<1>3. ASSUME NEW l \in Listener, RemoveCard(Card[l]) PROVE IInv'
  <2> DEFINE range == {k \in mapped : Card[k] = Card[l]}
  <2>1. PICK S \in SUBSET mapped : S = range
    OBVIOUS
  <2>2. DoRemoveListeners(S)
    BY <1>3, <2>1 DEF RemoveCard
  <2> QED BY <2>2, RemoveInv
<1>4. ASSUME NEW l \in Listener, CallEvent(Type[l]) PROVE IInv'
  <2>1. PICK t \in Int : t = Type[l]
    BY ListenerAssumption
  <2> QED BY <1>4, <2>1, CallInv
<1>5. CASE Invoke
  BY <1>5, InvokeInv
<1>6. CASE Skip \/ ListenerReturns
  BY <1>6, MoveInv
<1>7. CASE Finish
  BY <1>7, FinishInv
<1>8. CASE ListenerThrows
  BY <1>8, ThrowInv
<1>9. CASE UNCHANGED vars
  BY <1>9 DEF vars, IInv, TypeOK, Sorted, AllAhead, Ahead, Before
<1> QED BY <1>1, <1>2, <1>3, <1>4, <1>5, <1>6, <1>7, <1>8, <1>9 DEF Next

LEMMA Inductive == Spec => []IInv
<1>1. Init => IInv
  BY InitInv
<1>2. IInv /\ [Next]_vars => IInv'
  BY StepInv
<1> QED BY <1>1, <1>2, PTL DEF Spec

\* The listener map of event_map.cpp has the types of TypeOK, and no more
\* dispatches run than locks are held.
THEOREM TypeCorrect == Spec => []TypeOK
<1>1. IInv => TypeOK
  BY DEF IInv
<1> QED BY <1>1, Inductive, PTL

\* remove_listeners and do_call_event leave no iterator to an element that
\* was erased, whatever the listeners do while they run.
THEOREM NoneDangles == Spec => []NoDanglingIterator
<1>1. ASSUME IInv PROVE NoDanglingIterator
  <2>1. \A i \in DOMAIN stack :
          /\ stack[i].cur \in listeners \cup {End}
          /\ stack[i].high \in listeners \cup {End}
    BY <1>1 DEF IInv, AllAhead, Ahead
  <2> QED BY <1>1, <2>1 DEF IInv, Sorted, NoDanglingIterator
<1> QED BY <1>1, Inductive, PTL

\* do_call_event reaches every listener of its type that was there when it
\* began and is not removed before its turn, however dispatches nest.
THEOREM NoneMissed == Spec => []DueAhead
<1>1. IInv => DueAhead
  BY DEF IInv, AllAhead, Ahead, DueAhead
<1> QED BY <1>1, Inductive, PTL
=============================================================================
