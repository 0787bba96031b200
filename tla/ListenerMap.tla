----------------------------- MODULE ListenerMap -----------------------------
(***************************************************************************)
(* The event listeners of a game: src/src/game/event_map.h and .cpp, with  *)
(* the keys of event_card_key.h.  A listener is any code: while it runs it *)
(* adds and removes listeners, itself included, calls further events, and  *)
(* may throw; dispatches nest as deep as the listeners call each other.    *)
(*                                                                         *)
(* An iterator is the element it points to, or End.  The multimap's order  *)
(* is by type, then by priority, then by card, and then by the time of     *)
(* insertion, which the history variable "stamp" keeps.                    *)
(***************************************************************************)
EXTENDS Integers, Sequences, FiniteSets

CONSTANTS
  Listener,    \* the event_listener objects
  Type,        \* [Listener -> Int], the order of the types of events
  Card,        \* [Listener -> Int], get_card_order(key.target_card)
  Prio,        \* [Listener -> Int], key.priority
  End,         \* m_listeners.end()
  MaxStamp,    \* bound of the model on the listeners added
  MaxLock      \* bound of the model on m_lock

ASSUME ListenerAssumption ==
  /\ Type \in [Listener -> Int]
  /\ Card \in [Listener -> Int]
  /\ Prio \in [Listener -> Int]
  /\ End \notin Listener
  /\ MaxStamp \in Nat
  /\ MaxLock \in Nat

VARIABLES
  listeners,  \* the elements of m_listeners
  stamp,      \* the insertion number of each, 0 for the others
  stamps,     \* how many were inserted
  inactive,   \* the listeners with m_active = false
  mapped,     \* the listeners m_map points to
  toRemove,   \* m_to_remove
  lock,       \* m_lock
  stack       \* the calls of do_call_event that have not returned: the type,
              \*   the iterators cur and high, whether a listener runs, and
              \*   the history due, the listeners this call has to reach

vars == <<listeners, stamp, stamps, inactive, mapped, toRemove, lock, stack>>

Init ==
  /\ listeners = {}
  /\ stamp = [l \in Listener |-> 0]
  /\ stamps = 0
  /\ inactive = {}
  /\ mapped = {}
  /\ toRemove = {}
  /\ lock = 0
  /\ stack = <<>>

(***************************************************************************)
(* The multimap's order.                                                   *)
(***************************************************************************)

\* event_listener_key: higher priorities first.
KeyBefore(l, m) ==
  \/ Type[l] < Type[m]
  \/ Type[l] = Type[m] /\ Prio[l] > Prio[m]
  \/ Type[l] = Type[m] /\ Prio[l] = Prio[m] /\ Card[l] < Card[m]

SameKey(l, m) == Type[l] = Type[m] /\ Prio[l] = Prio[m] /\ Card[l] = Card[m]

Before(l, m) == KeyBefore(l, m) \/ (SameKey(l, m) /\ stamp[l] < stamp[m])

\* The iterator p is the first element of the set S, or End if there is none.
IsFirst(p, S) ==
  IF S = {} THEN p = End ELSE p \in S /\ \A m \in S \ {p} : Before(p, m)

After(l) == {m \in listeners : Before(l, m)}

\* The listeners in S are erased from m_listeners.
Erase(S) ==
  /\ listeners' = listeners \ S
  /\ stamp' = [l \in Listener |-> IF l \in S THEN 0 ELSE stamp[l]]

(***************************************************************************)
(* Adding and removing.                                                    *)
(***************************************************************************)

\* The stack's top: the call that runs, or whose listener runs.
Top == stack[Len(stack)]

\* Code of the game runs: outside of any dispatch, or in a listener.
GameRuns == stack # <<>> => Top.calling

AddListener(l) ==
  /\ GameRuns
  /\ l \notin listeners
  /\ stamps < MaxStamp
  /\ listeners' = listeners \cup {l}
  /\ stamp' = [stamp EXCEPT ![l] = stamps + 1]
  /\ stamps' = stamps + 1
  /\ mapped' = mapped \cup {l}
  /\ UNCHANGED <<inactive, toRemove, lock, stack>>

\* Mutant: removed listeners are erased while a dispatch runs.
DoRemoveListenersNow(range) ==
  /\ Erase(range)
  /\ mapped' = mapped \ range
  /\ stack' = [i \in DOMAIN stack |-> [stack[i] EXCEPT !.due = @ \ range]]
  /\ UNCHANGED <<inactive, toRemove, stamps, lock>>

\* do_remove_listeners: erased at once only when no dispatch runs.
DoRemoveListeners(range) ==
  LET active == range \ inactive
  IN /\ IF lock > 0
        THEN /\ toRemove' = toRemove \cup active
             /\ inactive' = inactive \cup active
             /\ UNCHANGED <<listeners, stamp>>
        ELSE Erase(active) /\ UNCHANGED <<toRemove, inactive>>
     /\ mapped' = mapped \ range
     /\ stack' = [i \in DOMAIN stack |-> [stack[i] EXCEPT !.due = @ \ range]]
     /\ UNCHANGED <<stamps, lock>>

\* remove_listeners(event_card_key)
RemoveKey(card, prio) ==
  LET range == {l \in mapped : Card[l] = card /\ Prio[l] = prio}
  IN GameRuns /\ range # {} /\ DoRemoveListeners(range)

\* remove_listeners(card_ptr)
RemoveCard(card) ==
  LET range == {l \in mapped : Card[l] = card}
  IN GameRuns /\ range # {} /\ DoRemoveListeners(range)

(***************************************************************************)
(* do_call_event.                                                          *)
(***************************************************************************)

\* The range of the type is taken; it is not empty.
CallEvent(type) ==
  /\ GameRuns
  /\ lock < MaxLock
  /\ \E l \in listeners, high \in listeners \cup {End} :
       /\ Type[l] = type
       /\ IsFirst(l, {m \in listeners : Type[m] = type})
       /\ IsFirst(high, {m \in listeners : Type[m] > type})
       /\ stack' = Append(stack,
                     [type |-> type, cur |-> l, high |-> high, calling |-> FALSE,
                      due |-> {m \in listeners \ inactive : Type[m] = type}])
  /\ lock' = lock + 1
  /\ UNCHANGED <<listeners, stamp, stamps, inactive, mapped, toRemove>>

\* ++cur in the top call.
Advance ==
  \E n \in listeners \cup {End} :
    /\ IsFirst(n, After(Top.cur))
    /\ stack' = [stack EXCEPT ![Len(stack)].cur = n,
                              ![Len(stack)].calling = FALSE]

Reached == stack # <<>> /\ ~Top.calling /\ Top.cur # Top.high

\* The listener under the iterator is called.
Invoke ==
  /\ Reached
  /\ Type[Top.cur] = Top.type
  /\ Top.cur \notin inactive
  /\ stack' = [stack EXCEPT ![Len(stack)].calling = TRUE,
                            ![Len(stack)].due = @ \ {Top.cur}]
  /\ UNCHANGED <<listeners, stamp, stamps, inactive, mapped, toRemove, lock>>

\* Mutant: the loop ends at a listener that was removed.
SkipRest ==
  /\ Reached
  /\ Type[Top.cur] # Top.type \/ Top.cur \in inactive
  /\ stack' = [stack EXCEPT ![Len(stack)].cur = Top.high]
  /\ UNCHANGED <<listeners, stamp, stamps, inactive, mapped, toRemove, lock>>

\* A removed listener, or one of another type that was inserted before high.
Skip ==
  /\ Reached
  /\ Type[Top.cur] # Top.type \/ Top.cur \in inactive
  /\ Advance
  /\ UNCHANGED <<listeners, stamp, stamps, inactive, mapped, toRemove, lock>>

\* The listener returned.
ListenerReturns ==
  /\ stack # <<>>
  /\ Top.calling
  /\ Advance
  /\ UNCHANGED <<listeners, stamp, stamps, inactive, mapped, toRemove, lock>>

\* Mutant: the end of an outer dispatch gives back the locks of the calls that
\* a listener's exception left.
FinishUnlocks ==
  /\ stack # <<>>
  /\ ~Top.calling
  /\ Top.cur = Top.high
  /\ stack' = SubSeq(stack, 1, Len(stack) - 1)
  /\ lock' = 0
  /\ Erase(toRemove)
  /\ inactive' = inactive \ toRemove
  /\ toRemove' = {}
  /\ UNCHANGED <<stamps, mapped>>

\* The loop ends; the outermost one erases what was removed meanwhile.
Finish ==
  /\ stack # <<>>
  /\ ~Top.calling
  /\ Top.cur = Top.high
  /\ stack' = SubSeq(stack, 1, Len(stack) - 1)
  /\ lock' = lock - 1
  /\ IF lock = 1 THEN /\ Erase(toRemove)
                      /\ inactive' = inactive \ toRemove
                      /\ toRemove' = {}
                 ELSE UNCHANGED <<listeners, stamp, inactive, toRemove>>
  /\ UNCHANGED <<stamps, mapped>>

\* A listener throws: every call on the stack is left, and none of them
\* gives its lock back.
ListenerThrows ==
  /\ stack # <<>>
  /\ Top.calling
  /\ stack' = <<>>
  /\ UNCHANGED <<listeners, stamp, stamps, inactive, mapped, toRemove, lock>>

Next ==
  \/ \E l \in Listener :
       \/ AddListener(l)
       \/ RemoveKey(Card[l], Prio[l])
       \/ RemoveCard(Card[l])
       \/ CallEvent(Type[l])
  \/ Invoke
  \/ Skip
  \/ ListenerReturns
  \/ Finish
  \/ ListenerThrows

Spec == Init /\ [][Next]_vars

(***************************************************************************)
(* Properties.                                                             *)
(***************************************************************************)

Frame == [type : Int, cur : Listener \cup {End}, high : Listener \cup {End},
          calling : BOOLEAN, due : SUBSET Listener]

\* Every variable has its type, and a lock is held for every running call.
TypeOK ==
  /\ listeners \subseteq Listener
  /\ stamp \in [Listener -> Nat]
  /\ stamps \in Nat
  /\ inactive \subseteq listeners
  /\ mapped \subseteq Listener
  /\ toRemove \subseteq Listener
  /\ lock \in Nat
  /\ stack \in Seq(Frame)
  /\ Len(stack) <= lock

\* No iterator dangles: those of m_map, of m_to_remove and of every dispatch
\* on the stack point to elements of m_listeners, and no listener is
\* entered twice into m_to_remove, where it would be erased twice.  Between the
\* events, unless a listener once threw, nothing that was removed is left.
NoDanglingIterator ==
  /\ mapped \subseteq listeners \ inactive
  /\ toRemove = inactive
  /\ \A i \in DOMAIN stack :
       /\ stack[i].cur \in listeners \cup {End}
       /\ stack[i].high \in listeners \cup {End}
  /\ lock = 0 => listeners = mapped /\ toRemove = {}

\* A dispatch misses no listener: each listener of the type that was there
\* when it began, was not removed since and was not called yet, is still
\* ahead of its iterator, in front of the end of its range.
DueAhead ==
  \A i \in DOMAIN stack : \A l \in stack[i].due :
    LET f == stack[i]
    IN /\ f.cur # End /\ f.cur # f.high
       /\ l = f.cur \/ Before(f.cur, l)
       /\ f.high = End \/ Before(l, f.high)
=============================================================================
