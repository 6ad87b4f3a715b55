-------------------------- MODULE PressNotifyProofs --------------------------
(***************************************************************************)
(* The button device with poll, for any number of tasks and of presses: no *)
(* sleeper misses its wake-up, no announced press is forgotten unless it   *)
(* crossed a reader's clear, and the count is that of the presses as long  *)
(* as no two of them raced.                                                *)
(***************************************************************************)
EXTENDS PressNotify, TLAPS, FiniteSetTheorems

Places == {"user", "wait", "asleep", "format", "clear", "store", "announce", "wake"}

Typed == /\ press_count \in Nat /\ data_ready \in {0, 1}
         /\ pc \in [Task -> Places] /\ reg \in [Task -> Nat]
         /\ polls \subseteq Task /\ queue \subseteq Task
         /\ presses \in 0 .. MAX_PRESSES

\* A press in the middle of its increment has loaded less than its own number.
Bounded == /\ press_count <= presses
           /\ \A t \in Task : pc[t] = "store" => reg[t] < presses
           /\ \A t \in Task : pc[t] # "store" => reg[t] <= presses

\* The wait queue holds every sleeper, and nobody who is not waiting.
Queued == /\ \A t \in queue : pc[t] \in {"wait", "asleep"}
          /\ \A t \in Task : pc[t] = "asleep" => t \in queue

\* Between the flag and the wake-up there is always the task that owes it.
Owed == data_ready = 1 /\ (\E t \in Task : pc[t] = "asleep")
            => \E w \in Task : pc[w] = "wake"

\* A press announced beside a reader about to clear is marked as crossed.
Cleared == due /\ ~crossed => /\ data_ready = 1
                              /\ \A t \in Task : pc[t] # "clear"

\* Without a race one press at most is in the middle of its increment, and it
\* still holds the count as it is.
Apart == ~raced =>
    \/ press_count = presses /\ \A t \in Task : pc[t] # "store"
    \/ \E t \in Task : /\ pc[t] = "store" /\ \A u \in Task \ {t} : pc[u] # "store"
                       /\ reg[t] = press_count /\ press_count + 1 = presses

IInv == Typed /\ Bounded /\ Queued /\ Owed /\ Cleared /\ Apart

\* What a task does, one action at a time.
Step(t) == \/ Join(t) \/ Sleep(t) \/ Ready(t) \/ Signal(t) \/ Read(t) \/ Poll(t)
           \/ Format(t) \/ Clear(t) \/ Press(t) \/ Store(t) \/ Announce(t) \/ WakeUp(t)
-----------------------------------------------------------------------------
LEMMA InitIInv == Init => IInv
BY PressAssumption DEF Init, IInv, Typed, Places, Bounded, Queued, Owed, Cleared, Apart

LEMMA NextStep == Next => \E t \in Task : Step(t)
BY DEF Next, Wait, Rest, Step

LEMMA TypedStep == ASSUME Typed, NEW t \in Task, Step(t) PROVE Typed'
<1> USE PressAssumption DEF Typed, Places, Go, shared, history
<1>1. CASE Join(t) \/ Sleep(t) \/ Ready(t) \/ Signal(t)
  BY <1>1 DEF Join, Sleep, Ready, Signal
<1>2. CASE Read(t) \/ Poll(t)
  BY <1>2 DEF Read, Poll
<1>3. CASE Format(t) \/ Clear(t)
  BY <1>3 DEF Format, Clear
<1>4. CASE Press(t) \/ Store(t) \/ Announce(t)
  BY <1>4 DEF Press, Store, Announce
<1>5. CASE WakeUp(t)
  BY <1>5 DEF WakeUp
<1> QED
  BY <1>1, <1>2, <1>3, <1>4, <1>5 DEF Step

LEMMA BoundedStep == ASSUME Typed, Bounded, NEW t \in Task, Step(t) PROVE Bounded'
<1> USE DEF Typed, Places, Bounded, Go, shared, history
<1>1. CASE Join(t) \/ Sleep(t) \/ Ready(t) \/ Signal(t)
  BY <1>1 DEF Join, Sleep, Ready, Signal
<1>2. CASE Read(t) \/ Poll(t) \/ Clear(t)
  BY <1>2 DEF Read, Poll, Clear
<1>3. CASE Format(t)
  BY <1>3 DEF Format
<1>4. CASE Press(t)
  BY <1>4 DEF Press
<1>5. CASE Store(t)
  BY <1>5 DEF Store
<1>6. CASE Announce(t)
  BY <1>6 DEF Announce
<1>7. CASE WakeUp(t)
  BY <1>7 DEF WakeUp
<1> QED
  BY <1>1, <1>2, <1>3, <1>4, <1>5, <1>6, <1>7 DEF Step

LEMMA QueuedStep == ASSUME Typed, Queued, NEW t \in Task, Step(t) PROVE Queued'
<1> USE DEF Typed, Places, Queued, Go, shared, history
<1>1. CASE Join(t)
  BY <1>1 DEF Join
<1>2. CASE Sleep(t)
  BY <1>2 DEF Sleep
<1>3. CASE Ready(t) \/ Signal(t)
  BY <1>3 DEF Ready, Signal
<1>4. CASE Read(t) \/ Poll(t) \/ Format(t) \/ Clear(t)
  BY <1>4 DEF Read, Poll, Format, Clear
<1>5. CASE Press(t) \/ Store(t) \/ Announce(t)
  BY <1>5 DEF Press, Store, Announce
<1>6. CASE WakeUp(t)
  BY <1>6 DEF WakeUp
<1> QED
  BY <1>1, <1>2, <1>3, <1>4, <1>5, <1>6 DEF Step

LEMMA OwedStep == ASSUME Typed, Queued, Owed, NEW t \in Task, Step(t) PROVE Owed'
<1> SUFFICES ASSUME data_ready' = 1, NEW s \in Task, pc'[s] = "asleep"
             PROVE \E w \in Task : pc'[w] = "wake"
  BY DEF Owed
<1> USE DEF Typed, Places, Queued, Go, shared, history
<1>1. CASE Announce(t)
  BY <1>1 DEF Announce
<1>2. CASE WakeUp(t)
  BY <1>2 DEF WakeUp
<1>3. CASE Sleep(t) \/ Clear(t)
  BY <1>3 DEF Sleep, Clear
<1>4. CASE Join(t) \/ Ready(t) \/ Signal(t)
  BY <1>4 DEF Join, Ready, Signal, Owed
<1>5. CASE Read(t) \/ Poll(t) \/ Format(t)
  BY <1>5 DEF Read, Poll, Format, Owed
<1>6. CASE Press(t) \/ Store(t)
  BY <1>6 DEF Press, Store, Owed
<1> QED
  BY <1>1, <1>2, <1>3, <1>4, <1>5, <1>6 DEF Step

LEMMA ClearedStep == ASSUME Typed, Cleared, NEW t \in Task, Step(t) PROVE Cleared'
<1> SUFFICES ASSUME due', ~crossed'
             PROVE data_ready' = 1 /\ \A u \in Task : pc'[u] # "clear"
  BY DEF Cleared
<1> USE DEF Typed, Places, Go, shared, history
<1>1. CASE Announce(t)
  BY <1>1 DEF Announce, At
<1>2. CASE Format(t)
  BY <1>2, Zenon DEF Format
<1>3. CASE Clear(t)
  BY <1>3 DEF Clear, Cleared
<1>4. CASE Join(t) \/ Sleep(t) \/ Ready(t) \/ Signal(t) \/ Read(t) \/ Poll(t)
  BY <1>4 DEF Join, Sleep, Ready, Signal, Read, Poll, Cleared
<1>5. CASE Press(t) \/ Store(t) \/ WakeUp(t)
  BY <1>5 DEF Press, Store, WakeUp, Cleared
<1> QED
  BY <1>1, <1>2, <1>3, <1>4, <1>5 DEF Step

LEMMA ApartStep == ASSUME Typed, Queued, Apart, NEW t \in Task, Step(t) PROVE Apart'
<1> SUFFICES ASSUME ~raced'
             PROVE \/ press_count' = presses' /\ \A u \in Task : pc'[u] # "store"
                   \/ \E u \in Task : /\ pc'[u] = "store"
                                      /\ \A v \in Task \ {u} : pc'[v] # "store"
                                      /\ reg'[u] = press_count'
                                      /\ press_count' + 1 = presses'
  BY DEF Apart
<1> USE DEF Typed, Places, Go, shared, history
<1>1. CASE Press(t)
  <2>1. ~raced /\ \A u \in Task : pc[u] # "store"
    BY <1>1 DEF Press, At
  <2>2. press_count = presses
    BY <2>1 DEF Apart
  <2> QED
    BY <1>1, <2>1, <2>2 DEF Press
<1>2. CASE Store(t)
  <2>1. ~raced /\ pc[t] = "store"
    BY <1>2 DEF Store
  <2>2. /\ \A u \in Task \ {t} : pc[u] # "store"
        /\ reg[t] = press_count /\ press_count + 1 = presses
    BY <2>1 DEF Apart
  <2> QED
    BY <1>2, <2>2 DEF Store
<1>3. CASE Join(t) \/ Sleep(t) \/ Ready(t) \/ Signal(t) \/ Read(t) \/ Poll(t)
  BY <1>3 DEF Join, Sleep, Ready, Signal, Read, Poll, Apart
<1>4. CASE Format(t) \/ Clear(t)
  BY <1>4 DEF Format, Clear, Apart
<1>5. CASE Announce(t)
  BY <1>5 DEF Announce, Apart
<1>6. CASE WakeUp(t)
  <2>1. \A u \in Task : pc'[u] = "store" <=> pc[u] = "store"
    BY <1>6 DEF WakeUp, Queued
  <2> QED
    BY <1>6, <2>1 DEF WakeUp, Apart
<1> QED
  BY <1>1, <1>2, <1>3, <1>4, <1>5, <1>6 DEF Step

Flags == due \in BOOLEAN /\ crossed \in BOOLEAN /\ raced \in BOOLEAN

LEMMA FlagsStep == ASSUME Flags, NEW t \in Task, Step(t) PROVE Flags'
<1> USE DEF Flags, shared, history
<1>1. CASE Join(t) \/ Sleep(t) \/ Ready(t) \/ Signal(t) \/ Read(t) \/ Poll(t)
  BY <1>1, Zenon DEF Join, Sleep, Ready, Signal, Read, Poll
<1>2. CASE Format(t) \/ Clear(t) \/ Store(t) \/ WakeUp(t)
  BY <1>2, Zenon DEF Format, Clear, Store, WakeUp
<1>3. CASE Press(t)
  BY <1>3, Zenon DEF Press
<1>4. CASE Announce(t)
  BY <1>4, Zenon DEF Announce
<1> QED
  BY <1>1, <1>2, <1>3, <1>4 DEF Step

LEMMA Stutter == IInv /\ UNCHANGED vars => IInv'
BY DEF IInv, Typed, Bounded, Queued, Owed, Cleared, Apart, vars, shared, history

LEMMA Inductive == IInv /\ [Next]_vars => IInv'
<1>1. ASSUME IInv, Next PROVE IInv'
  <2>1. PICK t \in Task : Step(t)
    BY <1>1, NextStep
  <2> QED
    BY <1>1, <2>1, TypedStep, BoundedStep, QueuedStep, OwedStep, ClearedStep, ApartStep
       DEF IInv
<1> QED
  BY <1>1, Stutter
-----------------------------------------------------------------------------
(* The invariant above holds for any number of tasks and presses.          *)
THEOREM Invariance == Spec => []IInv
BY InitIInv, Inductive, PTL DEF Spec

(* Every variable keeps its type; the count, and what a press or a read    *)
(* has loaded of it, never exceed the presses made.                        *)
THEOREM TypeCorrect == Spec => []TypeOK
<1>1. Init => Flags
  BY Zenon DEF Init, Flags
<1>2. Flags /\ [Next]_vars => Flags'
  <2>1. ASSUME Flags, Next PROVE Flags'
    BY <2>1, NextStep, FlagsStep
  <2>2. Flags /\ UNCHANGED vars => Flags'
    BY Zenon DEF Flags, vars, history
  <2> QED
    BY <2>1, <2>2
<1>3. ASSUME IInv, Flags PROVE TypeOK
  <2> USE PressAssumption, <1>3 DEF IInv, Typed
  <2>1. press_count \in 0 .. MAX_PRESSES
    BY DEF Bounded
  <2>2. reg \in [Task -> 0 .. MAX_PRESSES]
    <3>1. \A t \in Task : reg[t] \in 0 .. MAX_PRESSES
      BY DEF Bounded
    <3> QED
      BY <3>1
  <2>3. queue \subseteq At("wait") \cup At("asleep")
    BY DEF Queued, At
  <2> QED
    BY <2>1, <2>2, <2>3 DEF TypeOK, Places, Flags
<1> QED
  BY <1>1, <1>2, <1>3, Invariance, PTL DEF Spec

(* A task asleep while the device is readable is on the queue, and the     *)
(* wake-up that empties the queue is on its way.                           *)
THEOREM NoWakeupIsLost == Spec => []NoLostWakeup
<1>1. IInv => NoLostWakeup
  BY DEF IInv, Typed, Queued, Owed, NoLostWakeup, At
<1> QED
  BY <1>1, Invariance, PTL

(* A press is forgotten only when it is announced between a reader's       *)
(* snprintf and its data_ready = 0.                                        *)
THEOREM PressesStayReadable == Spec => []NoPressLost
<1>1. IInv => NoPressLost
  BY DEF IInv, Cleared, NoPressLost
<1> QED
  BY <1>1, Invariance, PTL

(* The count is exact, with the press that is being counted, unless two    *)
(* presses have loaded the same count.                                     *)
THEOREM CountIsExact == Spec => []CountsPresses
<1>1. ASSUME IInv PROVE CountsPresses
  <2> SUFFICES ASSUME ~raced PROVE press_count + Cardinality(At("store")) = presses
    BY DEF CountsPresses
  <2> USE <1>1 DEF IInv, Typed
  <2>1. CASE press_count = presses /\ \A t \in Task : pc[t] # "store"
    <3>1. At("store") = {}
      BY <2>1 DEF At
    <3> QED
      BY <2>1, <3>1, FS_EmptySet
  <2>2. CASE \E t \in Task : /\ pc[t] = "store" /\ \A u \in Task \ {t} : pc[u] # "store"
                             /\ reg[t] = press_count /\ press_count + 1 = presses
    <3>1. PICK t \in Task : /\ pc[t] = "store" /\ \A u \in Task \ {t} : pc[u] # "store"
                            /\ press_count + 1 = presses
      BY <2>2
    <3>2. At("store") = {t}
      BY <3>1 DEF At
    <3>3. Cardinality(At("store")) = 1
      BY <3>2, FS_Singleton
    <3> QED
      BY <3>1, <3>3
  <2> QED
    BY <2>1, <2>2 DEF Apart
<1> QED
  BY <1>1, Invariance, PTL
=============================================================================
