------------------------ MODULE DriverLifecycleProofs ------------------------
(***************************************************************************)
(* Loading and unloading, for every set of drivers whose tables keep the   *)
(* rules of module LifecycleRules: whatever fails, and whatever interrupts *)
(* and tasks come between any two steps of init and exit, nothing is left, *)
(* released without being held, missed by a handler or still due, but for  *)
(* what the lists say.  The tables of the repository keep the rules with   *)
(* the lists of DriverTables, so that this holds of its drivers.           *)
(*                                                                         *)
(* The invariant follows the two lists of a driver: until a release begins *)
(* it has, or has ignored the lack of, all that its table is sure of up to *)
(* its place; from then on that, less what has been released so far.       *)
(***************************************************************************)
EXTENDS LifecycleRules, DriverTables, TLAPS

Basic == /\ drv \in DOMAIN Driver
         /\ phase \in {"out", "init", "unwind", "live", "exit"}
         /\ at \in 1 .. Last(drv) + 1 /\ todo \in Seq(Resource)
         /\ held \cup ignored \subseteq Asks(drv, Last(drv))

Order == /\ phase \in {"live", "out"} => todo = <<>>
         /\ phase \in {"live", "exit"} => at = Last(drv) + 1
         /\ phase = "unwind" => at \in Fatal(drv)

\* What the driver has while init goes on, and when it is done.
Loading == phase \in {"init", "live"} =>
              /\ held \subseteq Gets(drv, at - 1)
              /\ Kept(drv, at - 1) \subseteq held \cup ignored
              /\ Among(todo) \subseteq Lost(drv) \cap Exempt(drv)

\* The list that is being worked off, how far it is, and what is left by then.
List == IF phase = "exit" THEN Down(drv) ELSE Up(drv)[at].undo
Rest(list, n, rest) == Len(rest) = Len(list) - n /\ \A k \in 1 .. Len(rest) : rest[k] = list[n + k]
Following(n) == n \in 0 .. Len(List) /\ Rest(List, n, todo)
Left(n) == /\ held \subseteq Gets(drv, at - 1) \ First(List, n)
           /\ Kept(drv, at - 1) \ First(List, n) \subseteq held \cup ignored
           /\ phase = "exit" /\ Flushed(drv, n) => bh = "idle"
Releasing == phase \in {"unwind", "exit"} => \E n \in Nat : Following(n) /\ Left(n)

Outside == phase = "out" => held \subseteq Leak[drv]

\* What it goes on without, its table lets it go on without.
Overlooked == ignored \subseteq Skipped(drv)

\* Files are open and work is due only when init has come that far.
Users == /\ phase = "exit" => ~open
         /\ phase # "out" /\ open => Driver[drv].doors \cap Gets(drv, at - 1) # {}
         /\ phase # "out" /\ bh # "idle" => Able(drv, at - 1)

IInv == Basic /\ Order /\ Loading /\ Releasing /\ Outside /\ Overlooked /\ Users
-----------------------------------------------------------------------------
(* Lists and tables.                                                       *)

\* A list of which n elements have been worked off, and its next element.
LEMMA NextOfList ==
    ASSUME NEW list \in Seq(Resource), NEW rest \in Seq(Resource), NEW n \in 0 .. Len(list),
           Rest(list, n, rest), rest # <<>>
    PROVE  /\ n + 1 \in 1 .. Len(list) /\ Head(rest) = list[n + 1]
           /\ Rest(list, n + 1, Tail(rest))
           /\ First(list, n + 1) = First(list, n) \cup {Head(rest)}
<1>1. Len(rest) \in Nat /\ Len(list) \in Nat /\ Len(rest) # 0 /\ Len(rest) = Len(list) - n
  BY DEF Rest
<1>2. n + 1 \in 1 .. Len(list) /\ 1 \in 1 .. Len(rest) /\ Head(rest) = rest[1]
  BY <1>1
<1>3. Head(rest) = list[n + 1]
  BY <1>2 DEF Rest
<1>4. Tail(rest) \in Seq(Resource) /\ Len(Tail(rest)) = Len(rest) - 1
      /\ \A k \in 1 .. Len(rest) - 1 : Tail(rest)[k] = rest[k + 1]
  BY <1>1
<1>5. Len(Tail(rest)) = Len(list) - (n + 1)
  BY <1>1, <1>4
<1>6. ASSUME NEW k \in 1 .. Len(Tail(rest)) PROVE Tail(rest)[k] = list[(n + 1) + k]
  <2>1. k \in 1 .. Len(rest) - 1 /\ k + 1 \in 1 .. Len(rest) /\ n + (k + 1) = (n + 1) + k
    BY <1>1, <1>4
  <2>2. Tail(rest)[k] = rest[k + 1] /\ rest[k + 1] = list[n + (k + 1)]
    BY <1>4, <2>1 DEF Rest
  <2> QED BY <2>1, <2>2
<1>7. First(list, n + 1) = First(list, n) \cup {list[n + 1]}
  <2>1. 1 .. n + 1 = (1 .. n) \cup {n + 1}
    OBVIOUS
  <2> QED BY <2>1 DEF First
<1> QED
  BY <1>2, <1>3, <1>5, <1>6, <1>7 DEF Rest

\* What a table asks for only grows with the steps.
LEMMA Grow ==
    ASSUME NEW d, NEW n \in Nat, NEW m \in Nat, n <= m
    PROVE  /\ Gets(d, n) \subseteq Gets(d, m) /\ Asks(d, n) \subseteq Asks(d, m)
           /\ Kept(d, n) \subseteq Kept(d, m) /\ Gets(d, n) \subseteq Asks(d, n)
           /\ Able(d, n) => Able(d, m)
<1>1. 1 .. n \subseteq 1 .. m
  OBVIOUS
<1>2. Gets(d, n) \subseteq Gets(d, m)
  BY <1>1 DEF Gets
<1>3. Asks(d, n) \subseteq Asks(d, m)
  BY <1>1 DEF Asks
<1>4. Gets(d, n) \subseteq Asks(d, n)
  BY DEF Gets, Asks
<1> QED
  BY <1>2, <1>3, <1>4 DEF Kept, Able

\* The step at hand, and what it adds.
LEMMA StepAt ==
    ASSUME NEW d, WellFormed(d), NEW i \in 1 .. Last(d)
    PROVE  /\ Up(d)[i].undo \in Seq(Resource) /\ Up(d)[i].skip \in Nat
           /\ i + Up(d)[i].skip <= Last(d) /\ Last(d) \in Nat
           /\ Asks(d, i) = Asks(d, i - 1) \cup {Up(d)[i].get}
           /\ Up(d)[i].works => Gets(d, i) = Gets(d, i - 1) \cup {Up(d)[i].get}
<1>1. Up(d) \in Seq(StepType) /\ Last(d) \in Nat
  BY DEF WellFormed, Last
<1>2. Up(d)[i] \in StepType
  BY <1>1 DEF Last
<1>3. Up(d)[i].undo \in Seq(Resource) /\ Up(d)[i].skip \in Nat
  BY <1>2 DEF StepType
<1>4. i - 1 \in Nat /\ 1 .. i = (1 .. i - 1) \cup {i}
  BY <1>1
<1>5. Asks(d, i) = Asks(d, i - 1) \cup {Up(d)[i].get}
  BY <1>4 DEF Asks
<1>6. Up(d)[i].works => Gets(d, i) = Gets(d, i - 1) \cup {Up(d)[i].get}
  BY <1>4 DEF Gets
<1> QED
  BY <1>1, <1>3, <1>5, <1>6 DEF WellFormed
-----------------------------------------------------------------------------
(* The steps of init and exit.                                             *)

LEMMA InitIInv == Rules /\ Init => IInv
<1> SUFFICES ASSUME Rules, Init PROVE IInv
  OBVIOUS
<1>1. /\ drv \in DOMAIN Driver /\ phase = "out" /\ at = 1 /\ todo = <<>> /\ held = {}
      /\ ignored = {}
  BY DEF Init
<1>2. Last(drv) \in Nat
  BY <1>1 DEF Rules, InOrder, WellFormed, Last
<1>3. Basic
  BY <1>1, <1>2 DEF Basic
<1> QED
  BY <1>1, <1>3 DEF IInv, Order, Loading, Releasing, Outside, Overlooked, Users

LEMMA LoadStep == ASSUME IInv, InOrder(drv), Load PROVE IInv'
<1>1. /\ phase' = "init" /\ at' = 1 /\ ignored' = {} /\ held' = {} /\ todo' = <<>>
      /\ drv' = drv /\ ~open' /\ bh' = "idle"
  BY DEF Load, IInv, Order
<1>2. Last(drv) \in Nat
  BY DEF InOrder, WellFormed, Last
<1>3. Basic'
  BY <1>1, <1>2 DEF IInv, Basic, Last, Up
<1>4. Kept(drv, 0) = {}
  BY DEF Kept, Asks
<1>5. Among(todo') = {}
  BY <1>1 DEF Among, First
<1>6. Loading'
  <2>1. at' - 1 = 0
    BY <1>1
  <2> QED BY <1>1, <1>4, <1>5, <2>1 DEF Loading
<1> QED
  BY <1>1, <1>3, <1>6 DEF IInv, Order, Releasing, Outside, Overlooked, Users

\* A step of init that goes on to the step at i, however it ends.
LEMMA InitGoesOn ==
    ASSUME IInv, InOrder(drv), phase = "init", phase' = "init",
           at' \in at .. Last(drv) + 1, UNCHANGED <<drv, open, bh>>, todo' \in Seq(Resource),
           held' \cup ignored' \subseteq Asks(drv, Last(drv)),
           held' \subseteq Gets(drv, at' - 1), Kept(drv, at' - 1) \subseteq held' \cup ignored',
           Among(todo') \subseteq Lost(drv) \cap Exempt(drv), ignored' \subseteq Skipped(drv)
    PROVE  IInv'
<1>1. Last(drv) \in Nat /\ at \in 1 .. Last(drv) + 1 /\ drv \in DOMAIN Driver
  BY DEF IInv, Basic, InOrder, WellFormed, Last
<1>2. PICK i \in at .. Last(drv) + 1 : i = at'
  OBVIOUS
<1>3. i \in 1 .. Last(drv) + 1 /\ at - 1 \in Nat /\ i - 1 \in Nat /\ at - 1 <= i - 1
  BY <1>1
<1>4. Basic'
  BY <1>1, <1>2, <1>3 DEF Basic, Last, Up
<1>5. /\ Gets(drv, at - 1) \subseteq Gets(drv, i - 1)
      /\ Able(drv, at - 1) => Able(drv, i - 1)
  BY <1>3, Grow
<1>6. Users'
  BY <1>2, <1>5 DEF IInv, Users
<1>7. Loading'
  BY DEF Loading
<1> QED
  BY <1>4, <1>6, <1>7 DEF IInv, Order, Releasing, Outside, Overlooked

LEMMA AcquireStep == ASSUME IInv, InOrder(drv), Acquire PROVE IInv'
<1>1. /\ phase = "init" /\ phase' = "init" /\ todo = <<>> /\ at <= Last(drv) /\ at' = at + 1
      /\ held' = held \cup {Up(drv)[at].get} /\ Up(drv)[at].works
      /\ UNCHANGED <<drv, todo, ignored, open, bh>>
  BY DEF Acquire, Acquiring, D, Step, Up, Last
<1>2. at \in 1 .. Last(drv) /\ Last(drv) \in Nat
  BY <1>1 DEF IInv, Basic, InOrder, WellFormed, Last
<1>3. /\ Asks(drv, at) = Asks(drv, at - 1) \cup {Up(drv)[at].get}
      /\ Gets(drv, at) = Gets(drv, at - 1) \cup {Up(drv)[at].get}
  BY <1>1, <1>2, StepAt DEF InOrder
<1>4. Gets(drv, at) \subseteq Asks(drv, at) /\ Asks(drv, at) \subseteq Asks(drv, Last(drv))
  BY <1>2, Grow
<1>5. at' - 1 = at /\ at' \in at .. Last(drv) + 1
  BY <1>1, <1>2
<1>6. /\ held \subseteq Gets(drv, at - 1) /\ Kept(drv, at - 1) \subseteq held \cup ignored
      /\ Among(todo) \subseteq Lost(drv) \cap Exempt(drv)
  BY <1>1 DEF IInv, Loading
<1>7. held' \cup ignored' \subseteq Asks(drv, Last(drv)) /\ todo' \in Seq(Resource)
  BY <1>1, <1>3, <1>4 DEF IInv, Basic
<1>8. held' \subseteq Gets(drv, at' - 1) /\ Kept(drv, at' - 1) \subseteq held' \cup ignored'
  BY <1>1, <1>3, <1>5, <1>6 DEF Kept
<1>9. Among(todo') \subseteq Lost(drv) \cap Exempt(drv)
  BY <1>1, <1>6
<1> QED
  BY <1>1, <1>5, <1>7, <1>8, <1>9, InitGoesOn DEF IInv, Overlooked

LEMMA FailStep == ASSUME IInv, InOrder(drv), Fail PROVE IInv'
<1> DEFINE s == Up(drv)[at]
<1>1. /\ phase = "init" /\ at <= Last(drv) /\ s.fallible /\ todo' = s.undo
      /\ UNCHANGED <<drv, held, open, bh>>
  BY DEF Fail, Acquiring, D, Step, Up, Last
<1>2. at \in 1 .. Last(drv) /\ Last(drv) \in Nat
  BY <1>1 DEF IInv, Basic, InOrder, WellFormed, Last
<1>3. /\ s.undo \in Seq(Resource) /\ s.skip \in Nat /\ at + s.skip <= Last(drv)
      /\ Asks(drv, at) = Asks(drv, at - 1) \cup {s.get}
  BY <1>2, StepAt DEF InOrder
<1>4. /\ held \subseteq Gets(drv, at - 1) /\ Kept(drv, at - 1) \subseteq held \cup ignored
  BY <1>1 DEF IInv, Loading
<1>5. CASE s.abort
  <2>1. phase' = "unwind" /\ UNCHANGED <<at, ignored>>
    BY <1>5 DEF Fail, D, Step, Up
  <2>2. at \in Fatal(drv)
    BY <1>1, <1>2, <1>5 DEF Fatal
  <2>3. Basic'
    BY <1>1, <1>3, <2>1 DEF IInv, Basic, Last, Up
  <2>4. Releasing'
    <3>1. List' = s.undo
      BY <1>1, <2>1 DEF List
    <3>2. Following(0)'
      BY <1>1, <1>3, <3>1 DEF Following, Rest
    <3>3. First(s.undo, 0) = {}
      BY DEF First
    <3>4. Left(0)'
      BY <1>1, <1>4, <2>1, <3>1, <3>3 DEF Left
    <3> QED BY <3>2, <3>4 DEF Releasing
  <2>5. Order' /\ Users' /\ Loading' /\ Outside' /\ Overlooked'
    BY <1>1, <2>1, <2>2 DEF IInv, Order, Users, Loading, Outside, Overlooked
  <2> QED BY <2>3, <2>4, <2>5 DEF IInv
<1>6. CASE ~s.abort
  <2>1. /\ ignored' = ignored \cup {s.get} /\ at' = at + 1 + s.skip /\ phase' = "init"
    BY <1>1, <1>6 DEF Fail, D, Step, Up
  <2>2. at' \in at .. Last(drv) + 1 /\ at' - 1 = at + s.skip /\ at + s.skip \in Nat
    <3> DEFINE k == s.skip
    <3>1. k \in Nat /\ at + k <= Last(drv) /\ at' = at + 1 + k
      BY <1>3, <2>1
    <3> HIDE DEF k
    <3>2. at \in Nat /\ Last(drv) + 1 \in Nat
      BY <1>2
    <3>3. at + 1 + k \in at .. Last(drv) + 1 /\ (at + 1 + k) - 1 = at + k /\ at + k \in Nat
      BY <1>2, <3>1, <3>2
    <3> QED BY <3>1, <3>3 DEF k
  <2>3. at \in Passed(drv)
    BY <1>1, <1>2, <1>6 DEF Passed
  <2>4. Among(s.undo) \cup {Up(drv)[j].get : j \in at + 1 .. at + s.skip} \subseteq Lost(drv)
    BY <2>3 DEF Lost
  <2>5. Among(todo') \subseteq Lost(drv) \cap Exempt(drv)
    BY <1>1, <2>3, <2>4 DEF InOrder, Precise
  <2>6. Asks(drv, at + s.skip) \subseteq Asks(drv, at) \cup {Up(drv)[j].get : j \in at + 1 .. at + s.skip}
    <3>1. 1 .. at + s.skip = (1 .. at) \cup (at + 1 .. at + s.skip)
      BY <1>2, <1>3
    <3>2. ASSUME NEW r \in Asks(drv, at + s.skip)
          PROVE  r \in Asks(drv, at) \cup {Up(drv)[j].get : j \in at + 1 .. at + s.skip}
      <4>1. PICK i \in 1 .. at + s.skip : r = Up(drv)[i].get
        BY <3>2 DEF Asks
      <4>2. i \in 1 .. at \/ i \in at + 1 .. at + s.skip
        BY <3>1, <4>1
      <4> QED BY <4>1, <4>2, Zenon DEF Asks
    <3> QED BY <3>2, Zenon
  <2>7. Kept(drv, at' - 1) \subseteq held' \cup ignored'
    BY <1>1, <1>3, <1>4, <2>1, <2>2, <2>4, <2>6 DEF Kept
  <2>8. held' \subseteq Gets(drv, at' - 1)
    <3>1. at - 1 \in Nat /\ at + s.skip \in Nat /\ at - 1 <= at + s.skip
      BY <1>2, <1>3, <2>2
    <3>2. Gets(drv, at - 1) \subseteq Gets(drv, at + s.skip)
      BY <3>1, Grow
    <3> QED BY <1>1, <1>4, <2>2, <3>2
  <2>9. held' \cup ignored' \subseteq Asks(drv, Last(drv)) /\ todo' \in Seq(Resource)
    <3>1. Asks(drv, at) \subseteq Asks(drv, Last(drv))
      BY <1>2, Grow
    <3> QED BY <1>1, <1>3, <2>1, <3>1 DEF IInv, Basic
  <2>10. ignored' \subseteq Skipped(drv)
    BY <2>1, <2>3 DEF IInv, Overlooked, Skipped
  <2> QED BY <1>1, <2>1, <2>2, <2>5, <2>7, <2>8, <2>9, <2>10, InitGoesOn
<1> QED
  BY <1>5, <1>6

LEMMA LoadedStep == ASSUME IInv, InOrder(drv), Loaded PROVE IInv'
<1>1. /\ phase = "init" /\ phase' = "live" /\ todo = <<>> /\ at > Last(drv)
      /\ UNCHANGED <<drv, at, todo, held, ignored, open, bh>>
  BY DEF Loaded, D, Last, Up
<1>2. at = Last(drv) + 1
  BY <1>1 DEF IInv, Basic, InOrder, WellFormed, Last
<1>3. Basic' /\ Order'
  BY <1>1, <1>2 DEF IInv, Basic, Order, Last, Up
<1> QED
  BY <1>1, <1>3 DEF IInv, Loading, Releasing, Outside, Overlooked, Users

\* From Load on, the driver has only what it could get by its place.
LEMMA HeldIsGot ==
    ASSUME IInv, phase # "out" PROVE held \subseteq Gets(drv, at - 1)
<1>1. CASE phase \in {"init", "live"}
  BY <1>1 DEF IInv, Loading
<1>2. CASE phase \in {"unwind", "exit"}
  BY <1>2 DEF IInv, Releasing, Left
<1> QED
  BY <1>1, <1>2 DEF IInv, Basic

\* A wait releases what nobody has, once nothing is due.
LEMMA OneReleased ==
    ASSUME IInv, InOrder(drv), todo # <<>>, todo' = Tail(todo), held' = held \ {Head(todo)},
           Head(todo) = "wait" => bh = "idle", UNCHANGED <<drv, phase, at, ignored, open, bh>>
    PROVE  IInv'
<1>1. phase \in {"init", "unwind", "exit"} /\ todo \in Seq(Resource) /\ Tail(todo) \in Seq(Resource)
  BY DEF IInv, Basic, Order
<1>2. Basic'
  BY <1>1 DEF IInv, Basic, Last, Up
<1>3. Loading'
  <2> SUFFICES ASSUME phase = "init" PROVE Loading'
    BY <1>1 DEF Loading
  <2>1. Among(todo) \subseteq Lost(drv) \cap Exempt(drv)
    BY DEF IInv, Loading
  <2>2. Head(todo) \in Among(todo) /\ Among(Tail(todo)) \subseteq Among(todo)
    <3>1. 1 \in 1 .. Len(todo) /\ Head(todo) = todo[1]
      BY <1>1
    <3>2. \A k \in 1 .. Len(Tail(todo)) : k + 1 \in 1 .. Len(todo) /\ Tail(todo)[k] = todo[k + 1]
      BY <1>1
    <3> QED BY <3>1, <3>2 DEF Among, First
  <2>3. Kept(drv, at - 1) \subseteq held' \cup ignored
    BY <2>1, <2>2 DEF IInv, Loading, Kept
  <2> QED BY <2>1, <2>2, <2>3 DEF IInv, Loading
<1>4. Releasing'
  <2> SUFFICES ASSUME phase \in {"unwind", "exit"} PROVE Releasing'
    BY DEF Releasing
  <2>1. PICK n \in Nat : Following(n) /\ Left(n)
    BY DEF IInv, Releasing
  <2>2. List \in Seq(Resource) /\ List' = List
    <3>1. CASE phase = "exit"
      BY <3>1 DEF List, InOrder, WellFormed
    <3>2. CASE phase = "unwind"
      <4>1. at \in 1 .. Last(drv)
        BY <3>2 DEF IInv, Order, Fatal
      <4> QED BY <3>2, <4>1, StepAt DEF List, InOrder
    <3> QED BY <3>1, <3>2
  <2>3. n \in 0 .. Len(List) /\ Rest(List, n, todo)
    BY <2>1 DEF Following
  <2>4. /\ n + 1 \in 1 .. Len(List) /\ Head(todo) = List[n + 1]
        /\ Rest(List, n + 1, Tail(todo))
        /\ First(List, n + 1) = First(List, n) \cup {Head(todo)}
    BY <1>1, <2>2, <2>3, NextOfList
  <2>5. PICK m \in Nat : m = n + 1 /\ m \in 0 .. Len(List)
    BY <2>2, <2>4
  <2>6. Following(m)'
    BY <2>2, <2>4, <2>5 DEF Following
  <2>7. /\ held' \subseteq Gets(drv, at - 1) \ First(List, m)
        /\ Kept(drv, at - 1) \ First(List, m) \subseteq held' \cup ignored
    BY <2>1, <2>4, <2>5 DEF Left
  <2>8. phase = "exit" /\ Flushed(drv, m) => bh = "idle"
    <3> SUFFICES ASSUME phase = "exit", Flushed(drv, m) PROVE bh = "idle"
      OBVIOUS
    <3>1. PICK w \in 1 .. m : Down(drv)[w] = "wait" /\ Closed(drv, Triggers(drv), w - 1)
      BY DEF Flushed
    <3>2. CASE w = m
      BY <2>4, <2>5, <3>1, <3>2 DEF List
    <3>3. CASE w # m
      <4>1. w \in 1 .. n
        BY <2>5, <3>3
      <4>2. Flushed(drv, n)
        BY <3>1, <4>1 DEF Flushed
      <4> QED BY <2>1, <4>2 DEF Left
    <3> QED BY <3>2, <3>3
  <2>9. Left(m)'
    BY <2>2, <2>7, <2>8 DEF Left
  <2> QED BY <2>6, <2>9 DEF Releasing
<1> QED
  BY <1>1, <1>2, <1>3, <1>4 DEF IInv, Order, Outside, Overlooked, Users

LEMMA ReleaseStep == ASSUME IInv, InOrder(drv), Wait \/ Release PROVE IInv'
<1>1. CASE Wait
  <2>1. "wait" \notin held
    BY DEF IInv, Basic, InOrder, WellFormed
  <2> QED BY <1>1, <2>1, OneReleased DEF Wait
<1>2. CASE Release
  BY <1>2, OneReleased DEF Release
<1> QED
  BY <1>1, <1>2

LEMMA UnloadStep == ASSUME IInv, InOrder(drv), Unload PROVE IInv'
<1>1. /\ phase = "live" /\ phase' = "exit" /\ ~open /\ todo' = Down(drv)
      /\ UNCHANGED <<drv, at, held, ignored, open, bh>>
  BY DEF Unload, D, Down
<1>2. List' = Down(drv) /\ Down(drv) \in Seq(Resource)
  BY <1>1 DEF List, InOrder, WellFormed, Down
<1>3. Basic'
  BY <1>1, <1>2 DEF IInv, Basic, Last, Up
<1>4. Releasing'
  <2>1. Following(0)'
    BY <1>1, <1>2 DEF Following, Rest
  <2>2. First(Down(drv), 0) = {} /\ ~Flushed(drv, 0)
    BY DEF First, Flushed
  <2>3. Left(0)'
    BY <1>1, <1>2, <2>2 DEF IInv, Loading, Left
  <2> QED BY <2>1, <2>3 DEF Releasing
<1> QED
  BY <1>1, <1>3, <1>4 DEF IInv, Order, Loading, Outside, Overlooked, Users

\* When a list is worked off, only what is known to stay is left.
LEMMA WorkedOff ==
    ASSUME IInv, InOrder(drv), phase \in {"unwind", "exit"}, todo = <<>>
    PROVE  /\ held \subseteq Memory \cup Leak[drv]
           /\ phase = "exit" /\ Flushed(drv, Len(Down(drv))) => bh = "idle"
<1>1. PICK n \in Nat : Following(n) /\ Left(n)
  BY DEF IInv, Releasing
<1>2. CASE phase = "exit"
  <2>1. List = Down(drv) /\ Len(List) \in Nat
    BY <1>2 DEF List, InOrder, WellFormed
  <2>2. n = Len(Down(drv))
    BY <1>1, <2>1 DEF Following, Rest
  <2>3. at - 1 = Last(drv)
    BY <1>2 DEF IInv, Order, InOrder, WellFormed, Last
  <2>4. held \subseteq Gets(drv, Last(drv)) \ Among(Down(drv))
    BY <1>1, <2>1, <2>2, <2>3 DEF Left, Among
  <2> QED BY <1>1, <2>2, <2>4 DEF Left, InOrder, Complete
<1>3. CASE phase = "unwind"
  <2>1. at \in Fatal(drv) /\ at \in 1 .. Last(drv)
    BY <1>3 DEF IInv, Order, Fatal
  <2>2. List = Up(drv)[at].undo /\ Len(List) \in Nat
    BY <1>3, <2>1, StepAt DEF List, InOrder
  <2>3. n = Len(Up(drv)[at].undo)
    BY <1>1, <2>2 DEF Following, Rest
  <2>4. held \subseteq Gets(drv, at - 1) \ Among(Up(drv)[at].undo)
    BY <1>1, <2>2, <2>3 DEF Left, Among
  <2> QED BY <1>3, <2>1, <2>4 DEF InOrder, Complete
<1> QED
  BY <1>2, <1>3

LEMMA GoneStep == ASSUME IInv, InOrder(drv), Gone PROVE IInv'
<1>1. /\ phase \in {"unwind", "exit"} /\ todo = <<>> /\ phase' = "out" /\ held' = held \ Memory
      /\ UNCHANGED <<drv, at, todo, ignored, open, bh>>
  BY DEF Gone
<1>2. held' \subseteq Leak[drv]
  BY <1>1, WorkedOff
<1>3. Basic'
  BY <1>1 DEF IInv, Basic, Last, Up
<1> QED
  BY <1>1, <1>2, <1>3 DEF IInv, Order, Loading, Releasing, Outside, Overlooked, Users
-----------------------------------------------------------------------------
(* The steps of the others.                                                *)

\* They change nothing of the driver's; what they change must fit its place.
LEMMA OthersStep ==
    ASSUME IInv, UNCHANGED <<drv, phase, at, todo, held, ignored>>, Users',
           bh' = "idle" \/ bh' = bh
              \/ \A n \in Nat : phase = "exit" /\ Following(n) /\ Left(n) => ~Flushed(drv, n)
    PROVE  IInv'
<1>1. List' = List
  BY DEF List
<1>2. Releasing'
  <2> SUFFICES ASSUME phase \in {"unwind", "exit"} PROVE Releasing'
    BY DEF Releasing
  <2>1. PICK n \in Nat : Following(n) /\ Left(n)
    BY DEF IInv, Releasing
  <2>2. Following(n)'
    BY <1>1, <2>1 DEF Following
  <2>3. phase = "exit" /\ Flushed(drv, n) => bh' = "idle"
    BY <2>1 DEF Left
  <2>4. Left(n)'
    BY <1>1, <2>1, <2>3 DEF Left
  <2> QED BY <2>2, <2>4 DEF Releasing
<1> QED
  BY <1>2 DEF IInv, Basic, Order, Loading, Outside, Overlooked, Last, Up

LEMMA FileStep == ASSUME IInv, Open \/ Close PROVE IInv'
<1>1. CASE Open
  <2>1. /\ phase \in {"init", "unwind", "live"} /\ Driver[drv].doors \cap Pinning \cap held # {}
        /\ UNCHANGED <<drv, phase, at, todo, held, ignored, bh>>
    BY <1>1 DEF Open, D
  <2>2. held \subseteq Gets(drv, at - 1)
    BY <2>1, HeldIsGot
  <2>3. Users'
    BY <2>1, <2>2 DEF IInv, Users
  <2> QED BY <2>1, <2>3, OthersStep
<1>2. CASE Close
  <2>1. ~open' /\ UNCHANGED <<drv, phase, at, todo, held, ignored, bh>>
    BY <1>2 DEF Close
  <2>2. Users'
    BY <2>1 DEF IInv, Users
  <2> QED BY <2>1, <2>2, OthersStep
<1> QED
  BY <1>1, <1>2

\* Once exit has waited with its triggers closed, none of them fires.
LEMMA ClosedForGood ==
    ASSUME IInv, InOrder(drv), phase = "exit", NEW n \in Nat, Following(n), Left(n), Flushed(drv, n)
    PROVE  held \cap (Triggers(drv) \ Pinning) = {}
<1>1. PICK w \in 1 .. n : Closed(drv, Triggers(drv), w - 1)
  BY DEF Flushed
<1>2. held \subseteq Gets(drv, Last(drv)) \ First(Down(drv), n)
  <2>1. at - 1 = Last(drv) /\ List = Down(drv)
    BY DEF IInv, Order, List, InOrder, WellFormed, Last
  <2> QED BY <2>1 DEF Left
<1>3. First(Down(drv), w - 1) \subseteq First(Down(drv), n)
  BY DEF First
<1> QED
  BY <1>1, <1>2, <1>3 DEF Closed

LEMMA DeferStep == ASSUME IInv, InOrder(drv), Call \/ Interrupt PROVE IInv'
<1>1. phase # "out" /\ UNCHANGED <<drv, phase, at, todo, held, ignored, open>>
  BY DEF Call, CanCall, Interrupt, CanInterrupt, Defer
<1>2. held \subseteq Gets(drv, at - 1)
  BY <1>1, HeldIsGot
<1>3. Able(drv, at - 1)
  <2>1. CASE Call
    <3>1. "call" \in Driver[drv].defers /\ Driver[drv].call \subseteq held
      BY <2>1 DEF Call, Defer, D
    <3>2. Driver[drv].doors \cap Gets(drv, at - 1) # {}
      BY <1>1, <1>2, <2>1 DEF Call, CanCall, D, IInv, Users
    <3> QED BY <1>2, <3>1, <3>2 DEF Able
  <2>2. CASE Interrupt
    <3>1. "irq" \in Driver[drv].defers /\ Driver[drv].irq \subseteq held
      BY <2>2 DEF Interrupt, Defer, D
    <3>2. Irqs \cap Gets(drv, at - 1) # {}
      BY <1>2, <2>2 DEF Interrupt, CanInterrupt
    <3> QED BY <1>2, <3>1, <3>2 DEF Able
  <2> QED BY <2>1, <2>2
<1>4. Users'
  BY <1>1, <1>3 DEF IInv, Users
<1>5. ASSUME phase = "exit" PROVE held \cap (Triggers(drv) \ Pinning) # {}
  <2>1. CASE Call
    <3>1. "call" \in Driver[drv].defers /\ (Driver[drv].doors \ Pinning) \cap held # {}
      BY <1>5, <2>1 DEF Call, CanCall, Defer, D, IInv, Users
    <3> QED BY <3>1 DEF Triggers
  <2>2. CASE Interrupt
    <3>1. "irq" \in Driver[drv].defers /\ Irqs \cap held # {}
      BY <2>2 DEF Interrupt, CanInterrupt, Defer, D
    <3>2. Irqs \cap Pinning = {}
      BY DEF Irqs, Pinning
    <3> QED BY <3>1, <3>2 DEF Triggers
  <2> QED BY <2>1, <2>2
<1> QED
  BY <1>1, <1>4, <1>5, ClosedForGood, OthersStep

LEMMA WorkStep == ASSUME IInv, Work PROVE IInv'
<1>1. bh' = "idle" /\ UNCHANGED <<drv, phase, at, todo, held, ignored, open>>
  BY DEF Work
<1>2. Users'
  BY <1>1 DEF IInv, Users
<1> QED
  BY <1>1, <1>2, OthersStep

LEMMA Inductive == Rules /\ IInv /\ [Next]_vars => IInv'
<1> SUFFICES ASSUME Rules, IInv, [Next]_vars PROVE IInv'
  OBVIOUS
<1>1. InOrder(drv)
  BY DEF Rules, IInv, Basic
<1>2. CASE UNCHANGED vars
  <2>1. Users'
    BY <1>2 DEF vars, IInv, Users
  <2> QED BY <1>2, <2>1, OthersStep DEF vars
<1> QED
  BY <1>1, <1>2, LoadStep, AcquireStep, FailStep, LoadedStep, ReleaseStep, UnloadStep, GoneStep,
     FileStep, DeferStep, WorkStep DEF Next

(* The rules are about the constants alone.                                *)
LEMMA StillRules == Rules => []Rules
<1>1. Rules => Rules'
  BY DEF Rules
<1> QED BY <1>1, PTL

(* Whatever the tables, if they keep the rules.                            *)
THEOREM Invariance == Rules /\ Spec => []IInv
<1>1. Rules /\ Spec => [](Rules /\ IInv)
  <2>1. Rules /\ Init => Rules /\ IInv
    BY InitIInv
  <2>2. Rules /\ IInv /\ [Next]_vars => IInv'
    BY Inductive
  <2> QED BY <2>1, <2>2, StillRules, PTL DEF Spec
<1> QED
  BY <1>1, PTL
-----------------------------------------------------------------------------
(* A load that fails, wherever it fails, and an unload leave nothing but   *)
(* what Leak lists, if every failure path and exit of the table releases   *)
(* all that init has by then.                                              *)
THEOREM NothingIsLeft == Rules /\ Spec => []LeavesNothing
<1>1. IInv => LeavesNothing
  BY DEF IInv, Outside, LeavesNothing
<1> QED
  BY <1>1, Invariance, PTL

(* No step of a failure path or of exit releases what init did not acquire *)
(* nor what an earlier step of it has released, but for what Twice lists;  *)
(* what init failed to acquire is released only by code that looks first,  *)
(* or that Unchecked lists.                                                *)
THEOREM ReleasesAreOfWhatIsHeld == Rules /\ Spec => []ReleasesWhatItHas
<1>1. Rules /\ IInv => ReleasesWhatItHas
  <2> SUFFICES ASSUME Rules, IInv, todo # <<>>
               PROVE \/ Head(todo) \in held \cup Exempt(drv)
                     \/ Head(todo) \in ignored \cap (Driver[drv].careful \cup Unchecked[drv])
    BY DEF ReleasesWhatItHas, Exempt, D
  <2>1. InOrder(drv) /\ todo \in Seq(Resource) /\ phase \in {"init", "unwind", "exit"}
    BY DEF Rules, IInv, Basic, Order
  <2>2. CASE phase = "init"
    <3>1. Head(todo) \in Among(todo)
      <4>1. 1 \in 1 .. Len(todo) /\ Head(todo) = todo[1]
        BY <2>1
      <4> QED BY <4>1 DEF Among, First
    <3> QED BY <2>2, <3>1 DEF IInv, Loading
  <2>3. CASE phase \in {"unwind", "exit"}
    <3>1. PICK n \in Nat : Following(n) /\ Left(n)
      BY <2>3 DEF IInv, Releasing
    <3>2. /\ List \in Seq(Resource) /\ Sound(drv, List, at - 1)
          /\ Among(List) \subseteq Released(drv)
      <4>1. CASE phase = "exit"
        <5>1. at - 1 = Last(drv) /\ List = Down(drv)
          BY <2>1, <4>1 DEF IInv, Order, List, InOrder, WellFormed, Last
        <5> QED BY <2>1, <5>1 DEF InOrder, WellFormed, Precise, Released
      <4>2. CASE phase = "unwind"
        <5>1. at \in Fatal(drv) /\ at \in 1 .. Last(drv) /\ List = Up(drv)[at].undo
          BY <4>2 DEF IInv, Order, Fatal, List
        <5> QED BY <2>1, <5>1, StepAt DEF InOrder, Precise, Released
      <4> QED BY <2>3, <4>1, <4>2
    <3>3. n + 1 \in 1 .. Len(List) /\ Head(todo) = List[n + 1] /\ (n + 1) - 1 = n
      BY <2>1, <3>1, <3>2, NextOfList DEF Following
    <3>4. List[n + 1] \in Exempt(drv) \/ List[n + 1] \in Kept(drv, at - 1) \ First(List, n)
      BY <3>2, <3>3 DEF Sound
    <3>5. Head(todo) \in held \cup ignored \cup Exempt(drv)
      BY <3>1, <3>3, <3>4 DEF Left
    <3>6. Head(todo) \in Released(drv)
      BY <3>2, <3>3 DEF Among, First
    <3> QED BY <2>1, <3>5, <3>6 DEF IInv, Overlooked, InOrder, Noted
  <2> QED BY <2>1, <2>2, <2>3
<1> QED
  BY <1>1, StillRules, Invariance, PTL

\* A use that the rules for one way to the handlers cover is there, or its lack
\* has been ignored, or known, whenever that way has come.
LEMMA UsesAreThere ==
    ASSUME IInv, InOrder(drv), phase \in {"init", "live", "unwind"}, NEW ways, NEW uses,
           Ready(drv, ways, uses), ways \cap Gets(drv, at - 1) # {}, NEW u \in uses
    PROVE  u \in held \cup ignored \/ <<u, phase>> \in Gap[drv]
<1>1. Last(drv) \in Nat /\ at \in 1 .. Last(drv) + 1
  BY DEF InOrder, WellFormed, Last, IInv, Basic
<1>2. CASE phase = "init"
  <2>1. PICK j \in 1 .. at - 1 : Up(drv)[j].get \in ways
    BY DEF Gets
  <2>2. j \in 1 .. Last(drv) /\ j - 1 \in Nat /\ at - 1 \in Nat /\ j - 1 <= at - 1
    BY <1>1
  <2>3. Kept(drv, j - 1) \subseteq Kept(drv, at - 1)
    BY <2>2, Grow
  <2> QED BY <1>2, <2>1, <2>2, <2>3 DEF Ready, IInv, Loading
<1>3. CASE phase = "live"
  <2>1. at - 1 = Last(drv)
    BY <1>1, <1>3 DEF IInv, Order
  <2> QED BY <1>3, <2>1 DEF Ready, IInv, Loading
<1>4. CASE phase = "unwind"
  <2>1. PICK n \in Nat : Following(n) /\ Left(n)
    BY <1>4 DEF IInv, Releasing
  <2>2. at \in Fatal(drv) /\ List = Up(drv)[at].undo
    BY <1>4 DEF IInv, Order, List
  <2>3. First(List, n) \subseteq Among(List)
    <3>1. 1 .. n \subseteq 1 .. Len(List)
      BY <2>1 DEF Following
    <3> QED BY <3>1 DEF First, Among
  <2> QED BY <1>4, <2>1, <2>2, <2>3 DEF Ready, Left
<1> QED
  BY <1>2, <1>3, <1>4

\* In exit, as long as one of the ways that do not pin the module is open.
LEMMA UsesAreGuarded ==
    ASSUME IInv, InOrder(drv), phase = "exit", NEW ways, NEW uses,
           Guarded(drv, ways, uses), (ways \ Pinning) \cap held # {}, NEW u \in uses
    PROVE  u \in held \cup ignored \/ <<u, "exit">> \in Gap[drv]
<1>1. at - 1 = Last(drv) /\ List = Down(drv)
  BY DEF IInv, Order, List, InOrder, WellFormed, Last
<1>2. PICK n \in Nat : Following(n) /\ Left(n)
  BY DEF IInv, Releasing
<1>3. PICK r \in (ways \ Pinning) \cap Gets(drv, Last(drv)) : r \in held /\ r \notin First(Down(drv), n)
  BY <1>1, <1>2 DEF Left
<1>4. SUFFICES ASSUME u \in Kept(drv, Last(drv)), u \in First(Down(drv), n),
                      \A k \in 1 .. Len(Down(drv)) : Down(drv)[k] = u => Closed(drv, ways, k - 1)
               PROVE  FALSE
  BY <1>1, <1>2, <1>3 DEF Guarded, Left
<1>5. PICK k \in 1 .. n : Down(drv)[k] = u
  BY <1>4 DEF First
<1>6. k \in 1 .. Len(Down(drv))
  BY <1>1, <1>2 DEF Following
<1>7. r \in First(Down(drv), k - 1)
  BY <1>3, <1>4, <1>5, <1>6 DEF Closed
<1>8. First(Down(drv), k - 1) \subseteq First(Down(drv), n)
  BY DEF First
<1> QED
  BY <1>3, <1>7, <1>8

\* Deferred work runs in exit until it has been waited for.
LEMMA WorkIsGuarded ==
    ASSUME IInv, InOrder(drv), phase = "exit", bh = "pending", NEW u \in Driver[drv].work
    PROVE  u \in held \cup ignored \/ <<u, "exit">> \in Gap[drv]
<1>1. at - 1 = Last(drv) /\ List = Down(drv)
  BY DEF IInv, Order, List, InOrder, WellFormed, Last
<1>2. PICK n \in Nat : Following(n) /\ Left(n)
  BY DEF IInv, Releasing
<1>3. Able(drv, Last(drv)) /\ ~Flushed(drv, n)
  BY <1>1, <1>2 DEF IInv, Users, Left
<1>4. SUFFICES ASSUME u \in Kept(drv, Last(drv)), u \in First(Down(drv), n),
                      \A k \in 1 .. Len(Down(drv)) : Down(drv)[k] = u => Flushed(drv, k - 1)
               PROVE  FALSE
  BY <1>1, <1>2, <1>3 DEF InOrder, Outlived, Left
<1>5. PICK k \in 1 .. n : Down(drv)[k] = u
  BY <1>4 DEF First
<1>6. k \in 1 .. Len(Down(drv))
  BY <1>1, <1>2 DEF Following
<1>7. Flushed(drv, k - 1)
  BY <1>4, <1>5, <1>6
<1>8. Flushed(drv, n)
  BY <1>7 DEF Flushed
<1> QED
  BY <1>3, <1>8

(* Nothing that can run, be it a call, an interrupt or deferred work, is   *)
(* without what it uses in any phase that Gap does not list, if the tables *)
(* set uses up before the ways to them and close the ways before the uses; *)
(* nor without what init failed to acquire, but as Unchecked lists.        *)
THEOREM HandlersAreSafe == Rules /\ Spec => []HandlersFindWhatTheyUse
<1>1. Rules /\ IInv => HandlersFindWhatTheyUse
  <2> SUFFICES ASSUME Rules, IInv, NEW u \in Missing
               PROVE u \in ignored \cap Unchecked[drv] \/ <<u, phase>> \in Gap[drv]
    BY DEF HandlersFindWhatTheyUse
  <2>1. u \notin held /\ \/ CanCall /\ u \in Driver[drv].call
                         \/ CanInterrupt /\ u \in Driver[drv].irq
                         \/ CanWork /\ u \in Driver[drv].work
    BY DEF Missing, D
  <2>2. InOrder(drv) /\ phase \in {"init", "live", "unwind", "exit"}
    BY <2>1 DEF Rules, IInv, Basic, CanCall, CanInterrupt, CanWork
  <2>n. u \in ignored => u \in Unchecked[drv]
    BY <2>1, <2>2 DEF InOrder, Noted, Used, IInv, Overlooked
  <2>3. held \subseteq Gets(drv, at - 1)
    BY <2>2, HeldIsGot
  <2>4. CASE CanCall /\ u \in Driver[drv].call
    <3>1. Driver[drv].doors \cap Gets(drv, at - 1) # {}
      BY <2>3, <2>4 DEF CanCall, D, IInv, Users
    <3>2. CASE phase # "exit"
      BY <2>1, <2>2, <2>n, <2>4, <3>1, <3>2, UsesAreThere DEF InOrder
    <3>3. CASE phase = "exit"
      <4>1. (Driver[drv].doors \ Pinning) \cap held # {}
        BY <2>4, <3>3 DEF CanCall, D, IInv, Users
      <4> QED BY <2>1, <2>2, <2>n, <2>4, <3>3, <4>1, UsesAreGuarded DEF InOrder
    <3> QED BY <3>2, <3>3
  <2>5. CASE CanInterrupt /\ u \in Driver[drv].irq
    <3>1. Irqs \cap Gets(drv, at - 1) # {}
      BY <2>3, <2>5 DEF CanInterrupt
    <3>2. CASE phase # "exit"
      BY <2>1, <2>2, <2>n, <2>5, <3>1, <3>2, UsesAreThere DEF InOrder
    <3>3. CASE phase = "exit"
      <4>1. (Irqs \ Pinning) \cap held # {}
        BY <2>5 DEF CanInterrupt, Irqs, Pinning
      <4> QED BY <2>1, <2>2, <2>n, <2>5, <3>3, <4>1, UsesAreGuarded DEF InOrder
    <3> QED BY <3>2, <3>3
  <2>6. CASE CanWork /\ u \in Driver[drv].work
    <3>1. Triggers(drv) \cap Gets(drv, at - 1) # {}
      BY <2>6 DEF CanWork, IInv, Users, Able, Triggers
    <3>2. CASE phase # "exit"
      BY <2>1, <2>2, <2>n, <2>6, <3>1, <3>2, UsesAreThere DEF InOrder
    <3>3. CASE phase = "exit"
      BY <2>1, <2>2, <2>n, <2>6, <3>3, WorkIsGuarded DEF CanWork
    <3> QED BY <3>2, <3>3
  <2> QED BY <2>1, <2>4, <2>5, <2>6
<1> QED
  BY <1>1, StillRules, Invariance, PTL

(* When init has failed or exit has returned, no work of the driver's is   *)
(* due but in the phases of Late, and after an unload no file is open.     *)
THEOREM EndsAreFinal == Rules /\ Spec => EndIsFinal
<1>1. Rules /\ IInv /\ [Next]_vars =>
         [phase' = "out" /\ phase # "out"
            => (bh = "idle" \/ phase \in Late[drv]) /\ (open => phase = "unwind")]_vars
  <2> SUFFICES ASSUME Rules, IInv, Next, phase' = "out", phase # "out"
               PROVE (bh = "idle" \/ phase \in Late[drv]) /\ (open => phase = "unwind")
    BY DEF vars
  <2>1. Gone
    BY DEF Next, Load, Acquire, Acquiring, Fail, Loaded, Wait, Release, Unload, Open, Close, Call,
           Interrupt, Defer, Work
  <2>2. phase \in {"unwind", "exit"} /\ todo = <<>> /\ InOrder(drv)
    BY <2>1 DEF Gone, Rules, IInv, Basic
  <2>3. open => phase = "unwind"
    BY <2>2 DEF IInv, Users
  <2>4. CASE phase = "exit"
    <3>1. at - 1 = Last(drv)
      BY <2>2, <2>4 DEF IInv, Order, InOrder, WellFormed, Last
    <3>2. bh # "idle" => Able(drv, Last(drv)) /\ ~Flushed(drv, Len(Down(drv)))
      BY <2>2, <2>4, <3>1, WorkedOff DEF IInv, Users
    <3> QED BY <2>2, <2>3, <2>4, <3>2 DEF InOrder, Finished
  <2>5. CASE phase = "unwind"
    <3>1. at \in Fatal(drv) /\ (bh # "idle" => Able(drv, at - 1))
      BY <2>5 DEF IInv, Order, Users
    <3> QED BY <2>2, <2>3, <2>5, <3>1 DEF InOrder, Finished
  <2> QED BY <2>2, <2>4, <2>5
<1> QED
  BY <1>1, StillRules, Invariance, PTL DEF Spec, EndIsFinal

(* Type correctness: init's place stays in its table, and the driver has   *)
(* nothing that its init does not ask for.                                 *)
THEOREM TypeCorrect == Rules /\ Spec => []TypeOK
<1> DEFINE Flags == open \in BOOLEAN /\ bh \in {"idle", "pending"}
<1>1. Init => Flags
  BY DEF Init
<1>2. Flags /\ [Next]_vars => Flags'
  BY DEF Next, Load, Acquire, Fail, Loaded, Wait, Release, Unload, Gone, Open, Close, Call,
         Interrupt, Defer, Work, vars
<1>3. IInv /\ Flags => TypeOK
  BY DEF IInv, Basic, TypeOK, Asks, Last, Up, D
<1> QED
  BY <1>1, <1>2, <1>3, Invariance, PTL DEF Spec
-----------------------------------------------------------------------------
(* The tables of the repository keep the rules.  Nearly all releases run   *)
(* backwards through what has been acquired (Mirrors); the others are      *)
(* looked at one by one (Undoes).                                          *)

Repository == /\ Driver = Drivers /\ Leak = KnownLeaks /\ Twice = KnownDoubles
              /\ Unchecked = KnownUnchecked /\ Gap = KnownGaps /\ Late = KnownLate
\* Driver d is this table, and this is what is known to go wrong in it.
Has(d, table, leak, twice, unchecked, gap, late) ==
    /\ d \in DOMAIN Driver /\ Driver[d] = table /\ Leak[d] = leak /\ Twice[d] = twice
    /\ Unchecked[d] = unchecked /\ Gap[d] = gap /\ Late[d] = late
Uses(d, call, irq, work, defers) == /\ Driver[d].call = call /\ Driver[d].irq = irq
                                    /\ Driver[d].work = work /\ Driver[d].defers = defers

Sequence(list) == list = [k \in 1 .. Len(list) |-> list[k]]
\* A step that works and, if its failure is passed over, takes nothing back.
Row(step) == \E r, list : step \in {Need(r, list), Try(r), Sure(r)}
Plain(d) == \A i \in 1 .. Last(d) : Row(Up(d)[i])
Distinct(d) == \A i, j \in 1 .. Last(d) : Up(d)[i].get = Up(d)[j].get => i = j

\* The list releases what the first n steps have asked for, and nothing twice.
Mirrors(d, list, n) == list = [k \in 1 .. n |-> Up(d)[n + 1 - k].get]
Undoes(d, list, n) ==
    /\ Sequence(list) /\ Len(list) \in Nat
    /\ Asks(d, n) \subseteq Among(list) \cup Memory \cup Leak[d]
    /\ \A k \in 1 .. Len(list) : list[k] \in Exempt(d) \/ list[k] \in Asks(d, n) \ First(list, k - 1)
Cleans(d, list, n) == Mirrors(d, list, n) \/ Undoes(d, list, n)
Unwinds(d, i) == Up(d)[i].abort => Cleans(d, Up(d)[i].undo, i - 1)

\* The rules on handlers and deferred work.
Handlers(d) == /\ Ready(d, Driver[d].doors, Driver[d].call)
               /\ Guarded(d, Driver[d].doors, Driver[d].call)
               /\ Ready(d, Irqs, Driver[d].irq) /\ Guarded(d, Irqs, Driver[d].irq)
               /\ Ready(d, Triggers(d), Driver[d].work) /\ Outlived(d) /\ Finished(d)

\* What a step acquires is not passed over, or it is known to be, or no handler
\* uses it and who releases it looks first or does no harm.
Minded(d, step) == \/ ~step.fallible \/ step.abort \/ step.get \in Unchecked[d]
                   \/ step.get \in (Exempt(d) \cup Driver[d].careful) \ Used(d)

LEMMA MindedNoted ==
    ASSUME NEW d, \A i \in 1 .. Last(d) : Minded(d, Up(d)[i])
    PROVE  Noted(d)
BY DEF Minded, Noted, Skipped, Passed

\* Releasing backwards what was acquired releases all of it and nothing twice.
LEMMA MirrorUndoes ==
    ASSUME NEW d, Distinct(d), Last(d) \in Nat, NEW n \in 0 .. Last(d),
           NEW list, Mirrors(d, list, n)
    PROVE  Undoes(d, list, n)
<1>0. Len(list) = n /\ \A k \in 1 .. n : list[k] = Up(d)[n + 1 - k].get
  BY DEF Mirrors
<1>s. Sequence(list)
  BY DEF Mirrors, Sequence
<1> USE <1>0
<1> HIDE DEF Last, Up
<1>1. ASSUME NEW i \in 1 .. n PROVE Up(d)[i].get \in Among(list)
  <2>1. /\ n + 1 - i \in 1 .. n /\ n + 1 - (n + 1 - i) = i
        /\ list[n + 1 - i] = Up(d)[n + 1 - (n + 1 - i)].get
    OBVIOUS
  <2> QED BY <2>1 DEF Among, First
<1>2. Asks(d, n) \subseteq Among(list)
  BY <1>1 DEF Asks
<1>3. ASSUME NEW k \in 1 .. n PROVE list[k] \in Asks(d, n)
  <2>1. n + 1 - k \in 1 .. n
    OBVIOUS
  <2> QED BY <2>1 DEF Asks
<1>4. ASSUME NEW k \in 1 .. n PROVE list[k] \notin First(list, k - 1)
  <2> SUFFICES ASSUME NEW m \in 1 .. k - 1, list[m] = list[k] PROVE FALSE
    BY DEF First
  <2>1. n + 1 - k \in 1 .. Last(d) /\ n + 1 - m \in 1 .. Last(d) /\ n + 1 - k # n + 1 - m
    OBVIOUS
  <2>2. Up(d)[n + 1 - k].get = Up(d)[n + 1 - m].get
    OBVIOUS
  <2> QED BY <2>1, <2>2 DEF Distinct
<1> QED BY <1>s, <1>2, <1>3, <1>4 DEF Undoes

\* A sequence of elements of U.
LEMMA SeqOf == ASSUME NEW U, NEW n \in Nat, NEW list, list = [k \in 1 .. n |-> list[k]],
                      \A k \in 1 .. n : list[k] \in U
               PROVE list \in Seq(U)
OBVIOUS

\* The steps that are rows.
LEMMA RowOf == ASSUME NEW r, NEW list PROVE Row(Need(r, list)) /\ Row(Try(r)) /\ Row(Sure(r))
BY DEF Row

\* A row works, and a failure that it passes over takes nothing along.
LEMMA RowFields ==
    ASSUME NEW step, Row(step)
    PROVE  /\ step.works /\ step.skip = 0 /\ (step.abort \/ step.undo = <<>>)
           /\ step.get \in Resource /\ step.undo \in Seq(Resource) => step \in StepType
<1> PICK r, list : step \in {Need(r, list), Try(r), Sure(r)}
  BY DEF Row
<1>0. <<>> \in Seq(Resource)
  OBVIOUS
<1>1. CASE step = Need(r, list)
  BY <1>1 DEF Need, StepType
<1>2. CASE step = Try(r)
  BY <1>0, <1>2 DEF Try, StepType
<1>3. CASE step = Sure(r)
  BY <1>0, <1>3 DEF Sure, StepType
<1> QED BY <1>1, <1>2, <1>3

\* When init has only such steps and every list cleans up, the rules on releases
\* are kept, and init is sure of all it has asked for.
LEMMA PlainRules ==
    ASSUME NEW d \in DOMAIN Driver, Plain(d), Sequence(Up(d)), Last(d) \in Nat, Distinct(d),
           "wait" \notin Asks(d, Last(d)),
           \A i \in 1 .. Last(d) : Unwinds(d, i), Cleans(d, Down(d), Last(d))
    PROVE  /\ WellFormed(d) /\ Complete(d) /\ Precise(d)
           /\ \A n \in 0 .. Last(d) : Gets(d, n) = Asks(d, n) /\ Kept(d, n) = Asks(d, n)
<1>p. \A i \in 1 .. Last(d) : /\ Up(d)[i].works /\ Up(d)[i].skip = 0
                              /\ Up(d)[i].abort \/ Up(d)[i].undo = <<>>
                              /\ Up(d)[i].get \in Resource /\ Up(d)[i].undo \in Seq(Resource)
                                 => Up(d)[i] \in StepType
  BY RowFields DEF Plain
<1>a. Undoes(d, Down(d), Last(d))
  BY MirrorUndoes DEF Cleans
<1>b. \A i \in 1 .. Last(d) : Up(d)[i].abort => Undoes(d, Up(d)[i].undo, i - 1)
  <2> SUFFICES ASSUME NEW i \in 1 .. Last(d), Up(d)[i].abort PROVE Undoes(d, Up(d)[i].undo, i - 1)
    OBVIOUS
  <2>1. i - 1 \in 0 .. Last(d)
    OBVIOUS
  <2> QED BY <2>1, MirrorUndoes DEF Cleans, Unwinds
<1>1. Lost(d) = {}
  <2>1. \A i \in Passed(d) : Up(d)[i].undo = <<>> /\ Up(d)[i].skip = 0 /\ i \in 1 .. Last(d)
    BY <1>p DEF Passed
  <2>2. \A i \in Passed(d) : /\ Among(Up(d)[i].undo) = {}
                             /\ {Up(d)[j].get : j \in i + 1 .. i + Up(d)[i].skip} = {}
    BY <2>1 DEF Among, First
  <2> QED BY <2>2 DEF Lost
<1>2. ASSUME NEW n \in 0 .. Last(d) PROVE Gets(d, n) = Asks(d, n) /\ Kept(d, n) = Asks(d, n)
  <2>1. {j \in 1 .. n : Up(d)[j].works} = 1 .. n
    BY <1>p
  <2> QED BY <1>1, <2>1 DEF Gets, Asks, Kept
<1>3. \A i \in Fatal(d) : i \in 1 .. Last(d) /\ i - 1 \in 0 .. Last(d) /\ Up(d)[i].abort
  BY DEF Fatal
<1>r. Asks(d, Last(d)) \cup Exempt(d) \subseteq Resource
  BY DEF Resource
<1>t. ASSUME NEW list, NEW n \in 0 .. Last(d), Undoes(d, list, n) PROVE list \in Seq(Resource)
  <2>1. Asks(d, n) \subseteq Asks(d, Last(d))
    BY DEF Asks
  <2>2. \A k \in 1 .. Len(list) : list[k] \in Resource
    BY <1>r, <1>t, <2>1 DEF Undoes
  <2>3. Len(list) \in Nat /\ list = [k \in 1 .. Len(list) |-> list[k]]
    BY <1>t DEF Undoes, Sequence
  <2> QED BY <2>2, <2>3, SeqOf
<1>4. WellFormed(d)
  <2>1. Down(d) \in Seq(Resource)
    BY <1>a, <1>t
  <2>2. ASSUME NEW i \in 1 .. Last(d) PROVE Up(d)[i].undo \in Seq(Resource)
    <3>1. CASE Up(d)[i].abort
      <4>1. i - 1 \in 0 .. Last(d)
        OBVIOUS
      <4> QED BY <1>b, <1>t, <3>1, <4>1
    <3>2. CASE ~Up(d)[i].abort
      <4>1. Up(d)[i].undo = <<>>
        BY <1>p, <3>2
      <4> QED BY <4>1
    <3> QED BY <3>1, <3>2
  <2>3. \A i \in 1 .. Last(d) : Up(d)[i] \in StepType
    BY <1>p, <1>r, <2>2 DEF Asks
  <2>4. Up(d) \in Seq(StepType)
    BY <2>3, SeqOf DEF Sequence, Last
  <2> QED BY <1>p, <2>1, <2>4 DEF WellFormed
<1>5. Complete(d)
  BY <1>2, <1>3, <1>a, <1>b DEF Complete, Undoes
<1>6. \A i \in Passed(d) : Among(Up(d)[i].undo) = {}
  BY <1>p DEF Passed, Among, First
<1>7. Precise(d)
  <2>1. \A i \in Fatal(d) : Sound(d, Up(d)[i].undo, i - 1)
    BY <1>2, <1>3, <1>b DEF Undoes, Sound
  <2>2. Sound(d, Down(d), Last(d))
    BY <1>2, <1>a DEF Undoes, Sound
  <2> QED BY <1>6, <2>1, <2>2 DEF Precise
<1> QED BY <1>2, <1>4, <1>5, <1>7

\* A driver whose failure paths and exit clean up, and whose handlers use nothing
\* and put nothing off, is in order whatever it acquires.
LEMMA MirroredInOrder ==
    ASSUME NEW d \in DOMAIN Driver, Plain(d), Sequence(Up(d)), Last(d) \in Nat, Distinct(d),
           "wait" \notin Asks(d, Last(d)), Uses(d, {}, {}, {}, {}),
           \A i \in 1 .. Last(d) : Unwinds(d, i), Cleans(d, Down(d), Last(d)),
           \A i \in 1 .. Last(d) : Minded(d, Up(d)[i])
    PROVE  InOrder(d)
<1>1. WellFormed(d) /\ Complete(d) /\ Precise(d)
  BY PlainRules
<1>2. Handlers(d)
  BY DEF Handlers, Uses, Ready, Guarded, Outlived, Finished, Able
<1> QED BY <1>1, <1>2, MindedNoted DEF Handlers, InOrder

\* One acquisition: the drivers with an interrupt that only count, the /proc files,
\* 009/io.c, and the I2C and SPI drivers.
LEMMA SingleInOrder ==
    ASSUME NEW d \in DOMAIN Driver,
           Driver[d] \in {KeyCounter, ProcDemo, ProcWriter, GpiobtnProc, CharDriver, I2cTest},
           Driver[d] \in {ProcDemo, ProcWriter, GpiobtnProc} => Unchecked[d] = {"proc"}
    PROVE  InOrder(d)
<1>1. PICK r : /\ r # "wait" /\ Down(d) = <<r>>
               /\ \/ Up(d) = <<Need(r, <<>>)>>
                  \/ Up(d) = <<Try(r)>> /\ r \in Unchecked[d]
  BY DEF KeyCounter, ProcDemo, ProcWriter, GpiobtnProc, CharDriver, I2cTest, Table, Up, Down
<1>2. Uses(d, {}, {}, {}, {})
  BY DEF KeyCounter, ProcDemo, ProcWriter, GpiobtnProc, CharDriver, I2cTest, Table, Uses
<1>3. /\ Last(d) = 1 /\ Sequence(Up(d))
      /\ \/ Up(d)[1] = Need(r, <<>>)
         \/ Up(d)[1] = Try(r) /\ r \in Unchecked[d]
  BY <1>1 DEF Last, Sequence
<1>4. Plain(d)
  BY <1>3, RowOf DEF Plain
<1>5. Distinct(d) /\ "wait" \notin Asks(d, 1)
  BY <1>1, <1>3 DEF Need, Try, Distinct, Asks
<1>6. (\A i \in 1 .. 1 : Unwinds(d, i)) /\ Cleans(d, Down(d), 1)
  BY <1>1, <1>3 DEF Need, Try, Unwinds, Cleans, Mirrors
<1>7. \A i \in 1 .. 1 : Minded(d, Up(d)[i])
  BY <1>3 DEF Need, Try, Minded
<1> QED BY <1>2, <1>3, <1>4, <1>5, <1>6, <1>7, MirroredInOrder

\* Region, cdev, class and device, each result looked at or not: 012, 014, 025, 026
\* and the two ADC drivers.
LEMMA StackInOrder ==
    ASSUME NEW d \in DOMAIN Driver,
           \/ Driver[d] \in {Autodev, GpiobtnPoll, TinyGpiobtn, AdcBlack}
           \/ Driver[d] = Waitq /\ Unchecked[d] = {"cdev", "class"}
           \/ Driver[d] = AdcBlue /\ Unchecked[d] = {"region", "cdev", "class"}
    PROVE  InOrder(d)
<1>1. /\ Last(d) = 4 /\ Sequence(Up(d))
      /\ \/ Up(d)[1] = Need("region", <<>>)
         \/ Up(d)[1] = Try("region") /\ "region" \in Unchecked[d]
      /\ \/ Up(d)[2] = Need("cdev", <<"region">>)
         \/ Up(d)[2] = Try("cdev") /\ "cdev" \in Unchecked[d]
      /\ \/ Up(d)[3] = Need("class", <<"cdev", "region">>)
         \/ Up(d)[3] = Try("class") /\ "class" \in Unchecked[d]
      /\ Up(d)[4] = Need("device", <<"class", "cdev", "region">>) \/ Up(d)[4] = Try("device")
      /\ Down(d) = <<"device", "class", "cdev", "region">>
  BY DEF Autodev, Waitq, GpiobtnPoll, TinyGpiobtn, AdcBlack, AdcBlue, Table, Last, Up, Down,
         Sequence
<1>2. Uses(d, {}, {}, {}, {})
  BY DEF Autodev, Waitq, GpiobtnPoll, TinyGpiobtn, AdcBlack, AdcBlue, Table, Uses
<1>3. Plain(d)
  <2>1. Row(Up(d)[1]) /\ Row(Up(d)[2]) /\ Row(Up(d)[3]) /\ Row(Up(d)[4])
    <3>1. Row(Up(d)[1])
      BY <1>1, RowOf
    <3>2. Row(Up(d)[2])
      BY <1>1, RowOf
    <3>3. Row(Up(d)[3])
      BY <1>1, RowOf
    <3>4. Row(Up(d)[4])
      BY <1>1, RowOf
    <3> QED BY <3>1, <3>2, <3>3, <3>4
  <2>2. Last(d) = 4
    BY <1>1
  <2> QED BY <2>1, <2>2 DEF Plain
<1>4. /\ Up(d)[1].get = "region" /\ Up(d)[2].get = "cdev"
      /\ Up(d)[3].get = "class" /\ Up(d)[4].get = "device"
  BY <1>1 DEF Need, Try
<1>5. Distinct(d) /\ "wait" \notin Asks(d, 4)
  BY <1>1, <1>4 DEF Distinct, Asks
<1>6. \A i \in 1 .. 4 : Unwinds(d, i)
  <2>1. Unwinds(d, 1) /\ Unwinds(d, 2) /\ Unwinds(d, 3) /\ Unwinds(d, 4)
    BY <1>1, <1>4 DEF Need, Try, Unwinds, Cleans, Mirrors
  <2> QED BY <2>1
<1>7. Cleans(d, Down(d), 4)
  BY <1>1, <1>4 DEF Cleans, Mirrors
<1>8. \A i \in 1 .. 4 : Minded(d, Up(d)[i])
  <2>1. Minded(d, Up(d)[1]) /\ Minded(d, Up(d)[2]) /\ Minded(d, Up(d)[3])
    BY <1>1 DEF Need, Try, Minded
  <2>2. "device" \in Exempt(d) /\ "device" \notin Used(d)
    BY <1>2 DEF Exempt, Lenient, Uses, Used
  <2>3. Minded(d, Up(d)[4])
    BY <1>1, <2>2 DEF Need, Try, Minded
  <2> QED BY <2>1, <2>3
<1> QED BY <1>1, <1>2, <1>3, <1>5, <1>6, <1>7, <1>8, MirroredInOrder

\* keyboard_tasklet.c, which leaks its proc entry and ends with its tasklet due.
LEMMA KbdTaskletInOrder ==
    ASSUME NEW d, Has(d, KbdTasklet, {"proc"}, {}, {"proc"}, {}, {"exit"})
    PROVE  InOrder(d)
<1>1. /\ Last(d) = 2 /\ Sequence(Up(d))
      /\ Up(d)[1] = Try("proc")
      /\ Up(d)[2] = Need("irq", <<>>)
      /\ Down(d) = <<"wait", "irq", "proc">>
  BY DEF Has, KbdTasklet, Table, Last, Up, Down, Sequence
<1>2. Driver[d].doors = {"proc"} /\ Uses(d, {}, {}, {}, {"irq"})
  BY DEF Has, KbdTasklet, Table, Uses
<1>3. Plain(d)
  BY <1>1, RowOf DEF Plain
<1>4. /\ Distinct(d)
      /\ Asks(d, 0) = {}
      /\ Asks(d, 1) = {"proc"}
      /\ Asks(d, 2) = {"proc", "irq"}
  BY <1>1 DEF Need, Try, Distinct, Asks
<1>5. \A i \in 1 .. 2 : Unwinds(d, i)
  <2>1. Unwinds(d, 1)
    BY <1>1 DEF Need, Try, Unwinds, Cleans, Mirrors
  <2>2. Unwinds(d, 2)
    BY <1>1, <1>4 DEF Need, Try, Unwinds, Cleans, Has, Undoes, Sequence, Among, First, Exempt,
                      Lenient, Memory
  <2> QED BY <1>1, <2>1, <2>2
<1>6. Cleans(d, Down(d), 2)
  BY <1>1, <1>4 DEF Has, Cleans, Undoes, Sequence, Among, First, Exempt, Lenient, Memory
<1>7. /\ WellFormed(d) /\ Complete(d) /\ Precise(d)
      /\ \A n \in 0 .. 2 : Gets(d, n) = Asks(d, n) /\ Kept(d, n) = Asks(d, n)
  BY <1>1, <1>3, <1>4, <1>5, <1>6, PlainRules DEF Has
<1>8. Handlers(d)
  BY <1>1, <1>2, <1>4, <1>7
     DEF Need, Try, Has, Handlers, Fatal, Among, Uses, Ready, Guarded, Closed, Pinning, First, Irqs,
         Outlived, Triggers, Flushed, Finished, Able
<1>9. Noted(d)
  <2>1. \A i \in 1 .. 2 : Minded(d, Up(d)[i])
    BY <1>1 DEF Has, Need, Try, Minded
  <2> QED BY <1>1, <2>1, MindedNoted
<1> QED BY <1>7, <1>8, <1>9 DEF Handlers, InOrder

\* app_workqueue.c: the second wait, that of destroy_workqueue, may find nothing.
LEMMA AppWorkqueueInOrder ==
    ASSUME NEW d, Has(d, AppWorkqueue, {}, {}, {"wq", "irq"}, {}, {})
    PROVE  InOrder(d)
<1>1. /\ Last(d) = 2 /\ Sequence(Up(d))
      /\ Up(d)[1] = Try("wq")
      /\ Up(d)[2] = Try("irq")
      /\ Down(d) = <<"irq", "wait", "wait", "wq">>
  BY DEF Has, AppWorkqueue, Table, Last, Up, Down, Sequence
<1>2. Driver[d].doors = {} /\ Uses(d, {}, {"wq"}, {"wq"}, {"irq"})
  BY DEF Has, AppWorkqueue, Table, Uses
<1>3. Plain(d)
  BY <1>1, RowOf DEF Plain
<1>4. /\ Distinct(d)
      /\ Asks(d, 0) = {}
      /\ Asks(d, 1) = {"wq"}
      /\ Asks(d, 2) = {"wq", "irq"}
  BY <1>1 DEF Try, Distinct, Asks
<1>5. \A i \in 1 .. 2 : Unwinds(d, i)
  BY <1>1 DEF Try, Unwinds, Cleans, Mirrors
<1>6. Cleans(d, Down(d), 2)
  BY <1>1, <1>4 DEF Has, Cleans, Undoes, Sequence, Among, First, Exempt, Lenient, Memory
<1>7. /\ WellFormed(d) /\ Complete(d) /\ Precise(d)
      /\ \A n \in 0 .. 2 : Gets(d, n) = Asks(d, n) /\ Kept(d, n) = Asks(d, n)
  BY <1>1, <1>3, <1>4, <1>5, <1>6, PlainRules DEF Has
<1>8. Handlers(d)
  BY <1>1, <1>2, <1>4, <1>7
     DEF Try, Has, Handlers, Fatal, Among, Uses, Ready, Guarded, Closed, Pinning, First, Irqs,
         Outlived, Triggers, Flushed, Finished, Able
<1>9. Noted(d)
  <2>1. \A i \in 1 .. 2 : Minded(d, Up(d)[i])
    BY <1>1 DEF Has, Try, Minded
  <2> QED BY <1>1, <2>1, MindedNoted
<1> QED BY <1>7, <1>8, <1>9 DEF Handlers, InOrder

\* task_dy.c, whose tasklet is missed by early calls.
LEMMA TaskDyInOrder ==
    ASSUME NEW d,
           Has(d, TaskDy, {}, {}, {}, {<<"tasklet", "init">>, <<"tasklet", "unwind">>}, {"unwind"})
    PROVE  InOrder(d)
<1>1. /\ Last(d) = 6 /\ Sequence(Up(d))
      /\ Up(d)[1] = Need("region", <<>>)
      /\ Up(d)[2] = Need("cdev", <<"region">>)
      /\ Up(d)[3] = Need("class", <<"cdev", "region">>)
      /\ Up(d)[4] = Need("device", <<"class", "cdev", "region">>)
      /\ Up(d)[5] = Sure("tasklet")
      /\ Up(d)[6] = Need("irq", <<"wait", "device", "class", "cdev", "region">>)
      /\ Down(d) = <<"irq", "wait", "device", "class", "cdev", "region">>
  BY DEF Has, TaskDy, Table, Last, Up, Down, Sequence
<1>2. Driver[d].doors = {"cdev"} /\ Uses(d, {"tasklet"}, {"tasklet"}, {"tasklet"}, {"call", "irq"})
  BY DEF Has, TaskDy, Table, Uses
<1>3. Plain(d)
  <2>1. /\ Row(Up(d)[1]) /\ Row(Up(d)[2]) /\ Row(Up(d)[3])
        /\ Row(Up(d)[4]) /\ Row(Up(d)[5]) /\ Row(Up(d)[6])
    BY <1>1, RowOf
  <2> QED BY <1>1, <2>1 DEF Plain
<1>4. /\ Distinct(d)
      /\ Asks(d, 0) = {}
      /\ Asks(d, 1) = {"region"}
      /\ Asks(d, 2) = {"region", "cdev"}
      /\ Asks(d, 3) = {"region", "cdev", "class"}
      /\ Asks(d, 4) = {"region", "cdev", "class", "device"}
      /\ Asks(d, 5) = {"region", "cdev", "class", "device", "tasklet"}
      /\ Asks(d, 6) = {"region", "cdev", "class", "device", "tasklet", "irq"}
  BY <1>1 DEF Need, Sure, Distinct, Asks
<1>5. \A i \in 1 .. 6 : Unwinds(d, i)
  <2>1. Unwinds(d, 1) /\ Unwinds(d, 2) /\ Unwinds(d, 3) /\ Unwinds(d, 4) /\ Unwinds(d, 5)
    BY <1>1 DEF Need, Sure, Unwinds, Cleans, Mirrors
  <2>6. Unwinds(d, 6)
    <3> DEFINE list == <<"wait", "device", "class", "cdev", "region">>
    <3>1. Up(d)[6].undo = list /\ Len(list) = 5 /\ Sequence(list)
      BY <1>1 DEF Need, Sure, Sequence
    <3>2. Asks(d, 5) \subseteq Among(list) \cup Memory \cup Leak[d]
      BY <1>4 DEF Has, Among, First, Memory
    <3>3. \A k \in 1 .. 5 : list[k] \in Exempt(d) \/ list[k] \in Asks(d, 5) \ First(list, k - 1)
      BY <1>4 DEF Has, Exempt, Lenient, First
    <3> HIDE DEF list
    <3> QED BY <3>1, <3>2, <3>3 DEF Unwinds, Cleans, Undoes
  <2> QED BY <1>1, <2>1, <2>6
<1>6. Cleans(d, Down(d), 6)
  <2> DEFINE list == <<"irq", "wait", "device", "class", "cdev", "region">>
  <2>1. Down(d) = list /\ Len(list) = 6 /\ Sequence(list)
    BY <1>1 DEF Need, Sure, Sequence
  <2>2. Asks(d, 6) \subseteq Among(list) \cup Memory \cup Leak[d]
    BY <1>4 DEF Has, Among, First, Memory
  <2>3. \A k \in 1 .. 6 : list[k] \in Exempt(d) \/ list[k] \in Asks(d, 6) \ First(list, k - 1)
    BY <1>4 DEF Has, Exempt, Lenient, First
  <2> HIDE DEF list
  <2> QED BY <2>1, <2>2, <2>3 DEF Unwinds, Cleans, Undoes
<1>7. /\ WellFormed(d) /\ Complete(d) /\ Precise(d)
      /\ \A n \in 0 .. 6 : Gets(d, n) = Asks(d, n) /\ Kept(d, n) = Asks(d, n)
  BY <1>1, <1>3, <1>4, <1>5, <1>6, PlainRules DEF Has
<1>8. Handlers(d)
  BY <1>1, <1>2, <1>4, <1>7
     DEF Need, Sure, Has, Handlers, Fatal, Among, Uses, Ready, Guarded, Closed, Pinning, First, Irqs,
         Outlived, Triggers, Flushed, Finished, Able
<1>9. Noted(d)
  <2>1. \A i \in 1 .. 6 : Minded(d, Up(d)[i])
    BY <1>1 DEF Has, Need, Sure, Minded
  <2> QED BY <1>1, <2>1, MindedNoted
<1> QED BY <1>7, <1>8, <1>9 DEF Handlers, InOrder

\* tasklet_static.c, which may end a failed init with its tasklet due.
LEMMA TaskletStaticInOrder ==
    ASSUME NEW d, Has(d, TaskletStatic, {}, {}, {"cdev"}, {}, {"unwind"})
    PROVE  InOrder(d)
<1>1. /\ Last(d) = 5 /\ Sequence(Up(d))
      /\ Up(d)[1] = Need("region", <<>>)
      /\ Up(d)[2] = Try("cdev")
      /\ Up(d)[3] = Need("class", <<"cdev", "region">>)
      /\ Up(d)[4] = Need("device", <<"class", "cdev", "region">>)
      /\ Up(d)[5] = Need("irq", <<"device", "class", "cdev", "region">>)
      /\ Down(d) = <<"irq", "wait", "device", "class", "cdev", "region">>
  BY DEF Has, TaskletStatic, Table, Last, Up, Down, Sequence
<1>2. Driver[d].doors = {"cdev"} /\ Uses(d, {}, {}, {}, {"call", "irq"})
  BY DEF Has, TaskletStatic, Table, Uses
<1>3. Plain(d)
  BY <1>1, RowOf DEF Plain
<1>4. /\ Distinct(d)
      /\ Asks(d, 0) = {}
      /\ Asks(d, 1) = {"region"}
      /\ Asks(d, 2) = {"region", "cdev"}
      /\ Asks(d, 3) = {"region", "cdev", "class"}
      /\ Asks(d, 4) = {"region", "cdev", "class", "device"}
      /\ Asks(d, 5) = {"region", "cdev", "class", "device", "irq"}
  BY <1>1 DEF Need, Try, Distinct, Asks
<1>5. \A i \in 1 .. 5 : Unwinds(d, i)
  <2>1. Unwinds(d, 1) /\ Unwinds(d, 2) /\ Unwinds(d, 3) /\ Unwinds(d, 4) /\ Unwinds(d, 5)
    BY <1>1 DEF Need, Try, Unwinds, Cleans, Mirrors
  <2> QED BY <1>1, <2>1
<1>6. Cleans(d, Down(d), 5)
  <2> DEFINE list == <<"irq", "wait", "device", "class", "cdev", "region">>
  <2>1. Down(d) = list /\ Len(list) = 6 /\ Sequence(list)
    BY <1>1 DEF Need, Try, Sequence
  <2>2. Asks(d, 5) \subseteq Among(list) \cup Memory \cup Leak[d]
    BY <1>4 DEF Has, Among, First, Memory
  <2>3. \A k \in 1 .. 6 : list[k] \in Exempt(d) \/ list[k] \in Asks(d, 5) \ First(list, k - 1)
    BY <1>4 DEF Has, Exempt, Lenient, First
  <2> HIDE DEF list
  <2> QED BY <2>1, <2>2, <2>3 DEF Unwinds, Cleans, Undoes
<1>7. /\ WellFormed(d) /\ Complete(d) /\ Precise(d)
      /\ \A n \in 0 .. 5 : Gets(d, n) = Asks(d, n) /\ Kept(d, n) = Asks(d, n)
  BY <1>1, <1>3, <1>4, <1>5, <1>6, PlainRules DEF Has
<1>8. Handlers(d)
  BY <1>1, <1>2, <1>4, <1>7
     DEF Need, Try, Has, Handlers, Fatal, Among, Uses, Ready, Guarded, Closed, Pinning, First, Irqs,
         Outlived, Triggers, Flushed, Finished, Able
<1>9. Noted(d)
  <2>1. \A i \in 1 .. 5 : Minded(d, Up(d)[i])
    BY <1>1 DEF Has, Need, Try, Minded
  <2> QED BY <1>1, <2>1, MindedNoted
<1> QED BY <1>7, <1>8, <1>9 DEF Handlers, InOrder

\* qw.c, whose workqueue is missed by early calls; exit waits behind closed files.
LEMMA OwnWorkqueueInOrder ==
    ASSUME NEW d, Has(d, OwnWorkqueue, {}, {}, {}, {<<"wq", "init">>, <<"wq", "unwind">>}, {})
    PROVE  InOrder(d)
<1>1. /\ Last(d) = 5 /\ Sequence(Up(d))
      /\ Up(d)[1] = Need("region", <<>>)
      /\ Up(d)[2] = Need("cdev", <<"region">>)
      /\ Up(d)[3] = Need("class", <<"cdev", "region">>)
      /\ Up(d)[4] = Need("device", <<"class", "cdev", "region">>)
      /\ Up(d)[5] = Need("wq", <<"device", "class", "cdev", "region">>)
      /\ Down(d) = <<"wait", "wq", "device", "class", "cdev", "region">>
  BY DEF Has, OwnWorkqueue, Table, Last, Up, Down, Sequence
<1>2. Driver[d].doors = {"cdev"} /\ Uses(d, {"wq"}, {}, {"wq"}, {"call"})
  BY DEF Has, OwnWorkqueue, Table, Uses
<1>3. Plain(d)
  BY <1>1, RowOf DEF Plain
<1>4. /\ Distinct(d)
      /\ Asks(d, 0) = {}
      /\ Asks(d, 1) = {"region"}
      /\ Asks(d, 2) = {"region", "cdev"}
      /\ Asks(d, 3) = {"region", "cdev", "class"}
      /\ Asks(d, 4) = {"region", "cdev", "class", "device"}
      /\ Asks(d, 5) = {"region", "cdev", "class", "device", "wq"}
  BY <1>1 DEF Need, Distinct, Asks
<1>5. \A i \in 1 .. 5 : Unwinds(d, i)
  <2>1. Unwinds(d, 1) /\ Unwinds(d, 2) /\ Unwinds(d, 3) /\ Unwinds(d, 4) /\ Unwinds(d, 5)
    BY <1>1 DEF Need, Unwinds, Cleans, Mirrors
  <2> QED BY <1>1, <2>1
<1>6. Cleans(d, Down(d), 5)
  <2> DEFINE list == <<"wait", "wq", "device", "class", "cdev", "region">>
  <2>1. Down(d) = list /\ Len(list) = 6 /\ Sequence(list)
    BY <1>1 DEF Need, Sequence
  <2>2. Asks(d, 5) \subseteq Among(list) \cup Memory \cup Leak[d]
    BY <1>4 DEF Has, Among, First, Memory
  <2>3. \A k \in 1 .. 6 : list[k] \in Exempt(d) \/ list[k] \in Asks(d, 5) \ First(list, k - 1)
    BY <1>4 DEF Has, Exempt, Lenient, First
  <2> HIDE DEF list
  <2> QED BY <2>1, <2>2, <2>3 DEF Unwinds, Cleans, Undoes
<1>7. /\ WellFormed(d) /\ Complete(d) /\ Precise(d)
      /\ \A n \in 0 .. 5 : Gets(d, n) = Asks(d, n) /\ Kept(d, n) = Asks(d, n)
  BY <1>1, <1>3, <1>4, <1>5, <1>6, PlainRules DEF Has
<1>8. Handlers(d)
  <2>1. Ready(d, {"cdev"}, {"wq"}) /\ Guarded(d, {"cdev"}, {"wq"}) /\ Triggers(d) = {"cdev"}
    BY <1>1, <1>2, <1>4, <1>7 DEF Has, Uses, Ready, Guarded, Triggers, Pinning
  <2>2. /\ Down(d)[1] = "wait" /\ Len(Down(d)) = 6 /\ \A n : Closed(d, {"cdev"}, n)
        /\ \A k \in 1 .. 6 : Down(d)[k] = "wq" => k = 2
    BY <1>1 DEF Closed, Pinning
  <2>3. Flushed(d, 1) /\ Flushed(d, 6)
    BY <2>1, <2>2 DEF Flushed
  <2>4. Outlived(d)
    BY <1>1, <1>2, <1>4, <1>7, <2>2, <2>3 DEF Uses, Outlived
  <2>5. \A i \in Fatal(d) : ~Able(d, i - 1)
    BY <1>1, <1>2, <1>4, <1>7 DEF Uses, Fatal, Able
  <2> QED BY <1>2, <2>1, <2>2, <2>3, <2>4, <2>5 DEF Handlers, Uses, Ready, Guarded, Finished
<1>9. Noted(d)
  <2>1. \A i \in 1 .. 5 : Minded(d, Up(d)[i])
    BY <1>1 DEF Has, Need, Minded
  <2> QED BY <1>1, <2>1, MindedNoted
<1> QED BY <1>7, <1>8, <1>9 DEF Handlers, InOrder

\* 002/001/001.c, whose log exit ends under its handler.
LEMMA KeyLoggerInOrder ==
    ASSUME NEW d, Has(d, KeyLogger, {}, {}, {}, {<<"log", "exit">>}, {})
    PROVE  InOrder(d)
<1>1. /\ Last(d) = 2 /\ Sequence(Up(d))
      /\ Up(d)[1] = Sure("log")
      /\ Up(d)[2] = Need("irq", <<>>)
      /\ Down(d) = <<"log", "irq">>
  BY DEF Has, KeyLogger, Table, Last, Up, Down, Sequence
<1>2. Driver[d].doors = {} /\ Uses(d, {}, {"log"}, {}, {})
  BY DEF Has, KeyLogger, Table, Uses
<1>3. Plain(d)
  BY <1>1, RowOf DEF Plain
<1>4. /\ Distinct(d)
      /\ Asks(d, 0) = {}
      /\ Asks(d, 1) = {"log"}
      /\ Asks(d, 2) = {"log", "irq"}
  BY <1>1 DEF Need, Sure, Distinct, Asks
<1>5. \A i \in 1 .. 2 : Unwinds(d, i)
  <2>1. Unwinds(d, 1)
    BY <1>1 DEF Need, Sure, Unwinds, Cleans, Mirrors
  <2>2. Unwinds(d, 2)
    BY <1>1, <1>4 DEF Need, Sure, Unwinds, Cleans, Has, Undoes, Sequence, Among, First, Exempt,
                      Lenient, Memory
  <2> QED BY <1>1, <2>1, <2>2
<1>6. Cleans(d, Down(d), 2)
  BY <1>1, <1>4 DEF Has, Cleans, Undoes, Sequence, Among, First, Exempt, Lenient, Memory
<1>7. /\ WellFormed(d) /\ Complete(d) /\ Precise(d)
      /\ \A n \in 0 .. 2 : Gets(d, n) = Asks(d, n) /\ Kept(d, n) = Asks(d, n)
  BY <1>1, <1>3, <1>4, <1>5, <1>6, PlainRules DEF Has
<1>8. Handlers(d)
  BY <1>1, <1>2, <1>4, <1>7
     DEF Need, Sure, Has, Handlers, Fatal, Among, Uses, Ready, Guarded, Closed, Pinning, First, Irqs,
         Outlived, Triggers, Flushed, Finished, Able
<1>9. Noted(d)
  <2>1. \A i \in 1 .. 2 : Minded(d, Up(d)[i])
    BY <1>1 DEF Has, Need, Sure, Minded
  <2> QED BY <1>1, <2>1, MindedNoted
<1> QED BY <1>7, <1>8, <1>9 DEF Handlers, InOrder

\* 002/002/002.c, which frees those of its interrupts that it has, first to last.
LEMMA AllIrqsInOrder ==
    ASSUME NEW d, Has(d, AllIrqs, {}, {}, {}, {}, {})
    PROVE  InOrder(d)
<1>1. /\ Last(d) = 2 /\ Sequence(Up(d))
      /\ Up(d)[1] = Try("irq1")
      /\ Up(d)[2] = Try("irq2")
      /\ Down(d) = <<"irq1", "irq2">>
  BY DEF Has, AllIrqs, Table, Last, Up, Down, Sequence
<1>2. /\ Driver[d].doors = {} /\ Uses(d, {}, {}, {}, {})
      /\ Driver[d].careful = {"irq1", "irq2"}
  BY DEF Has, AllIrqs, Table, Uses
<1>3. Plain(d)
  BY <1>1, RowOf DEF Plain
<1>4. /\ Distinct(d)
      /\ Asks(d, 0) = {}
      /\ Asks(d, 1) = {"irq1"}
      /\ Asks(d, 2) = {"irq1", "irq2"}
  BY <1>1 DEF Try, Distinct, Asks
<1>5. \A i \in 1 .. 2 : Unwinds(d, i)
  BY <1>1 DEF Try, Unwinds, Cleans, Mirrors
<1>6. Cleans(d, Down(d), 2)
  BY <1>1, <1>4 DEF Has, Cleans, Undoes, Sequence, Among, First, Exempt, Lenient, Memory
<1>7. \A i \in 1 .. 2 : Minded(d, Up(d)[i])
  BY <1>1, <1>2 DEF Try, Minded, Uses, Used
<1> QED BY <1>1, <1>2, <1>3, <1>4, <1>5, <1>6, <1>7, MirroredInOrder DEF Has

\* 002/005/005.c, which leaks its first interrupt.
LEMMA TwoIrqsInOrder ==
    ASSUME NEW d, Has(d, TwoIrqs, {"irq1"}, {}, {}, {}, {})
    PROVE  InOrder(d)
<1>1. /\ Last(d) = 2 /\ Sequence(Up(d))
      /\ Up(d)[1] = Need("irq1", <<>>)
      /\ Up(d)[2] = Need("irq2", <<>>)
      /\ Down(d) = <<"irq1", "irq2">>
  BY DEF Has, TwoIrqs, Table, Last, Up, Down, Sequence
<1>2. Driver[d].doors = {} /\ Uses(d, {}, {}, {}, {})
  BY DEF Has, TwoIrqs, Table, Uses
<1>3. Plain(d)
  BY <1>1, RowOf DEF Plain
<1>4. /\ Distinct(d)
      /\ Asks(d, 0) = {}
      /\ Asks(d, 1) = {"irq1"}
      /\ Asks(d, 2) = {"irq1", "irq2"}
  BY <1>1 DEF Need, Distinct, Asks
<1>5. \A i \in 1 .. 2 : Unwinds(d, i)
  <2>1. Unwinds(d, 1)
    BY <1>1 DEF Need, Unwinds, Cleans, Mirrors
  <2>2. Unwinds(d, 2)
    BY <1>1, <1>4 DEF Need, Unwinds, Cleans, Has, Undoes, Sequence, Among, First, Exempt,
                      Lenient, Memory
  <2> QED BY <1>1, <2>1, <2>2
<1>6. Cleans(d, Down(d), 2)
  BY <1>1, <1>4 DEF Has, Cleans, Undoes, Sequence, Among, First, Exempt, Lenient, Memory
<1>7. \A i \in 1 .. 2 : Minded(d, Up(d)[i])
  BY <1>1 DEF Need, Minded
<1> QED BY <1>1, <1>2, <1>3, <1>4, <1>5, <1>6, <1>7, MirroredInOrder DEF Has

\* 004_softirq/001/001.c, which leaks its gpio and softirq and waits for nothing.
LEMMA SoftirqButtonInOrder ==
    ASSUME NEW d, Has(d, SoftirqButton, {"gpio", "softirq"}, {}, {}, {}, {"exit"})
    PROVE  InOrder(d)
<1>1. /\ Last(d) = 3 /\ Sequence(Up(d))
      /\ Up(d)[1] = Need("gpio", <<>>)
      /\ Up(d)[2] = Sure("softirq")
      /\ Up(d)[3] = Need("irq", <<>>)
      /\ Down(d) = <<"irq", "gpio">>
  BY DEF Has, SoftirqButton, Table, Last, Up, Down, Sequence
<1>2. Driver[d].doors = {} /\ Uses(d, {}, {"softirq"}, {"softirq"}, {"irq"})
  BY DEF Has, SoftirqButton, Table, Uses
<1>3. Plain(d)
  BY <1>1, RowOf DEF Plain
<1>4. /\ Distinct(d)
      /\ Asks(d, 0) = {}
      /\ Asks(d, 1) = {"gpio"}
      /\ Asks(d, 2) = {"gpio", "softirq"}
      /\ Asks(d, 3) = {"gpio", "softirq", "irq"}
  BY <1>1 DEF Need, Sure, Distinct, Asks
<1>5. \A i \in 1 .. 3 : Unwinds(d, i)
  <2>1. Unwinds(d, 1) /\ Unwinds(d, 2)
    BY <1>1 DEF Need, Sure, Unwinds, Cleans, Mirrors
  <2>3. Unwinds(d, 3)
    BY <1>1, <1>4 DEF Need, Sure, Unwinds, Cleans, Has, Undoes, Sequence, Among, First, Exempt,
                      Lenient, Memory
  <2> QED BY <1>1, <2>1, <2>3
<1>6. Cleans(d, Down(d), 3)
  BY <1>1, <1>4 DEF Has, Cleans, Undoes, Sequence, Among, First, Exempt, Lenient, Memory
<1>7. /\ WellFormed(d) /\ Complete(d) /\ Precise(d)
      /\ \A n \in 0 .. 3 : Gets(d, n) = Asks(d, n) /\ Kept(d, n) = Asks(d, n)
  BY <1>1, <1>3, <1>4, <1>5, <1>6, PlainRules DEF Has
<1>8. Handlers(d)
  BY <1>1, <1>2, <1>4, <1>7
     DEF Need, Sure, Has, Handlers, Fatal, Among, Uses, Ready, Guarded, Closed, Pinning, First, Irqs,
         Outlived, Triggers, Flushed, Finished, Able
<1>9. Noted(d)
  <2>1. \A i \in 1 .. 3 : Minded(d, Up(d)[i])
    BY <1>1 DEF Has, Need, Sure, Minded
  <2> QED BY <1>1, <2>1, MindedNoted
<1> QED BY <1>7, <1>8, <1>9 DEF Handlers, InOrder

\* 011/io.c, whose mutex is missed by early calls.
LEMMA IoctlDriverInOrder ==
    ASSUME NEW d, Has(d, IoctlDriver, {}, {}, {}, {<<"mutex", "init">>}, {})
    PROVE  InOrder(d)
<1>1. /\ Last(d) = 2 /\ Sequence(Up(d))
      /\ Up(d)[1] = Need("chrdev", <<>>)
      /\ Up(d)[2] = Sure("mutex")
      /\ Down(d) = <<"chrdev">>
  BY DEF Has, IoctlDriver, Table, Last, Up, Down, Sequence
<1>2. Driver[d].doors = {"chrdev"} /\ Uses(d, {"mutex"}, {}, {}, {})
  BY DEF Has, IoctlDriver, Table, Uses
<1>3. Plain(d)
  BY <1>1, RowOf DEF Plain
<1>4. /\ Distinct(d)
      /\ Asks(d, 0) = {}
      /\ Asks(d, 1) = {"chrdev"}
      /\ Asks(d, 2) = {"chrdev", "mutex"}
  BY <1>1 DEF Need, Sure, Distinct, Asks
<1>5. \A i \in 1 .. 2 : Unwinds(d, i)
  BY <1>1 DEF Need, Sure, Unwinds, Cleans, Mirrors
<1>6. Cleans(d, Down(d), 2)
  BY <1>1, <1>4 DEF Has, Cleans, Undoes, Sequence, Among, First, Exempt, Lenient, Memory
<1>7. /\ WellFormed(d) /\ Complete(d) /\ Precise(d)
      /\ \A n \in 0 .. 2 : Gets(d, n) = Asks(d, n) /\ Kept(d, n) = Asks(d, n)
  BY <1>1, <1>3, <1>4, <1>5, <1>6, PlainRules DEF Has
<1>8. Handlers(d)
  BY <1>1, <1>2, <1>4, <1>7
     DEF Need, Sure, Has, Handlers, Fatal, Among, Uses, Ready, Guarded, Closed, Pinning, First, Irqs,
         Outlived, Triggers, Flushed, Finished, Able
<1>9. Noted(d)
  <2>1. \A i \in 1 .. 2 : Minded(d, Up(d)[i])
    BY <1>1 DEF Has, Need, Sure, Minded
  <2> QED BY <1>1, <2>1, MindedNoted
<1> QED BY <1>7, <1>8, <1>9 DEF Handlers, InOrder

\* 001.c, whose error loop deletes the cdev that was not added.
LEMMA PseudoDriverInOrder ==
    ASSUME NEW d, Has(d, PseudoDriver, {}, {"cdev0", "cdev1"}, {}, {}, {})
    PROVE  InOrder(d)
<1>1. /\ Last(d) = 6 /\ Sequence(Up(d))
      /\ Up(d)[1] = Need("region", <<>>)
      /\ Up(d)[2] = Need("class", <<"region">>)
      /\ Up(d)[3] = Need("device0", <<"class", "region">>)
      /\ Up(d)[4] = Need("cdev0", <<"device0", "cdev0", "device0", "class", "region">>)
      /\ Up(d)[5] = Need("device1", <<"cdev0", "device0", "class", "region">>)
      /\ Up(d)[6] = Need("cdev1", <<"device1", "cdev1", "device1", "cdev0", "device0",
                                    "class", "region">>)
      /\ Down(d) = <<"cdev0", "device0", "cdev1", "device1", "class", "region">>
  BY DEF Has, PseudoDriver, Table, Last, Up, Down, Sequence
<1>2. Driver[d].doors = {"cdev0", "cdev1"} /\ Uses(d, {}, {}, {}, {})
  BY DEF Has, PseudoDriver, Table, Uses
<1>3. Plain(d)
  <2>1. /\ Row(Up(d)[1]) /\ Row(Up(d)[2]) /\ Row(Up(d)[3])
        /\ Row(Up(d)[4]) /\ Row(Up(d)[5]) /\ Row(Up(d)[6])
    BY <1>1, RowOf
  <2> QED BY <1>1, <2>1 DEF Plain
<1>4. /\ Distinct(d)
      /\ Asks(d, 0) = {}
      /\ Asks(d, 1) = {"region"}
      /\ Asks(d, 2) = {"region", "class"}
      /\ Asks(d, 3) = {"region", "class", "device0"}
      /\ Asks(d, 4) = {"region", "class", "device0", "cdev0"}
      /\ Asks(d, 5) = {"region", "class", "device0", "cdev0", "device1"}
      /\ Asks(d, 6) = {"region", "class", "device0", "cdev0", "device1", "cdev1"}
  BY <1>1 DEF Need, Distinct, Asks
<1>5. \A i \in 1 .. 6 : Unwinds(d, i)
  <2>1. Unwinds(d, 1) /\ Unwinds(d, 2) /\ Unwinds(d, 3) /\ Unwinds(d, 5)
    BY <1>1 DEF Need, Unwinds, Cleans, Mirrors
  <2>4. Unwinds(d, 4)
    <3> DEFINE list == <<"device0", "cdev0", "device0", "class", "region">>
    <3>1. Up(d)[4].undo = list /\ Len(list) = 5 /\ Sequence(list)
      BY <1>1 DEF Need, Sequence
    <3>2. Asks(d, 3) \subseteq Among(list) \cup Memory \cup Leak[d]
      BY <1>4 DEF Has, Among, First, Memory
    <3>3. \A k \in 1 .. 5 : list[k] \in Exempt(d) \/ list[k] \in Asks(d, 3) \ First(list, k - 1)
      BY <1>4 DEF Has, Exempt, Lenient, First
    <3> HIDE DEF list
    <3> QED BY <3>1, <3>2, <3>3 DEF Unwinds, Cleans, Undoes
  <2>6. Unwinds(d, 6)
    <3> DEFINE list == <<"device1", "cdev1", "device1", "cdev0", "device0", "class", "region">>
    <3>1. Up(d)[6].undo = list /\ Len(list) = 7 /\ Sequence(list)
      BY <1>1 DEF Need, Sequence
    <3>2. Asks(d, 5) \subseteq Among(list) \cup Memory \cup Leak[d]
      BY <1>4 DEF Has, Among, First, Memory
    <3>3. \A k \in 1 .. 7 : list[k] \in Exempt(d) \/ list[k] \in Asks(d, 5) \ First(list, k - 1)
      BY <1>4 DEF Has, Exempt, Lenient, First
    <3> HIDE DEF list
    <3> QED BY <3>1, <3>2, <3>3 DEF Unwinds, Cleans, Undoes
  <2> QED BY <1>1, <2>1, <2>4, <2>6
<1>6. Cleans(d, Down(d), 6)
  <2> DEFINE list == <<"cdev0", "device0", "cdev1", "device1", "class", "region">>
  <2>1. Down(d) = list /\ Len(list) = 6 /\ Sequence(list)
    BY <1>1 DEF Need, Sequence
  <2>2. Asks(d, 6) \subseteq Among(list) \cup Memory \cup Leak[d]
    BY <1>4 DEF Has, Among, First, Memory
  <2>3. \A k \in 1 .. 6 : list[k] \in Exempt(d) \/ list[k] \in Asks(d, 6) \ First(list, k - 1)
    BY <1>4 DEF Has, Exempt, Lenient, First
  <2> HIDE DEF list
  <2> QED BY <2>1, <2>2, <2>3 DEF Unwinds, Cleans, Undoes
<1>7. \A i \in 1 .. 6 : Minded(d, Up(d)[i])
  BY <1>1 DEF Need, Minded
<1> QED BY <1>1, <1>2, <1>3, <1>4, <1>5, <1>6, <1>7, MirroredInOrder DEF Has

\* 024/gpiobtn_led_char.c
LEMMA GpiobtnLedInOrder ==
    ASSUME NEW d, Has(d, GpiobtnLed, {}, {}, {}, {}, {})
    PROVE  InOrder(d)
<1>1. /\ Last(d) = 5 /\ Sequence(Up(d))
      /\ Up(d)[1] = Need("proc", <<>>)
      /\ Up(d)[2] = Need("region", <<"proc">>)
      /\ Up(d)[3] = Need("cdev", <<"region", "proc">>)
      /\ Up(d)[4] = Need("class", <<"cdev", "region", "proc">>)
      /\ Up(d)[5] = Need("device", <<"class", "cdev", "region", "proc">>)
      /\ Down(d) = <<"device", "class", "cdev", "region", "proc">>
  BY DEF Has, GpiobtnLed, Table, Last, Up, Down, Sequence
<1>2. Driver[d].doors = {"cdev", "proc"} /\ Uses(d, {}, {}, {}, {})
  BY DEF Has, GpiobtnLed, Table, Uses
<1>3. Plain(d)
  BY <1>1, RowOf DEF Plain
<1>4. /\ Distinct(d)
      /\ Asks(d, 0) = {}
      /\ Asks(d, 1) = {"proc"}
      /\ Asks(d, 2) = {"proc", "region"}
      /\ Asks(d, 3) = {"proc", "region", "cdev"}
      /\ Asks(d, 4) = {"proc", "region", "cdev", "class"}
      /\ Asks(d, 5) = {"proc", "region", "cdev", "class", "device"}
  BY <1>1 DEF Need, Distinct, Asks
<1>5. \A i \in 1 .. 5 : Unwinds(d, i)
  <2>1. Unwinds(d, 1) /\ Unwinds(d, 2) /\ Unwinds(d, 3) /\ Unwinds(d, 4) /\ Unwinds(d, 5)
    BY <1>1 DEF Need, Unwinds, Cleans, Mirrors
  <2> QED BY <1>1, <2>1
<1>6. Cleans(d, Down(d), 5)
  BY <1>1 DEF Need, Cleans, Mirrors
<1>7. \A i \in 1 .. 5 : Minded(d, Up(d)[i])
  BY <1>1 DEF Need, Minded
<1> QED BY <1>1, <1>2, <1>3, <1>4, <1>5, <1>6, <1>7, MirroredInOrder DEF Has

\* 17/platform_driver.c and 18/mydt_driver.c, whose data goes under an open file
\* when the second device fails.
LEMMA PlatformInOrder ==
    ASSUME NEW d, Has(d, Platform, {}, {}, {}, {<<"data", "unwind">>}, {})
    PROVE  InOrder(d)
<1>1. /\ Last(d) = 8 /\ Sequence(Up(d))
      /\ Up(d)[1] = Need("data", <<>>)
      /\ Up(d)[2] = Need("region", <<"data">>)
      /\ Up(d)[3] = Need("class", <<"region", "data">>)
      /\ Up(d)[4] = Need("driver", <<"class", "region", "data">>)
      /\ Up(d)[5] = Need("pdev0", <<"driver", "class", "region", "data">>)
      /\ Up(d)[6] = Try("cdev0")
      /\ Up(d)[7] = Need("pdev1", <<"cdev0", "pdev0", "driver", "class", "region", "data">>)
      /\ Up(d)[8] = Try("cdev1")
      /\ Down(d) = <<"cdev0", "pdev0", "cdev1", "pdev1", "driver", "class", "region", "data">>
  BY DEF Has, Platform, Table, Last, Up, Down, Sequence, Probe
<1>2. Driver[d].doors = {"cdev0", "cdev1"} /\ Uses(d, {"data"}, {}, {}, {})
  BY DEF Has, Platform, Table, Uses
<1>3. Plain(d)
  <2>1. /\ Row(Up(d)[1]) /\ Row(Up(d)[2]) /\ Row(Up(d)[3]) /\ Row(Up(d)[4])
        /\ Row(Up(d)[5]) /\ Row(Up(d)[6]) /\ Row(Up(d)[7]) /\ Row(Up(d)[8])
    BY <1>1, RowOf
  <2> QED BY <1>1, <2>1 DEF Plain
<1>4. /\ Distinct(d)
      /\ Asks(d, 0) = {}
      /\ Asks(d, 1) = {"data"}
      /\ Asks(d, 2) = {"data", "region"}
      /\ Asks(d, 3) = {"data", "region", "class"}
      /\ Asks(d, 4) = {"data", "region", "class", "driver"}
      /\ Asks(d, 5) = {"data", "region", "class", "driver", "pdev0"}
      /\ Asks(d, 6) = {"data", "region", "class", "driver", "pdev0", "cdev0"}
      /\ Asks(d, 7) = {"data", "region", "class", "driver", "pdev0", "cdev0", "pdev1"}
      /\ Asks(d, 8) = {"data", "region", "class", "driver", "pdev0", "cdev0", "pdev1", "cdev1"}
  <2>1. /\ Up(d)[1].get = "data"
        /\ Up(d)[2].get = "region"
        /\ Up(d)[3].get = "class"
        /\ Up(d)[4].get = "driver"
        /\ Up(d)[5].get = "pdev0"
        /\ Up(d)[6].get = "cdev0"
        /\ Up(d)[7].get = "pdev1"
        /\ Up(d)[8].get = "cdev1"
    BY <1>1 DEF Need, Try
  <2> QED BY <1>1, <2>1 DEF Distinct, Asks
<1>5. \A i \in 1 .. 8 : Unwinds(d, i)
  <2>1. /\ Unwinds(d, 1) /\ Unwinds(d, 2) /\ Unwinds(d, 3) /\ Unwinds(d, 4)
        /\ Unwinds(d, 5) /\ Unwinds(d, 6) /\ Unwinds(d, 7) /\ Unwinds(d, 8)
    BY <1>1 DEF Need, Try, Unwinds, Cleans, Mirrors
  <2> QED BY <1>1, <2>1
<1>6. Cleans(d, Down(d), 8)
  <2> DEFINE list == <<"cdev0", "pdev0", "cdev1", "pdev1", "driver", "class", "region", "data">>
  <2>1. Down(d) = list /\ Len(list) = 8 /\ Sequence(list)
    BY <1>1 DEF Need, Try, Sequence
  <2>2. Asks(d, 8) \subseteq Among(list) \cup Memory \cup Leak[d]
    BY <1>4 DEF Has, Among, First, Memory
  <2>3. \A k \in 1 .. 8 : list[k] \in Exempt(d) \/ list[k] \in Asks(d, 8) \ First(list, k - 1)
    BY <1>4 DEF Has, Exempt, Lenient, First
  <2> HIDE DEF list
  <2> QED BY <2>1, <2>2, <2>3 DEF Unwinds, Cleans, Undoes
<1>7. /\ WellFormed(d) /\ Complete(d) /\ Precise(d)
      /\ \A n \in 0 .. 8 : Gets(d, n) = Asks(d, n) /\ Kept(d, n) = Asks(d, n)
  <2>1. d \in DOMAIN Driver /\ Last(d) = 8 /\ Sequence(Up(d)) /\ "wait" \notin Asks(d, 8)
    BY <1>1, <1>4 DEF Has
  <2>2. Distinct(d)
    BY <1>4
  <2> QED BY <1>3, <1>5, <1>6, <2>1, <2>2, PlainRules
<1>8. Handlers(d)
  BY <1>1, <1>2, <1>4, <1>7
     DEF Need, Try, Has, Handlers, Fatal, Among, Uses, Ready, Guarded, Closed, Pinning, First, Irqs,
         Outlived, Triggers, Flushed, Finished, Able
<1>9. Noted(d)
  <2>1. Driver[d].careful = {"cdev0", "cdev1"}
    BY DEF Has, Platform, Table
  <2>2. \A i \in 1 .. 8 : Minded(d, Up(d)[i])
    BY <1>1, <1>2, <2>1 DEF Need, Try, Minded, Uses, Used
  <2> QED BY <1>1, <2>2, MindedNoted
<1> QED BY <1>7, <1>8, <1>9 DEF Handlers, InOrder

\* gpiodrv.c of both boards, which leaks class and device.
LEMMA MyledBlackInOrder ==
    ASSUME NEW d, Has(d, MyledBlack, {"class", "device"}, {}, {}, {}, {})
    PROVE  InOrder(d)
<1>1. /\ Last(d) = 3 /\ Sequence(Up(d))
      /\ Up(d)[1] = Need("class", <<>>)
      /\ Up(d)[2] = Need("device", <<"class">>)
      /\ Up(d)[3] = Need("attr", <<>>)
      /\ Down(d) = <<"attr", "device", "class">>
  BY DEF Has, MyledBlack, Table, Last, Up, Down, Sequence
<1>2. Driver[d].doors = {"attr"} /\ Uses(d, {}, {}, {}, {})
  BY DEF Has, MyledBlack, Table, Uses
<1>3. Plain(d)
  BY <1>1, RowOf DEF Plain
<1>4. /\ Distinct(d)
      /\ Asks(d, 0) = {}
      /\ Asks(d, 1) = {"class"}
      /\ Asks(d, 2) = {"class", "device"}
      /\ Asks(d, 3) = {"class", "device", "attr"}
  BY <1>1 DEF Need, Distinct, Asks
<1>5. \A i \in 1 .. 3 : Unwinds(d, i)
  <2>1. Unwinds(d, 1) /\ Unwinds(d, 2)
    BY <1>1 DEF Need, Unwinds, Cleans, Mirrors
  <2>3. Unwinds(d, 3)
    BY <1>1, <1>4 DEF Need, Unwinds, Cleans, Has, Undoes, Sequence, Among, First, Exempt,
                      Lenient, Memory
  <2> QED BY <1>1, <2>1, <2>3
<1>6. Cleans(d, Down(d), 3)
  BY <1>1 DEF Need, Cleans, Mirrors
<1>7. \A i \in 1 .. 3 : Minded(d, Up(d)[i])
  BY <1>1 DEF Need, Minded
<1> QED BY <1>1, <1>2, <1>3, <1>4, <1>5, <1>6, <1>7, MirroredInOrder DEF Has

\* The threaded interrupts and taskletss/kbd_tasklet.c: free_irq, then the wait.
LEMMA ThreadedInOrder ==
    ASSUME NEW d, \/ Has(d, ThreadedIrq, {}, {}, {}, {}, {})
                  \/ Has(d, ThreadedNever, {}, {}, {}, {}, {})
    PROVE  InOrder(d)
<1>1. /\ Last(d) = 1 /\ Sequence(Up(d)) /\ Up(d)[1] = Need("irq", <<>>)
      /\ Down(d) = <<"irq", "wait">> /\ Driver[d].doors = {} /\ d \in DOMAIN Driver
      /\ Uses(d, {}, {}, {}, {"irq"}) \/ Uses(d, {}, {}, {}, {})
      /\ Twice[d] = {}
  BY DEF Has, ThreadedIrq, ThreadedNever, Table, Last, Up, Down, Sequence, Uses
<1>2. Plain(d)
  BY <1>1, RowOf DEF Plain
<1>3. Distinct(d) /\ Asks(d, 0) = {} /\ Asks(d, 1) = {"irq"}
  BY <1>1 DEF Need, Distinct, Asks
<1>4. \A i \in 1 .. 1 : Unwinds(d, i)
  BY <1>1 DEF Need, Unwinds, Cleans, Mirrors
<1>5. Cleans(d, Down(d), 1)
  BY <1>1, <1>3 DEF Cleans, Undoes, Sequence, Among, First, Exempt, Lenient, Memory
<1>6. /\ WellFormed(d) /\ Complete(d) /\ Precise(d)
      /\ \A n \in 0 .. 1 : Gets(d, n) = Asks(d, n) /\ Kept(d, n) = Asks(d, n)
  BY <1>1, <1>2, <1>3, <1>4, <1>5, PlainRules
<1>7. Handlers(d)
  BY <1>1, <1>3, <1>6
     DEF Need, Handlers, Fatal, Uses, Ready, Guarded, Closed, First, Outlived, Triggers, Flushed,
         Finished, Able
<1>8. Noted(d)
  <2>1. \A i \in 1 .. 1 : Minded(d, Up(d)[i])
    BY <1>1 DEF Need, Minded
  <2> QED BY <1>1, <2>1, MindedNoted
<1> QED BY <1>6, <1>7, <1>8 DEF Handlers, InOrder

\* The rows have the type of steps.
LEMMA StepOf ==
    ASSUME NEW r \in Resource, NEW list \in Seq(Resource)
    PROVE  /\ Need(r, list) \in StepType /\ Never(r, list) \in StepType /\ Sure(r) \in StepType
           /\ \A n \in Nat : Else(r, list, n) \in StepType
<1>1. <<>> \in Seq(Resource)
  OBVIOUS
<1> QED BY <1>1 DEF Need, Else, Never, Sure, StepType

\* 013/io.c, where the failure of a minor is passed over and taken back: init is
\* sure of its region and class only, and exit deletes cdevs that may be missing.
LEMMA MultiDevInOrder ==
    ASSUME NEW d, Has(d, MultiDev, {}, {"cdev0", "cdev1"}, {}, {}, {})
    PROVE  InOrder(d)
<1>1. /\ Last(d) = 6 /\ Sequence(Up(d))
      /\ Up(d)[1] = Need("region", <<>>)
      /\ Up(d)[2] = Need("class", <<"region">>)
      /\ Up(d)[3] = Else("cdev0", <<>>, 1)
      /\ Up(d)[4] = Else("device0", <<"cdev0">>, 0)
      /\ Up(d)[5] = Else("cdev1", <<>>, 1)
      /\ Up(d)[6] = Else("device1", <<"cdev1">>, 0)
      /\ Down(d) = <<"device0", "cdev0", "device1", "cdev1", "class", "region">>
      /\ Uses(d, {}, {}, {}, {}) /\ d \in DOMAIN Driver
      /\ Exempt(d) = {"cdev0", "cdev1", "wait"} \cup Lenient
  BY DEF Has, MultiDev, Table, Last, Up, Down, Sequence, Uses, Exempt
<1>2. /\ Asks(d, 0) = {} /\ Asks(d, 1) = {"region"} 
      /\ Asks(d, 6) = {"region", "class", "cdev0", "device0", "cdev1", "device1"}
      /\ \A n \in 0 .. 6 : Gets(d, n) = Asks(d, n)
  <2>1. \A i \in 1 .. 6 : Up(d)[i].works
    BY <1>1 DEF Need, Else
  <2>2. \A n \in 0 .. 6 : {j \in 1 .. n : Up(d)[j].works} = 1 .. n
    BY <2>1
  <2>3. \A n \in 0 .. 6 : Gets(d, n) = Asks(d, n)
    BY <2>2 DEF Gets, Asks
  <2>4. /\ Asks(d, 0) = {} /\ Asks(d, 1) = {"region"} 
        /\ Asks(d, 6) = {"region", "class", "cdev0", "device0", "cdev1", "device1"}
    BY <1>1 DEF Need, Else, Asks
  <2> QED BY <2>3, <2>4
<1>3. Fatal(d) = {1, 2} /\ Passed(d) = {3, 4, 5, 6}
  BY <1>1 DEF Need, Else, Fatal, Passed
<1>4. \A i \in Passed(d) :
        /\ Among(Up(d)[i].undo) \subseteq {"cdev0", "cdev1"}
        /\ {Up(d)[j].get : j \in i + 1 .. i + Up(d)[i].skip} \subseteq {"device0", "device1"}
  <2>1. /\ Among(Up(d)[3].undo) = {} /\ Among(Up(d)[4].undo) = {"cdev0"}
        /\ Among(Up(d)[5].undo) = {} /\ Among(Up(d)[6].undo) = {"cdev1"}
    BY <1>1 DEF Else, Among, First
  <2>2. /\ Up(d)[3].skip = 1 /\ Up(d)[4].skip = 0 /\ Up(d)[5].skip = 1 /\ Up(d)[6].skip = 0
        /\ Up(d)[4].get = "device0" /\ Up(d)[6].get = "device1"
    BY <1>1 DEF Else
  <2> QED BY <1>3, <2>1, <2>2
<1>5. Lost(d) \subseteq {"cdev0", "cdev1", "device0", "device1"}
  BY <1>4 DEF Lost
<1>6. WellFormed(d)
  <2>1. {"region", "class", "cdev0", "device0", "cdev1", "device1"} \subseteq Resource
    BY <1>1, <1>2 DEF Resource
  <2>2. /\ <<>> \in Seq(Resource) /\ <<"region">> \in Seq(Resource)
        /\ <<"cdev0">> \in Seq(Resource) /\ <<"cdev1">> \in Seq(Resource)
    BY <2>1
  <2>3. Down(d) \in Seq(Resource)
    <3> DEFINE list == <<"device0", "cdev0", "device1", "cdev1", "class", "region">>
    <3>1. list = [k \in 1 .. 6 |-> list[k]] /\ \A k \in 1 .. 6 : list[k] \in Resource
      BY <2>1
    <3> HIDE DEF list
    <3>2. list \in Seq(Resource)
      BY <3>1, SeqOf
    <3> QED BY <1>1, <3>2 DEF list
  <2>4. \A i \in 1 .. 6 : Up(d)[i] \in StepType
    <3>1. Up(d)[1] \in StepType /\ Up(d)[2] \in StepType /\ Up(d)[3] \in StepType
      BY <1>1, <2>1, <2>2, StepOf
    <3>2. Up(d)[4] \in StepType /\ Up(d)[5] \in StepType /\ Up(d)[6] \in StepType
      BY <1>1, <2>1, <2>2, StepOf
    <3> QED BY <3>1, <3>2
  <2>5. Up(d) \in Seq(StepType)
    BY <1>1, <2>4, SeqOf DEF Sequence, Last
  <2>6. \A i \in 1 .. 6 : i + Up(d)[i].skip <= 6
    BY <1>1 DEF Need, Else
  <2>7. "wait" \notin Asks(d, Last(d))
    BY <1>1, <1>2
  <2> QED BY <1>1, <2>3, <2>5, <2>6, <2>7 DEF WellFormed
<1>7. Complete(d)
  <2>1. Asks(d, 6) \subseteq Among(Down(d))
    BY <1>1, <1>2 DEF Among, First
  <2>2. Asks(d, 1) \subseteq Among(Up(d)[2].undo)
    BY <1>1, <1>2 DEF Need, Among, First
  <2> QED BY <1>1, <1>2, <1>3, <2>1, <2>2 DEF Complete
<1>8. Precise(d)
  <2>1. Sound(d, Up(d)[1].undo, 0) /\ Sound(d, Up(d)[2].undo, 1)
    BY <1>1, <1>2, <1>5 DEF Need, Sound, Kept, First
  <2>2. Sound(d, Down(d), 6)
    BY <1>1, <1>2, <1>5 DEF Sound, Kept, First, Lenient
  <2> QED BY <1>1, <1>3, <1>4, <2>1, <2>2 DEF Precise
<1>9. Noted(d)
  <2>1. \A i \in 1 .. 6 : Minded(d, Up(d)[i])
    BY <1>1 DEF Need, Else, Minded, Lenient, Uses, Used
  <2> QED BY <1>1, <2>1, MindedNoted
<1> QED BY <1>1, <1>6, <1>7, <1>8, <1>9
        DEF InOrder, Uses, Ready, Guarded, Outlived, Finished, Able

\* 18/mydt_driver.c on a device-tree node: the last step, the second probe, only
\* takes away what the first has set up.
LEMMA MydtTreeInOrder ==
    ASSUME NEW d, Has(d, MydtTree, {"led"}, {"cdev0"}, {}, {<<"data", "unwind">>}, {})
    PROVE  InOrder(d)
<1>1. /\ Last(d) = 8 /\ Sequence(Up(d))
      /\ Up(d)[1] = Need("data", <<>>)
      /\ Up(d)[2] = Need("region", <<"data">>)
      /\ Up(d)[3] = Need("class", <<"region", "data">>)
      /\ Up(d)[4] = Need("driver", <<"class", "region", "data">>)
      /\ Up(d)[5] = Sure("led")
      /\ Up(d)[6] = Sure("cdev0")
      /\ Up(d)[7] = Need("pdev0", <<"led", "cdev0", "driver", "class", "region", "data">>)
      /\ Up(d)[8] = Never("reprobe", <<"cdev0">>)
      /\ Down(d) = <<"pdev0", "cdev0", "driver", "class", "region", "data">>
  BY DEF Has, MydtTree, Table, Last, Up, Down, Sequence
<1>2. /\ Driver[d].doors = {"cdev0"} /\ Uses(d, {"data"}, {}, {}, {}) /\ d \in DOMAIN Driver
      /\ Leak[d] = {"led"} /\ Exempt(d) = {"cdev0", "wait"} \cup Lenient
      /\ Gap[d] = {<<"data", "unwind">>}
  BY DEF Has, MydtTree, Table, Uses, Exempt
<1>3. /\ Up(d)[1].get = "data" /\ Up(d)[2].get = "region" /\ Up(d)[3].get = "class"
      /\ Up(d)[4].get = "driver" /\ Up(d)[5].get = "led" /\ Up(d)[6].get = "cdev0"
      /\ Up(d)[7].get = "pdev0" /\ Up(d)[8].get = "reprobe"
      /\ ~Up(d)[8].works /\ \A i \in 1 .. 7 : Up(d)[i].works
      /\ \A i \in 1 .. 8 : Up(d)[i].skip = 0
  BY <1>1 DEF Need, Sure, Never
<1>4. /\ Asks(d, 0) = {} /\ Asks(d, 1) = {"data"} /\ Asks(d, 2) = {"data", "region"}
      /\ Asks(d, 3) = {"data", "region", "class"}
      /\ Asks(d, 6) = {"data", "region", "class", "driver", "led", "cdev0"}
      /\ Asks(d, 7) = {"data", "region", "class", "driver", "led", "cdev0", "pdev0"}
      /\ Asks(d, 8) = Asks(d, 7) \cup {"reprobe"}
      /\ "data" \in Asks(d, 5)
  BY <1>3 DEF Asks
<1>5. (\A n \in 0 .. 7 : Gets(d, n) = Asks(d, n)) /\ Gets(d, 8) = Asks(d, 7)
  <2>1. \A n \in 0 .. 7 : {j \in 1 .. n : Up(d)[j].works} = 1 .. n
    BY <1>3
  <2>2. {j \in 1 .. 8 : Up(d)[j].works} = 1 .. 7
    BY <1>3
  <2> QED BY <2>1, <2>2 DEF Gets, Asks
<1>6. Fatal(d) = {1, 2, 3, 4, 7} /\ Passed(d) = {8}
  BY <1>1 DEF Need, Sure, Never, Fatal, Passed
<1>7. Among(Up(d)[8].undo) = {"cdev0"}
  BY <1>1 DEF Never, Among, First
<1>8. Lost(d) = {"cdev0"}
  <2>1. {Up(d)[j].get : j \in 8 + 1 .. 8 + Up(d)[8].skip} = {}
    BY <1>3
  <2> QED BY <1>6, <1>7, <2>1 DEF Lost
<1>9. WellFormed(d)
  <2>1. {"data", "region", "class", "driver", "led", "cdev0", "pdev0", "reprobe"} \subseteq Resource
    BY <1>1, <1>2, <1>4 DEF Resource
  <2>2. /\ <<>> \in Seq(Resource) /\ <<"data">> \in Seq(Resource)
        /\ <<"region", "data">> \in Seq(Resource) /\ <<"cdev0">> \in Seq(Resource)
        /\ <<"class", "region", "data">> \in Seq(Resource)
    BY <1>4, <2>1
  <2>3. ASSUME NEW list \in {Down(d), <<"led", "cdev0", "driver", "class", "region", "data">>}
        PROVE  list \in Seq(Resource)
    <3>1. list = [k \in 1 .. 6 |-> list[k]] /\ \A k \in 1 .. 6 : list[k] \in Resource
      BY <1>1, <2>1
    <3> QED BY <3>1, SeqOf
  <2>4. \A i \in 1 .. 8 : Up(d)[i] \in StepType
    <3>1. Up(d)[1] \in StepType /\ Up(d)[2] \in StepType /\ Up(d)[3] \in StepType
      BY <1>1, <2>1, <2>2, StepOf
    <3>2. Up(d)[4] \in StepType /\ Up(d)[5] \in StepType /\ Up(d)[6] \in StepType
      BY <1>1, <2>1, <2>2, StepOf
    <3>3. Up(d)[7] \in StepType /\ Up(d)[8] \in StepType
      BY <1>1, <2>1, <2>2, <2>3, StepOf
    <3> QED BY <3>1, <3>2, <3>3
  <2>5. Up(d) \in Seq(StepType)
    BY <1>1, <2>4, SeqOf DEF Sequence, Last
  <2>6. "wait" \notin Asks(d, 8) /\ \A i \in 1 .. 8 : i + Up(d)[i].skip <= 8
    BY <1>3, <1>4
  <2> QED BY <1>1, <2>3, <2>5, <2>6 DEF WellFormed
<1>a. /\ Up(d)[1].undo = <<>> /\ Up(d)[2].undo = <<"data">> /\ Up(d)[3].undo = <<"region", "data">>
      /\ Up(d)[4].undo = <<"class", "region", "data">>
      /\ Up(d)[7].undo = <<"led", "cdev0", "driver", "class", "region", "data">>
  BY <1>1 DEF Need
<1>b. Complete(d)
  <2>1. Asks(d, 7) \subseteq Among(Down(d)) \cup Leak[d]
    BY <1>1, <1>2, <1>4 DEF Among, First
  <2>2. /\ Asks(d, 0) \subseteq Among(Up(d)[1].undo) /\ Asks(d, 1) \subseteq Among(Up(d)[2].undo)
        /\ Asks(d, 2) \subseteq Among(Up(d)[3].undo) /\ Asks(d, 3) \subseteq Among(Up(d)[4].undo)
    BY <1>4, <1>a DEF Among, First
  <2>3. Asks(d, 6) \subseteq Among(Up(d)[7].undo)
    BY <1>4, <1>a DEF Among, First
  <2> QED BY <1>1, <1>5, <1>6, <2>1, <2>2, <2>3 DEF Complete
<1>c. Precise(d)
  <2>1. /\ Sound(d, Up(d)[1].undo, 0) /\ Sound(d, Up(d)[2].undo, 1)
        /\ Sound(d, Up(d)[3].undo, 2) /\ Sound(d, Up(d)[4].undo, 3)
    BY <1>4, <1>8, <1>a DEF Sound, Kept, First
  <2>2. Sound(d, Up(d)[7].undo, 6)
    BY <1>2, <1>4, <1>8, <1>a DEF Sound, Kept, First
  <2>3. Sound(d, Down(d), 8)
    BY <1>1, <1>2, <1>4, <1>8 DEF Sound, Kept, First
  <2>4. \A i \in Fatal(d) : Sound(d, Up(d)[i].undo, i - 1)
    BY <1>6, <2>1, <2>2
  <2>5. \A i \in Passed(d) : Among(Up(d)[i].undo) \subseteq Exempt(d)
    BY <1>2, <1>6, <1>7
  <2>6. Last(d) = 8
    BY <1>1
  <2> QED BY <2>3, <2>4, <2>5, <2>6 DEF Precise
<1>d. Ready(d, {"cdev0"}, {"data"}) /\ Guarded(d, {"cdev0"}, {"data"})
  <2>1. \A j \in 1 .. 8 : Up(d)[j].get = "cdev0" => j = 6
    BY <1>3
  <2>2. "data" \in Kept(d, 5) /\ "data" \in Kept(d, 8)
    BY <1>4, <1>8 DEF Kept
  <2> QED BY <1>1, <1>2, <2>1, <2>2 DEF Ready, Guarded, Pinning
<1>e. Noted(d)
  <2>1. Skipped(d) = {"reprobe"} /\ "reprobe" \notin Used(d)
    BY <1>2, <1>3, <1>6 DEF Skipped, Uses, Used
  <2>2. "reprobe" \notin Among(Down(d))
    BY <1>1 DEF Among, First
  <2>3. \A i \in Fatal(d) : "reprobe" \notin Among(Up(d)[i].undo)
    <3>1. "reprobe" \notin Among(Up(d)[7].undo)
      BY <1>a DEF Among, First
    <3>2. /\ "reprobe" \notin Among(Up(d)[1].undo) /\ "reprobe" \notin Among(Up(d)[2].undo)
          /\ "reprobe" \notin Among(Up(d)[3].undo) /\ "reprobe" \notin Among(Up(d)[4].undo)
      BY <1>a DEF Among, First
    <3> QED BY <1>6, <3>1, <3>2
  <2> QED BY <2>1, <2>2, <2>3 DEF Noted, Released
<1> QED BY <1>2, <1>9, <1>b, <1>c, <1>d, <1>e
        DEF InOrder, Uses, Ready, Guarded, Outlived, Finished, Able

\* The drivers, by the lemma that is about their tables.
Single == {"key_counter", "key_printer", "shared_irq", "probe_shared", "probe_shared_quiet",
           "slow_irq", "proc_demo", "proc_writer", "gpiobtn_proc", "char_driver", "i2c_test",
           "spi_test"}
Stacked == {"autodev", "waitq", "gpiobtn_poll", "tiny_gpiobtn", "adc_black", "adc_blue"}
Threaded == {"scancode_tasklet", "threaded_irq", "threaded_never", "threaded_often",
             "threaded_keyboard"}
Others == {"kbd_tasklet", "app_workqueue", "task_dy", "tasklet_static", "qw", "key_logger",
           "all_irqs", "two_irqs", "softirq_button", "ioctl_driver", "multi_dev", "pseudo",
           "gpiobtn_led", "platform", "mydt", "mydt_tree", "myled_black", "myled_blue"}

\* Every driver's init and exit, as read off the sources, keep the rules.
THEOREM TablesInOrder == Repository => Rules
<1> SUFFICES ASSUME Repository, NEW d \in DOMAIN Driver PROVE InOrder(d)
  BY DEF Rules
<1>n. DOMAIN Drivers = Single \cup Stacked \cup Threaded \cup Others
  BY DEF Drivers, Single, Stacked, Threaded, Others
<1>1. CASE d \in Single
  <2>1. Driver[d] \in {KeyCounter, ProcDemo, ProcWriter, GpiobtnProc, CharDriver, I2cTest}
    BY <1>1, <1>n DEF Repository, Drivers, Single, KeyPrinter, SharedIrq, ProbeShared,
                      ProbeSharedQuiet, SlowIrq, SpiTest
  <2>2. Driver[d] \in {ProcDemo, ProcWriter, GpiobtnProc} => Unchecked[d] = {"proc"}
    <3>1. CASE d \in {"proc_demo", "proc_writer", "gpiobtn_proc"}
      BY <1>n, <3>1 DEF Repository, KnownUnchecked, Listed, Others
    <3>2. CASE d \notin {"proc_demo", "proc_writer", "gpiobtn_proc"}
      <4>1. Driver[d] \in {KeyCounter, CharDriver, I2cTest}
        BY <1>1, <1>n, <3>2 DEF Repository, Drivers, Single, KeyPrinter, SharedIrq, ProbeShared,
                                ProbeSharedQuiet, SlowIrq, SpiTest
      <4>2. Driver[d].doors # {"proc"}
        BY <4>1 DEF KeyCounter, CharDriver, I2cTest, Table
      <4> QED BY <4>2 DEF ProcDemo, ProcWriter, GpiobtnProc, Table
    <3> QED BY <3>1, <3>2
  <2> QED BY <2>1, <2>2, SingleInOrder
<1>2. CASE d \in Stacked
  <2>1. \/ Driver[d] \in {Autodev, GpiobtnPoll, TinyGpiobtn, AdcBlack}
        \/ Driver[d] = Waitq /\ Unchecked[d] = {"cdev", "class"}
        \/ Driver[d] = AdcBlue /\ Unchecked[d] = {"region", "cdev", "class"}
    BY <1>2, <1>n DEF Repository, Drivers, Stacked, KnownUnchecked, Listed
  <2> QED BY <2>1, StackInOrder
<1>3. CASE d \in Threaded
  <2>0. DOMAIN Drivers = DOMAIN Driver /\ Driver[d] = Drivers[d]
    BY DEF Repository
  <2>1. Driver[d] \in {ThreadedIrq, ThreadedNever}
    <3>1. \/ d = "scancode_tasklet" /\ Drivers[d] = ScancodeTasklet
          \/ d = "threaded_irq" /\ Drivers[d] = ThreadedIrq
          \/ d = "threaded_never" /\ Drivers[d] = ThreadedNever
          \/ d = "threaded_often" /\ Drivers[d] = ThreadedOften
          \/ d = "threaded_keyboard" /\ Drivers[d] = ThreadedKeyboard
      BY <1>3 DEF Drivers, Threaded
    <3>2. ScancodeTasklet = ThreadedIrq /\ ThreadedOften = ThreadedIrq /\ ThreadedKeyboard = ThreadedIrq
      BY DEF ScancodeTasklet, ThreadedIrq, ThreadedOften, ThreadedKeyboard
    <3> QED BY <2>0, <3>1, <3>2
  <2>2. Leak[d] = {} /\ Twice[d] = {} /\ Unchecked[d] = {} /\ Gap[d] = {} /\ Late[d] = {}
    BY <1>3, <1>n DEF Repository, KnownLeaks, KnownDoubles, KnownUnchecked, KnownGaps, KnownLate,
                      Listed, Threaded
  <2> QED BY <2>1, <2>2, ThreadedInOrder DEF Has
<1>4. CASE d = "kbd_tasklet"
  <2>1. Has(d, KbdTasklet, {"proc"}, {}, {"proc"}, {}, {"exit"})
    BY <1>4, <1>n DEF Has, Repository, Drivers, KnownLeaks, KnownDoubles, KnownUnchecked, KnownGaps,
                      KnownLate, Listed
  <2> QED BY <2>1, KbdTaskletInOrder
<1>5. CASE d = "app_workqueue"
  <2>1. Has(d, AppWorkqueue, {}, {}, {"wq", "irq"}, {}, {})
    BY <1>5, <1>n DEF Has, Repository, Drivers, KnownLeaks, KnownDoubles, KnownUnchecked, KnownGaps,
                      KnownLate, Listed
  <2> QED BY <2>1, AppWorkqueueInOrder
<1>6. CASE d = "task_dy"
  <2>1. Has(d, TaskDy, {}, {}, {}, {<<"tasklet", "init">>, <<"tasklet", "unwind">>}, {"unwind"})
    BY <1>6, <1>n DEF Has, Repository, Drivers, KnownLeaks, KnownDoubles, KnownUnchecked, KnownGaps,
                      KnownLate, Listed
  <2> QED BY <2>1, TaskDyInOrder
<1>7. CASE d = "tasklet_static"
  <2>1. Has(d, TaskletStatic, {}, {}, {"cdev"}, {}, {"unwind"})
    BY <1>7, <1>n DEF Has, Repository, Drivers, KnownLeaks, KnownDoubles, KnownUnchecked, KnownGaps,
                      KnownLate, Listed
  <2> QED BY <2>1, TaskletStaticInOrder
<1>8. CASE d = "qw"
  <2>1. Has(d, OwnWorkqueue, {}, {}, {}, {<<"wq", "init">>, <<"wq", "unwind">>}, {})
    BY <1>8, <1>n DEF Has, Repository, Drivers, KnownLeaks, KnownDoubles, KnownUnchecked, KnownGaps,
                      KnownLate, Listed
  <2> QED BY <2>1, OwnWorkqueueInOrder
<1>9. CASE d = "key_logger"
  <2>1. Has(d, KeyLogger, {}, {}, {}, {<<"log", "exit">>}, {})
    BY <1>9, <1>n DEF Has, Repository, Drivers, KnownLeaks, KnownDoubles, KnownUnchecked, KnownGaps,
                      KnownLate, Listed
  <2> QED BY <2>1, KeyLoggerInOrder
<1>10. CASE d = "all_irqs"
  <2>1. Has(d, AllIrqs, {}, {}, {}, {}, {})
    BY <1>10, <1>n DEF Has, Repository, Drivers, KnownLeaks, KnownDoubles, KnownUnchecked, KnownGaps,
                       KnownLate, Listed
  <2> QED BY <2>1, AllIrqsInOrder
<1>11. CASE d = "two_irqs"
  <2>1. Has(d, TwoIrqs, {"irq1"}, {}, {}, {}, {})
    BY <1>11, <1>n DEF Has, Repository, Drivers, KnownLeaks, KnownDoubles, KnownUnchecked, KnownGaps,
                       KnownLate, Listed
  <2> QED BY <2>1, TwoIrqsInOrder
<1>12. CASE d = "softirq_button"
  <2>1. Has(d, SoftirqButton, {"gpio", "softirq"}, {}, {}, {}, {"exit"})
    BY <1>12, <1>n DEF Has, Repository, Drivers, KnownLeaks, KnownDoubles, KnownUnchecked, KnownGaps,
                       KnownLate, Listed
  <2> QED BY <2>1, SoftirqButtonInOrder
<1>13. CASE d = "ioctl_driver"
  <2>1. Has(d, IoctlDriver, {}, {}, {}, {<<"mutex", "init">>}, {})
    BY <1>13, <1>n DEF Has, Repository, Drivers, KnownLeaks, KnownDoubles, KnownUnchecked, KnownGaps,
                       KnownLate, Listed
  <2> QED BY <2>1, IoctlDriverInOrder
<1>14. CASE d = "multi_dev"
  <2>1. Has(d, MultiDev, {}, {"cdev0", "cdev1"}, {}, {}, {})
    BY <1>14, <1>n DEF Has, Repository, Drivers, KnownLeaks, KnownDoubles, KnownUnchecked, KnownGaps,
                       KnownLate, Listed
  <2> QED BY <2>1, MultiDevInOrder
<1>15. CASE d = "pseudo"
  <2>1. Has(d, PseudoDriver, {}, {"cdev0", "cdev1"}, {}, {}, {})
    BY <1>15, <1>n DEF Has, Repository, Drivers, KnownLeaks, KnownDoubles, KnownUnchecked, KnownGaps,
                       KnownLate, Listed
  <2> QED BY <2>1, PseudoDriverInOrder
<1>16. CASE d = "gpiobtn_led"
  <2>1. Has(d, GpiobtnLed, {}, {}, {}, {}, {})
    BY <1>16, <1>n DEF Has, Repository, Drivers, KnownLeaks, KnownDoubles, KnownUnchecked, KnownGaps,
                       KnownLate, Listed
  <2> QED BY <2>1, GpiobtnLedInOrder
<1>17. CASE d = "platform" \/ d = "mydt"
  <2>1. Has(d, Platform, {}, {}, {}, {<<"data", "unwind">>}, {})
    BY <1>17, <1>n DEF Has, Repository, Drivers, KnownLeaks, KnownDoubles, KnownUnchecked, KnownGaps,
                       KnownLate, Listed, Mydt
  <2> QED BY <2>1, PlatformInOrder
<1>18. CASE d = "mydt_tree"
  <2>1. Has(d, MydtTree, {"led"}, {"cdev0"}, {}, {<<"data", "unwind">>}, {})
    BY <1>18, <1>n DEF Has, Repository, Drivers, KnownLeaks, KnownDoubles, KnownUnchecked, KnownGaps,
                       KnownLate, Listed
  <2> QED BY <2>1, MydtTreeInOrder
<1>19. CASE d = "myled_black" \/ d = "myled_blue"
  <2>1. Has(d, MyledBlack, {"class", "device"}, {}, {}, {}, {})
    BY <1>19, <1>n DEF Has, Repository, Drivers, KnownLeaks, KnownDoubles, KnownUnchecked, KnownGaps,
                       KnownLate, Listed, MyledBlue, MyledBlack
  <2> QED BY <2>1, MyledBlackInOrder
<1> QED BY <1>n, <1>1, <1>2, <1>3, <1>4, <1>5, <1>6, <1>7, <1>8, <1>9, <1>10, <1>11, <1>12,
           <1>13, <1>14, <1>15, <1>16, <1>17, <1>18, <1>19
           DEF Repository, Others

\* Whichever of the repository's drivers is loaded, its table keeps the rules.
THEOREM RulesAreKept == Repository /\ Spec => []RulesKept
<1>1. IInv /\ Rules => RulesKept
  BY DEF IInv, Basic, Rules, RulesKept
<1> QED BY <1>1, TablesInOrder, Invariance, StillRules, PTL

\* Without a hypothesis on tables: in every interleaving of any of the
\* repository's drivers with calls, interrupts and deferred work, nothing is left,
\* released twice, missed by a handler or still due but what DriverTables lists as
\* KnownLeaks, KnownDoubles, KnownGaps and KnownLate; and nothing that init failed
\* to acquire is used, or released without a look, but as KnownUnchecked lists.
THEOREM RepositoryIsSafe ==
    Repository /\ Spec => /\ [](LeavesNothing /\ ReleasesWhatItHas /\ HandlersFindWhatTheyUse)
                          /\ EndIsFinal
BY TablesInOrder, NothingIsLeft, ReleasesAreOfWhatIsHeld, HandlersAreSafe, EndsAreFinal, PTL
=============================================================================
