---------------------------- MODULE LifecycleRules ----------------------------
(***************************************************************************)
(* When are the tables of an init and an exit in order?  The rules below   *)
(* look at a table only, never at a run of it: what a reviewer of an init  *)
(* function with its error paths would tick off line by line.  They allow  *)
(* what the lists Leak, Twice, Unchecked, Gap and Late say is known to go  *)
(* wrong, and no more.  A driver that keeps them is safe in every          *)
(* interleaving of the machine of DriverLifecycle, but for what the lists  *)
(* name (module DriverLifecycleProofs).                                    *)
(***************************************************************************)
EXTENDS DriverLifecycle

Up(d) == Driver[d].up
Down(d) == Driver[d].down
Last(d) == Len(Up(d))
\* The first n of a list; all of it.
First(list, n) == {list[k] : k \in 1 .. n}
Among(list) == First(list, Len(list))

\* What init asks for in its first n steps, and what it can get of that.
Asks(d, n) == {Up(d)[i].get : i \in 1 .. n}
Gets(d, n) == {Up(d)[i].get : i \in {j \in 1 .. n : Up(d)[j].works}}
\* The steps whose failure ends init, and those whose failure does not.
Fatal(d) == {i \in 1 .. Last(d) : Up(d)[i].fallible /\ Up(d)[i].abort}
Passed(d) == {i \in 1 .. Last(d) : Up(d)[i].fallible /\ ~Up(d)[i].abort}
\* What a failure that is passed over may leave out or take back; the others
\* are there once their step is done, or their lack has been ignored.
Lost(d) == UNION {Among(Up(d)[i].undo) \cup {Up(d)[j].get : j \in i + 1 .. i + Up(d)[i].skip} :
                  i \in Passed(d)}
Kept(d, n) == Asks(d, n) \ Lost(d)

\* What may be released without being held, and all there is to release.
Exempt(d) == Twice[d] \cup Lenient \cup {"wait"}
Resource == UNION {Asks(d, Last(d)) \cup Exempt(d) : d \in DOMAIN Driver}

StepType == [get : Resource, works : BOOLEAN, fallible : BOOLEAN, abort : BOOLEAN,
             undo : Seq(Resource), skip : Nat]
WellFormed(d) == /\ Up(d) \in Seq(StepType) /\ Down(d) \in Seq(Resource)
                 /\ \A i \in 1 .. Last(d) : i + Up(d)[i].skip <= Last(d)
                 /\ "wait" \notin Asks(d, Last(d))

\* Every failure path and exit release all that init has by then.
Complete(d) ==
    /\ \A i \in Fatal(d) : Gets(d, i - 1) \subseteq Among(Up(d)[i].undo) \cup Memory \cup Leak[d]
    /\ Gets(d, Last(d)) \subseteq Among(Down(d)) \cup Memory \cup Leak[d]

\* They release nothing else and nothing twice.
Sound(d, list, n) == \A k \in 1 .. Len(list) :
    list[k] \in Exempt(d) \/ list[k] \in Kept(d, n) \ First(list, k - 1)
Precise(d) == /\ \A i \in Fatal(d) : Sound(d, Up(d)[i].undo, i - 1)
              /\ \A i \in Passed(d) : Among(Up(d)[i].undo) \subseteq Exempt(d)
              /\ Sound(d, Down(d), Last(d))

\* What init fails to acquire and goes on without is used by no handler, and
\* released by nobody who does not look first, unless that is known.
Skipped(d) == {Up(d)[i].get : i \in Passed(d)}
Used(d) == UNION {Driver[d].call, Driver[d].irq, Driver[d].work}
Released(d) == Among(Down(d)) \cup UNION {Among(Up(d)[i].undo) : i \in Fatal(d)}
Noted(d) == Skipped(d) \cap (Used(d) \cup (Released(d) \ (Exempt(d) \cup Driver[d].careful)))
               \subseteq Unchecked[d]

\* What handlers that can be reached by one of ways use is set up before the
\* first of these, is kept when init fails after it, and released by exit when
\* they are closed; a file that pins the module is closed by then.
Ready(d, ways, uses) == \A u \in uses :
    /\ \/ <<u, "init">> \in Gap[d]
       \/ \A j \in 1 .. Last(d) : Up(d)[j].get \in ways => u \in Kept(d, j - 1)
    /\ \/ <<u, "live">> \in Gap[d] \/ ways \cap Gets(d, Last(d)) = {}
       \/ u \in Kept(d, Last(d))
    /\ \/ <<u, "unwind">> \in Gap[d]
       \/ \A i \in Fatal(d) : ways \cap Gets(d, i - 1) # {} =>
                                 u \in Kept(d, i - 1) \ Among(Up(d)[i].undo)
Closed(d, ways, n) == (ways \ Pinning) \cap Gets(d, Last(d)) \subseteq First(Down(d), n)
Guarded(d, ways, uses) == \A u \in uses :
    \/ <<u, "exit">> \in Gap[d] \/ (ways \ Pinning) \cap Gets(d, Last(d)) = {}
    \/ /\ u \in Kept(d, Last(d))
       /\ \A k \in 1 .. Len(Down(d)) : Down(d)[k] = u => Closed(d, ways, k - 1)

\* Deferred work: what puts it off, when that is possible at all, and when exit
\* has waited for it with nothing left to put off more.
Triggers(d) == (IF "call" \in Driver[d].defers THEN Driver[d].doors ELSE {})
               \cup (IF "irq" \in Driver[d].defers THEN Irqs ELSE {})
Able(d, n) == \/ /\ "call" \in Driver[d].defers /\ Driver[d].doors \cap Gets(d, n) # {}
                 /\ Driver[d].call \subseteq Gets(d, n)
              \/ /\ "irq" \in Driver[d].defers /\ Irqs \cap Gets(d, n) # {}
                 /\ Driver[d].irq \subseteq Gets(d, n)
Flushed(d, n) == \E w \in 1 .. n : Down(d)[w] = "wait" /\ Closed(d, Triggers(d), w - 1)
Finished(d) == /\ "exit" \in Late[d] \/ ~Able(d, Last(d)) \/ Flushed(d, Len(Down(d)))
               /\ "unwind" \in Late[d] \/ \A i \in Fatal(d) : ~Able(d, i - 1)
Outlived(d) == \A u \in Driver[d].work :
    \/ <<u, "exit">> \in Gap[d] \/ ~Able(d, Last(d))
    \/ /\ u \in Kept(d, Last(d))
       /\ \A k \in 1 .. Len(Down(d)) : Down(d)[k] = u => Flushed(d, k - 1)

InOrder(d) == /\ WellFormed(d) /\ Complete(d) /\ Precise(d) /\ Noted(d)
              /\ Ready(d, Driver[d].doors, Driver[d].call) /\ Guarded(d, Driver[d].doors, Driver[d].call)
              /\ Ready(d, Irqs, Driver[d].irq) /\ Guarded(d, Irqs, Driver[d].irq)
              /\ Ready(d, Triggers(d), Driver[d].work) /\ Outlived(d) /\ Finished(d)
Rules == \A d \in DOMAIN Driver : InOrder(d)

\* The table of the driver under consideration keeps every rule.
RulesKept == InOrder(drv)
=============================================================================
