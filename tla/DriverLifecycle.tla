--------------------------- MODULE DriverLifecycle ---------------------------
(***************************************************************************)
(* Loading and unloading the repository's modules, while interrupts fire   *)
(* and user tasks use what is already there.                               *)
(*                                                                         *)
(* Init functions acquire resources in order, a failed acquisition is      *)
(* ignored or unwound, exit functions release in order.  Each driver is a  *)
(* table (module DriverTables) read off its init and exit; this module is  *)
(* the machine they all run on: the module loader, the interrupt line, the *)
(* tasks and the deferred work, between any two steps of init and exit.    *)
(* What devm_ functions acquire is left out: the driver core releases it.  *)
(***************************************************************************)
EXTENDS Sequences, Naturals, FiniteSets

CONSTANTS Driver,    \* the drivers: a function from names to tables
          Leak,      \* what each is known to leave behind after a failed load
          Twice,     \* what each is known to release without holding it
          Unchecked, \* what each is known to use or release although it
                     \* failed to acquire it, for nobody looked
          Gap,       \* what its handlers are known to miss, and in which phase
          Late       \* the phases, "unwind" or "exit", known to end with its
                     \* deferred work still due

VARIABLES drv,       \* the driver under consideration
          phase,     \* "out", "init", "unwind", "live" or "exit"
          at,        \* init's place in its table
          todo,      \* the releases under way
          held,      \* the resources the driver has
          ignored,   \* those it failed to acquire while init went on
          open,      \* a task has the device file open
          bh         \* its tasklet, softirq, thread or work: "idle" or "pending"

vars == <<drv, phase, at, todo, held, ignored, open, bh>>

D == Driver[drv]
Step == D.up[at]

\* device_destroy of a device number nobody created does nothing.
Lenient == {"device", "device0", "device1"}
\* device_create needs a class.
Base(r) == IF r \in Lenient THEN {"class"} ELSE {}

Irqs == {"irq", "irq1", "irq2"}
\* Initialised memory of the module, which goes with it.
Memory == {"tasklet", "mutex", "log"}
\* Files of these pin the module (THIS_MODULE); a proc or sysfs file is waited
\* for by the function that removes it, and counts as used call by call.
Pinning == {"cdev", "cdev0", "cdev1", "chrdev"}

Init == /\ drv \in DOMAIN Driver
        /\ phase = "out" /\ at = 1 /\ todo = <<>>
        /\ held = {} /\ ignored = {} /\ open = FALSE /\ bh = "idle"
-----------------------------------------------------------------------------
(* The module loader running init and exit.                                *)

\* A driver that has left something behind is not loaded again.
Load == /\ phase = "out" /\ held = {} /\ ~open /\ bh = "idle"
        /\ phase' = "init" /\ at' = 1 /\ ignored' = {}
        /\ UNCHANGED <<drv, todo, held, open, bh>>

Acquiring == phase = "init" /\ todo = <<>> /\ at <= Len(D.up)

Acquire == /\ Acquiring /\ Step.works /\ Base(Step.get) \subseteq held
           /\ held' = held \cup {Step.get} /\ at' = at + 1
           /\ UNCHANGED <<drv, phase, todo, ignored, open, bh>>

Fail == /\ Acquiring /\ Step.fallible
        /\ todo' = Step.undo
        /\ IF Step.abort THEN /\ phase' = "unwind"
                              /\ UNCHANGED <<at, ignored>>
                         ELSE /\ ignored' = ignored \cup {Step.get}
                              /\ at' = at + 1 + Step.skip
                              /\ UNCHANGED phase
        /\ UNCHANGED <<drv, held, open, bh>>

Loaded == /\ phase = "init" /\ todo = <<>> /\ at > Len(D.up)
          /\ phase' = "live"
          /\ UNCHANGED <<drv, at, todo, held, ignored, open, bh>>

\* tasklet_kill and flush_workqueue wait for the deferred work, as do
\* destroy_workqueue and free_irq of a threaded interrupt.
Wait == /\ todo # <<>> /\ Head(todo) = "wait" /\ bh = "idle"
        /\ todo' = Tail(todo)
        /\ UNCHANGED <<drv, phase, at, held, ignored, open, bh>>

Release == /\ todo # <<>> /\ Head(todo) # "wait"
           /\ held' = held \ {Head(todo)} /\ todo' = Tail(todo)
           /\ UNCHANGED <<drv, phase, at, ignored, open, bh>>

\* rmmod, refused while the module is pinned.
Unload == /\ phase = "live" /\ ~open
          /\ phase' = "exit" /\ todo' = D.down
          /\ UNCHANGED <<drv, at, held, ignored, open, bh>>

Gone == /\ phase \in {"unwind", "exit"} /\ todo = <<>>
        /\ phase' = "out" /\ held' = held \ Memory
        /\ UNCHANGED <<drv, at, todo, ignored, open, bh>>
-----------------------------------------------------------------------------
(* Everyone else.                                                          *)

\* try_module_get succeeds from the beginning of init, and fails in exit.
Open == /\ phase \in {"init", "unwind", "live"} /\ ~open
        /\ D.doors \cap Pinning \cap held # {}
        /\ open' = TRUE
        /\ UNCHANGED <<drv, phase, at, todo, held, ignored, bh>>

Close == /\ open /\ phase # "out"
         /\ open' = FALSE
         /\ UNCHANGED <<drv, phase, at, todo, held, ignored, bh>>

CanCall == phase # "out" /\ (open \/ (D.doors \ Pinning) \cap held # {})
CanInterrupt == phase # "out" /\ held \cap Irqs # {}
CanWork == phase # "out" /\ bh = "pending"

\* A handler that finds what it uses, and puts off the rest.
Defer(who, uses) == /\ who \in D.defers /\ uses \subseteq held
                    /\ bh' = "pending"
                    /\ UNCHANGED <<drv, phase, at, todo, held, ignored, open>>
Call == CanCall /\ Defer("call", D.call)
Interrupt == CanInterrupt /\ Defer("irq", D.irq)

Work == /\ CanWork
        /\ bh' = "idle"
        /\ UNCHANGED <<drv, phase, at, todo, held, ignored, open>>
-----------------------------------------------------------------------------
Next == \/ Load \/ Acquire \/ Fail \/ Loaded \/ Wait \/ Release \/ Unload \/ Gone
        \/ Open \/ Close \/ Call \/ Interrupt \/ Work

Spec == Init /\ [][Next]_vars
-----------------------------------------------------------------------------
TypeOK == /\ drv \in DOMAIN Driver
          /\ phase \in {"out", "init", "unwind", "live", "exit"}
          /\ at \in 1 .. Len(D.up) + 1
          /\ \A r \in held \cup ignored : \E i \in 1 .. Len(D.up) : D.up[i].get = r
          /\ open \in BOOLEAN /\ bh \in {"idle", "pending"}

\* What the handlers that can run now would reach for and not find.
Missing == (UNION {IF CanCall THEN D.call ELSE {},
                   IF CanInterrupt THEN D.irq ELSE {},
                   IF CanWork THEN D.work ELSE {}}) \ held

\* A load that fails, wherever it fails, and an unload leave nothing registered,
\* but for the leaks listed in Leak.
LeavesNothing == phase = "out" => held \subseteq Leak[drv]

\* Unwinding and exit release what init acquired, and nothing twice, but for the
\* releases listed in Twice, and what init failed to acquire only where the code
\* looks first whether it has it (careful) or is known not to look (Unchecked).
ReleasesWhatItHas ==
    todo # <<>> => Head(todo) \in UNION {held, ignored \cap (D.careful \cup Unchecked[drv]),
                                        Twice[drv], Lenient, {"wait"}}

\* No handler runs without what it uses: not before it was set up, and not after
\* it was torn down while a file, an interrupt or deferred work could still get
\* there, but for the phases listed in Gap; and not with what init failed to
\* acquire, but for what is listed in Unchecked.
HandlersFindWhatTheyUse ==
    \A r \in Missing : r \in ignored \cap Unchecked[drv] \/ <<r, phase>> \in Gap[drv]

\* When exit has returned, or init failed, the module's code is gone: nothing
\* it deferred is due any more, but for the drivers and phases in Late, and
\* after an unload no task has its file open.
EndIsFinal ==
    [][phase' = "out" /\ phase # "out"
           => (bh = "idle" \/ phase \in Late[drv]) /\ (open => phase = "unwind")]_vars
=============================================================================
