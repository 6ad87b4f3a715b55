----------------------------- MODULE WorkqPress -----------------------------
(***************************************************************************)
(* bottom_half/workq/app_workqueue.c: a keyboard handler stamps the time   *)
(* of its interrupt and queues a work that reports a long press when the   *)
(* stamp is LONG_PRESS old.  Handler and worker run on different CPUs; a   *)
(* work queued while it is pending is not queued twice, one queued while   *)
(* it runs runs again.                                                     *)
(***************************************************************************)
EXTENDS Integers

CONSTANTS WORD,         \* the values of an unsigned long
          Boot,         \* ticks from boot to the wrap of jiffies, machine by machine
          LONG_PRESS,
          LATENCY       \* bound: ticks from an interrupt to the end of its work

\* The lateness of a work does not reach half a word (24 days at 1000 Hz).
TimeAssumption == /\ WORD \in Nat /\ WORD % 2 = 0 /\ Boot \subseteq 1 .. WORD - 1
                  /\ LONG_PRESS \in Nat /\ LATENCY \in Nat
                  /\ LATENCY + LONG_PRESS < WORD \div 2

VARIABLES jiffies, press_time, key_pressed,
          irq,          \* the handler's place: "idle", "flagged" or "last"
          pending,      \* the work is queued
          worker, read, \* work_fn's place, and the first of the times it has read
          since,        \* ticks since the handler came in
          queued,       \* ticks since the interrupt that queued the pending work
          running       \* and since the one that queued the running work

work == <<pending, worker, read, queued, running>>
stamp == <<press_time, key_pressed>>
vars == <<jiffies, stamp, irq, since, work>>

Init == /\ jiffies \in {WORD - b : b \in Boot} /\ press_time = 0 /\ key_pressed = 0
        /\ irq = "idle" /\ pending = FALSE /\ worker = "idle" /\ read = 0
        /\ since = 0 /\ queued = 0 /\ running = 0

Older(busy, age) == IF busy THEN age + 1 ELSE 0
Tick == /\ irq # "idle" => since < LATENCY
        /\ pending => queued < LATENCY
        /\ worker # "idle" => running < LATENCY
        /\ jiffies' = (jiffies + 1) % WORD
        /\ since' = Older(irq # "idle", since)
        /\ queued' = Older(pending, queued)
        /\ running' = Older(worker # "idle", running)
        /\ UNCHANGED <<stamp, irq, pending, worker, read>>
-----------------------------------------------------------------------------
(* isr: three stores, on the CPU of the interrupt.                         *)

Flag == /\ irq = "idle" /\ irq' = "flagged" /\ since' = 0
        /\ key_pressed' = 1
        /\ UNCHANGED <<jiffies, press_time, work>>
Stamp(from, to) == /\ irq = from /\ irq' = to
                   /\ press_time' = jiffies
                   /\ UNCHANGED <<jiffies, key_pressed, since, work>>
queue_work(from, to) == /\ irq = from /\ irq' = to
                        /\ pending' = TRUE
                        /\ queued' = IF pending THEN queued ELSE since
                        /\ UNCHANGED <<jiffies, stamp, since, worker, read, running>>

\* A handler that queues the work before it has stamped the press.
IsrQueuesFirst == Flag \/ queue_work("flagged", "last") \/ Stamp("last", "idle")
Isr == Flag \/ Stamp("flagged", "last") \/ queue_work("last", "idle")
-----------------------------------------------------------------------------
(* work_fn, on the one thread of the queue.                                *)

Start == /\ pending /\ worker = "idle"
         /\ pending' = FALSE /\ worker' = "test" /\ running' = queued /\ queued' = 0
         /\ UNCHANGED <<jiffies, stamp, irq, since, read>>

\* key_pressed, then jiffies and press_time in the order the compiler chose.
Test == /\ worker = "test"
        /\ \/ key_pressed = 0 /\ worker' = "idle" /\ read' = 0
           \/ key_pressed = 1 /\ worker' = "has jiffies" /\ read' = jiffies
           \/ key_pressed = 1 /\ worker' = "has press_time" /\ read' = press_time
        /\ UNCHANGED <<jiffies, stamp, irq, since, pending, queued, running>>

\* a is after b, by less than half a word.
time_after(a, b) == (a - b) % WORD \in 1 .. WORD \div 2 - 1

Compare == \E now, pressed \in 0 .. WORD - 1 :
              /\ \/ worker = "has jiffies" /\ now = read /\ pressed = press_time
                 \/ worker = "has press_time" /\ now = jiffies /\ pressed = read
              /\ worker' = IF time_after(now, pressed + LONG_PRESS) THEN "report" ELSE "idle"
              /\ read' = 0
              /\ UNCHANGED <<jiffies, stamp, irq, since, pending, queued, running>>

Report == /\ worker = "report" /\ worker' = "idle"
          /\ UNCHANGED <<jiffies, stamp, irq, since, pending, read, queued, running>>
-----------------------------------------------------------------------------
Next == Tick \/ Isr \/ Start \/ Test \/ Compare \/ Report

Spec == Init /\ [][Next]_vars

\* Every variable keeps its type.
TypeOK == /\ jiffies \in 0 .. WORD - 1 /\ press_time \in 0 .. WORD - 1
          /\ key_pressed \in {0, 1} /\ irq \in {"idle", "flagged", "last"}
          /\ pending \in BOOLEAN /\ read \in 0 .. WORD - 1
          /\ worker \in {"idle", "test", "has jiffies", "has press_time", "report"}
          /\ {since, queued, running} \subseteq 0 .. LATENCY

\* LONG PRESS is reported only when the worker is late: more than LONG_PRESS
\* have gone since the interrupt that queued this very work.  The interval the
\* work measures is its own delay (line 27 stamps again at every interrupt, the
\* release included), never the time a key is held.
ReportsOnlyWhenLate == worker = "report" => running > LONG_PRESS
=============================================================================
