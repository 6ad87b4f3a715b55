------------------------------ MODULE LongPress ------------------------------
(***************************************************************************)
(* bottom_half/threaded_irq/long.c: a threaded interrupt handler that      *)
(* reports a key held for long_press_ms.  The top half keeps pressed[] and *)
(* wakes the thread at every make code of the target key, typematic        *)
(* repeats included; the thread sleeps for the threshold, looks at         *)
(* pressed[] again and writes an alert.                                    *)
(*                                                                         *)
(* The kernel keeps one thread per handler and one flag that says it has   *)
(* been asked to run: wake-ups that come while it sleeps are merged into   *)
(* one more run.  Time passes in ticks; a thread that can run does so      *)
(* within LATENCY of them.                                                 *)
(***************************************************************************)
EXTENDS Naturals

CONSTANTS long_press_ms,  \* the threshold, in ticks
          LATENCY         \* bound: ticks a runnable thread waits for a CPU

TimeAssumption == long_press_ms \in Nat \ {0} /\ LATENCY \in Nat

VARIABLES phase,      \* "out", "live", or "freeing" inside free_irq
          pressed,    \* pressed[target_scancode]
          held,       \* ticks for which it has been TRUE
          runthread,  \* the thread has been asked to run
          thread,     \* where it is
          left,       \* ticks left of its msleep
          lag,        \* ticks for which it has been runnable
          answered,   \* the thread has found this very hold and writes its alert
          repressed   \* this hold began while the thread was asleep

key == <<pressed, held, answered, repressed>>
worker == <<thread, left, lag>>
vars == <<phase, key, runthread, worker>>

\* The longest a hold can go unnoticed: the alert of a previous run, the sleep,
\* and three turns on a CPU.
Longest == long_press_ms + 3 * LATENCY

Idle == thread = "wait" /\ ~runthread
Asleep == thread = "sleep" /\ left > 0

Init == /\ phase = "out"
        /\ pressed = FALSE /\ held = 0 /\ answered = FALSE /\ repressed = FALSE
        /\ runthread = FALSE
        /\ thread = "wait" /\ left = 0 /\ lag = 0

Tick == /\ Idle \/ Asleep \/ lag < LATENCY
        /\ held' = IF pressed /\ held <= Longest THEN held + 1 ELSE held
        /\ left' = IF Asleep THEN left - 1 ELSE left
        /\ lag' = IF Idle \/ Asleep THEN 0 ELSE lag + 1
        /\ UNCHANGED <<phase, pressed, answered, repressed, runthread, thread>>
-----------------------------------------------------------------------------
(* kbd_longpress_init and kbd_longpress_exit.                              *)

Load == /\ phase = "out"
        /\ phase' = "live"
        /\ pressed' = FALSE /\ held' = 0 /\ answered' = FALSE /\ repressed' = FALSE
        /\ UNCHANGED <<runthread, worker>>

\* free_irq: no interrupt any more; the runs already asked for are waited for,
\* then the thread is stopped.
FreeIrq == /\ phase = "live"
           /\ phase' = "freeing"
           /\ UNCHANGED <<key, runthread, worker>>
Unloaded == /\ phase = "freeing" /\ Idle
            /\ phase' = "out"
            /\ UNCHANGED <<key, runthread, worker>>
-----------------------------------------------------------------------------
(* kbd_top_handler, for the target key; the other keys leave no trace here. *)

\* A top half that does not wake a thread it finds at work.
WakeIfIdle == runthread' = (runthread \/ thread = "wait")
\* IRQ_WAKE_THREAD
WakeThread == runthread' = TRUE

Press == /\ phase = "live"
         /\ pressed' = TRUE
         /\ IF pressed THEN UNCHANGED <<held, answered, repressed>>
            ELSE /\ held' = 0 /\ answered' = FALSE
                 /\ repressed' = (thread = "sleep")
         /\ WakeThread
         /\ UNCHANGED <<phase, worker>>

Release == /\ phase = "live"
           /\ pressed' = FALSE /\ held' = 0 /\ answered' = FALSE /\ repressed' = FALSE
           /\ UNCHANGED <<phase, runthread, worker>>
-----------------------------------------------------------------------------
(* kbd_thread_fn, and the kernel's irq thread around it.                   *)

\* One tick less than the threshold.
Doze == left' = long_press_ms - 1
\* msleep(long_press_ms)
Sleep == left' = long_press_ms

Wake == /\ thread = "wait" /\ runthread
        /\ runthread' = FALSE
        /\ thread' = "sleep" /\ Sleep /\ lag' = 0
        /\ repressed' = FALSE
        /\ UNCHANGED <<phase, pressed, held, answered>>

\* A thread that watches the key until it is released.
CheckAgain == /\ thread = "sleep" /\ left = 0
              /\ thread' = IF pressed THEN "write" ELSE "wait"
              /\ runthread' = (runthread \/ pressed)
              /\ answered' = pressed /\ lag' = 0
              /\ UNCHANGED <<phase, pressed, held, repressed, left>>
\* still_pressed, read under the lock and acted on after it.
Check == /\ thread = "sleep" /\ left = 0
         /\ thread' = IF pressed THEN "write" ELSE "wait"
         /\ answered' = pressed /\ lag' = 0
         /\ UNCHANGED <<phase, pressed, held, repressed, runthread, left>>

\* write_alert_to_file, whether or not the file can be opened and written.
Write == /\ thread = "write"
         /\ thread' = "wait" /\ lag' = 0
         /\ UNCHANGED <<phase, key, runthread, left>>

Thread == Wake \/ Check \/ Write
-----------------------------------------------------------------------------
Next == Tick \/ Load \/ FreeIrq \/ Unloaded \/ Press \/ Release \/ Thread

Spec == Init /\ [][Next]_vars

\* The clock ticks, the thread is scheduled, and free_irq returns when it can.
FairSpec == Spec /\ WF_vars(Tick) /\ WF_vars(Thread) /\ WF_vars(Unloaded)
-----------------------------------------------------------------------------
TypeOK == /\ phase \in {"out", "live", "freeing"}
          /\ pressed \in BOOLEAN /\ answered \in BOOLEAN /\ repressed \in BOOLEAN
          /\ held \in 0 .. Longest + 1 /\ runthread \in BOOLEAN
          /\ thread \in {"wait", "sleep", "write"}
          /\ left \in 0 .. long_press_ms /\ lag \in 0 .. LATENCY

\* No long press is missed: a key held past the threshold and the thread's own
\* delays has been answered, also when its press came in the middle of the run
\* for an earlier one and was merged with it.
LongHoldAnswered == pressed /\ held > Longest => answered

\* An alert is early only when the key was released and pressed again during
\* the sleep, which checks no more than the two ends (long.c:124-128).
EarlyOnlyWhenRepressed ==
    [][thread # "write" /\ thread' = "write" => held >= long_press_ms \/ repressed]_vars

\* "Sleep for required hold duration" (long.c:123) with "hold threshold in
\* milliseconds" (long.c:19): an alert means the key was held that long.
AlertMeansHeld ==
    [][thread # "write" /\ thread' = "write" => held >= long_press_ms]_vars

\* rmmod comes to an end, even while the key is held.
UnloadEnds == phase = "freeing" ~> phase = "out"
=============================================================================
