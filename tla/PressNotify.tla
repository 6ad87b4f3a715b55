----------------------------- MODULE PressNotify -----------------------------
(***************************************************************************)
(* ALL_IN_1/025/gpiobtn_led_char_poll.c: a character device that turns a   *)
(* written '1' into a button press and lets tasks wait for one, in read()  *)
(* or in poll().  The handlers share press_count, data_ready and a wait    *)
(* queue, and hold no lock.                                                *)
(*                                                                         *)
(* read() is modelled on a file at offset 0; past it, it returns 0 and     *)
(* touches nothing.  A written command other than '1' does nothing either. *)
(***************************************************************************)
EXTENDS Naturals, FiniteSets

CONSTANTS Task,
          MAX_PRESSES   \* bound: presses in a behaviour

ASSUME PressAssumption == MAX_PRESSES \in Nat

VARIABLES press_count, data_ready,
          queue,        \* the tasks on gpiobtn_waitq
          pc,           \* where each task is
          polls,        \* the tasks that called poll() rather than read()
          reg,          \* press_count as a task has loaded it
          presses,      \* presses made
          due,          \* history: a press was announced and no reader has taken
                        \* the count since
          crossed,      \* history: that happened while a reader was between
                        \* taking the count and clearing data_ready
          raced         \* history: two presses have loaded the same count

shared == <<press_count, data_ready, queue>>
history == <<presses, due, crossed, raced>>
vars == <<shared, pc, polls, reg, history>>

Init == /\ press_count = 0 /\ data_ready = 0 /\ queue = {}
        /\ pc = [t \in Task |-> "user"] /\ polls = {}
        /\ reg = [t \in Task |-> 0]
        /\ presses = 0 /\ due = FALSE /\ crossed = FALSE /\ raced = FALSE

At(place) == {t \in Task : pc[t] = place}
Go(t, from, to) == pc[t] = from /\ pc' = [pc EXCEPT ![t] = to]
-----------------------------------------------------------------------------
(* wait_event_interruptible and the loop of poll(): look, join the queue,  *)
(* look again, sleep; a wake-up unlinks, and begins again.                 *)

Join(t) == /\ data_ready = 0 /\ t \notin queue /\ Go(t, "wait", "wait")
           /\ queue' = queue \cup {t}
           /\ UNCHANGED <<press_count, data_ready, polls, reg, history>>

\* A wake-up between the look and schedule() makes schedule() return at once.
Sleep(t) == /\ data_ready = 0 /\ t \in queue /\ Go(t, "wait", "asleep")
            /\ UNCHANGED <<shared, polls, reg, history>>

\* A poll() that takes the readiness it reports.
ReadyOnce(t) == /\ data_ready = 1
                /\ Go(t, "wait", IF t \in polls THEN "user" ELSE "format")
                /\ data_ready' = IF t \in polls THEN 0 ELSE 1
                /\ queue' = queue \ {t}
                /\ UNCHANGED <<press_count, polls, reg, history>>
Ready(t) == /\ data_ready = 1
            /\ Go(t, "wait", IF t \in polls THEN "user" ELSE "format")
            /\ queue' = queue \ {t}
            /\ UNCHANGED <<press_count, data_ready, polls, reg, history>>

\* -ERESTARTSYS
Signal(t) == /\ Go(t, "asleep", "user")
             /\ queue' = queue \ {t}
             /\ UNCHANGED <<press_count, data_ready, polls, reg, history>>
-----------------------------------------------------------------------------
(* gpiobtn_read and gpiobtn_poll                                           *)

Read(t) == /\ Go(t, "user", "wait") /\ polls' = polls \ {t}
           /\ UNCHANGED <<shared, reg, history>>
Poll(t) == /\ Go(t, "user", "wait") /\ polls' = polls \cup {t}
           /\ UNCHANGED <<shared, reg, history>>

\* A read that starts the count anew.
FormatAndReset(t) == /\ Go(t, "format", "clear")
                     /\ reg' = [reg EXCEPT ![t] = press_count] /\ press_count' = 0
                     /\ due' = FALSE
                     /\ UNCHANGED <<data_ready, queue, polls, presses, crossed, raced>>
Format(t) == /\ Go(t, "format", "clear")
             /\ reg' = [reg EXCEPT ![t] = press_count]
             /\ due' = FALSE
             /\ UNCHANGED <<shared, polls, presses, crossed, raced>>

\* copy_to_user follows and may fail; nothing here depends on it.
Clear(t) == /\ Go(t, "clear", "user")
            /\ data_ready' = 0
            /\ UNCHANGED <<press_count, queue, polls, reg, history>>
-----------------------------------------------------------------------------
(* gpiobtn_write with a '1'; press_count++ is a load and a store.          *)

Press(t) == /\ presses < MAX_PRESSES
            /\ Go(t, "user", "store")
            /\ reg' = [reg EXCEPT ![t] = press_count]
            /\ presses' = presses + 1
            /\ raced' = (raced \/ At("store") # {})
            /\ UNCHANGED <<shared, polls, due, crossed>>

Store(t) == /\ Go(t, "store", "announce")
            /\ press_count' = reg[t] + 1
            /\ UNCHANGED <<data_ready, queue, polls, reg, history>>

\* A press that wakes nobody.
AnnounceOnly(t) == /\ Go(t, "announce", "user")
                   /\ data_ready' = 1
                   /\ due' = TRUE /\ crossed' = (crossed \/ At("clear") # {})
                   /\ UNCHANGED <<press_count, queue, polls, reg, presses, raced>>
Announce(t) == /\ Go(t, "announce", "wake")
               /\ data_ready' = 1
               /\ due' = TRUE /\ crossed' = (crossed \/ At("clear") # {})
               /\ UNCHANGED <<press_count, queue, polls, reg, presses, raced>>

\* A wake-up for one of the sleepers.
WakeOne(t) == /\ pc[t] = "wake"
              /\ \E u \in queue \cup {t} :
                    /\ queue # {} => u \in queue
                    /\ pc' = [pc EXCEPT ![t] = "user",
                                        ![u] = IF u = t THEN "user" ELSE "wait"]
                    /\ queue' = queue \ {u}
              /\ UNCHANGED <<press_count, data_ready, polls, reg, history>>
\* wake_up_interruptible
WakeUp(t) == /\ pc[t] = "wake"
             /\ pc' = [u \in Task |-> IF u = t THEN "user"
                                      ELSE IF u \in queue THEN "wait" ELSE pc[u]]
             /\ queue' = {}
             /\ UNCHANGED <<press_count, data_ready, polls, reg, history>>
-----------------------------------------------------------------------------
Wait(t) == Join(t) \/ Sleep(t) \/ Ready(t)
Rest(t) == Format(t) \/ Clear(t) \/ Store(t) \/ Announce(t) \/ WakeUp(t)
Next == \E t \in Task : Wait(t) \/ Signal(t) \/ Read(t) \/ Poll(t) \/ Press(t) \/ Rest(t)

Spec == Init /\ [][Next]_vars

\* A task inside a handler and not asleep is scheduled.
FairSpec == Spec /\ \A t \in Task : WF_vars(Wait(t)) /\ WF_vars(Rest(t))
-----------------------------------------------------------------------------
TypeOK == /\ press_count \in 0 .. MAX_PRESSES /\ data_ready \in {0, 1}
          /\ queue \subseteq At("wait") \cup At("asleep")
          /\ pc \in [Task -> {"user", "wait", "asleep", "format", "clear",
                              "store", "announce", "wake"}]
          /\ polls \subseteq Task /\ reg \in [Task -> 0 .. MAX_PRESSES]
          /\ presses \in 0 .. MAX_PRESSES
          /\ due \in BOOLEAN /\ crossed \in BOOLEAN /\ raced \in BOOLEAN

\* A task sleeps through the flag only while its wake-up is on the way: setting
\* the flag before waking, and looking after joining the queue, leave no gap
\* for a reader or a poller to fall asleep in.
NoLostWakeup ==
    \A t \in At("asleep") : data_ready = 1 => t \in queue /\ At("wake") # {}

\* A press that no reader has taken account of keeps the device readable, as
\* long as none was announced between a reader's snprintf (line 46) and its
\* data_ready = 0 (line 49): the flag cleared there is another press's, and
\* the next reader sleeps over it.
NoPressLost == due /\ ~crossed => data_ready = 1

\* The count is that of the presses, but for presses that raced in
\* press_count++, however they interleave with readers.
CountsPresses == ~raced => press_count + Cardinality(At("store")) = presses

\* A sleeper wakes up once the device is readable, unless another reader was
\* faster.
SleepersWake == \A t \in Task :
    pc[t] = "asleep" /\ data_ready = 1 ~> pc[t] # "asleep" \/ data_ready = 0
=============================================================================
