------------------------------- MODULE Debounce -------------------------------
(***************************************************************************)
(* ALL_IN_1/026/tiny_gpiobtn.c: presses written to a character device, and *)
(* ignored within debounce_ms of the one before.  Time is jiffies, a word  *)
(* that wraps; last_press starts at 0.  Writers hold no lock.              *)
(*                                                                         *)
(* Where jiffies starts depends on the build.  INITIAL_JIFFIES is -300*HZ  *)
(* in 32 bits: with a 32-bit long five minutes short of the wrap, so that  *)
(* jiffies is behind last_press; with a 64-bit one (the driver's object    *)
(* files are of x86-64) 2^32 - 300*HZ, ahead of it and far from the wrap.  *)
(***************************************************************************)
EXTENDS Integers

CONSTANTS Task,
          WORD,       \* the values of an unsigned long
          Boot,       \* ticks from boot to the wrap, on the machines looked at
          COUNTS,     \* the values of an int, which wraps too
          debounce,   \* msecs_to_jiffies(debounce_ms)
          STALL       \* bound: ticks a writer is held up in the handler

\* 50 ms are no more than half a word of ticks, and jiffies does not start
\* within 50 ms of 0: both builds do, whichever half of the word they start in.
ASSUME WordAssumption == /\ WORD \in Nat /\ WORD % 2 = 0 /\ STALL \in Nat
                         /\ debounce \in 1 .. WORD \div 2
                         /\ Boot \subseteq 1 .. WORD - debounce
                         /\ COUNTS \in Nat \ {0}

VARIABLES boot,       \* ticks from boot to the wrap on this machine
          jiffies, last_press, press_count,
          pc, now,    \* a writer's place, and jiffies as it came in
          count,      \* what it has loaded of press_count
          age,        \* ticks since it came in
          since,      \* history: ticks since the last accepted press came in, or
                      \* since boot; from Far on they are not told apart
          pressed,    \* history: a press has been accepted
          crossed     \* history: two writers have been in the handler at a time

history == <<since, pressed, crossed>>
counting == <<press_count, count>>
vars == <<boot, jiffies, last_press, counting, pc, now, age, history>>

Far == 2 * WORD + STALL

Init == /\ boot \in Boot /\ jiffies = WORD - boot
        /\ last_press = 0 /\ press_count = 0 /\ count = [t \in Task |-> 0]
        /\ pc = [t \in Task |-> "user"]
        /\ now = [t \in Task |-> 0] /\ age = [t \in Task |-> 0]
        /\ since = 0 /\ pressed = FALSE /\ crossed = FALSE

Tick == /\ \A t \in Task : pc[t] # "user" => age[t] < STALL
        /\ jiffies' = (jiffies + 1) % WORD
        /\ age' = [t \in Task |-> IF pc[t] = "user" THEN 0 ELSE age[t] + 1]
        /\ since' = IF since < Far THEN since + 1 ELSE Far
        /\ UNCHANGED <<boot, last_press, counting, pc, now, pressed, crossed>>
-----------------------------------------------------------------------------
\* Compared as numbers.
smaller(a, b) == a < b
\* a is behind b, by no more than half a word.
time_before(a, b) == (b - a) % WORD \in 1 .. WORD \div 2

(* gpiobtn_write.  It reads jiffies, then the command.                     *)
Write(t) == /\ pc[t] = "user"
            /\ pc' = [pc EXCEPT ![t] = "check"]
            /\ now' = [now EXCEPT ![t] = jiffies] /\ age' = [age EXCEPT ![t] = 0]
            /\ crossed' = (crossed \/ \E u \in Task : pc[u] # "user")
            /\ UNCHANGED <<boot, jiffies, last_press, counting, since, pressed>>

\* The command faults, or is not '1'.
Return(t) == /\ pc[t] \in {"check", "ignored"}
             /\ pc' = [pc EXCEPT ![t] = "user"]
             /\ UNCHANGED <<boot, jiffies, last_press, counting, now, age, history>>

\* A test that is off by one.
CheckLess(t) ==
    /\ pc[t] = "check"
    /\ pc' = [pc EXCEPT ![t] =
                 IF time_before(now[t], (last_press + debounce - 1) % WORD) THEN "ignored"
                                                                            ELSE "accept"]
    /\ UNCHANGED <<boot, jiffies, last_press, counting, now, age, history>>
Check(t) ==
    /\ pc[t] = "check"
    /\ pc' = [pc EXCEPT ![t] =
                 IF time_before(now[t], (last_press + debounce) % WORD) THEN "ignored"
                                                                        ELSE "accept"]
    /\ UNCHANGED <<boot, jiffies, last_press, counting, now, age, history>>

\* The time of leaving stored for the time of coming in.
AcceptLate(t) == /\ pc[t] = "accept"
                 /\ pc' = [pc EXCEPT ![t] = "count"]
                 /\ last_press' = jiffies
                 /\ count' = [count EXCEPT ![t] = press_count]
                 /\ since' = age[t] /\ pressed' = TRUE
                 /\ UNCHANGED <<boot, jiffies, press_count, now, age, crossed>>
\* last_press = now, and the load of press_count++.
Accept(t) == /\ pc[t] = "accept"
             /\ pc' = [pc EXCEPT ![t] = "count"]
             /\ last_press' = now[t]
             /\ count' = [count EXCEPT ![t] = press_count]
             /\ since' = age[t] /\ pressed' = TRUE
             /\ UNCHANGED <<boot, jiffies, press_count, now, age, crossed>>

\* Its store.
Count(t) == /\ pc[t] = "count"
            /\ pc' = [pc EXCEPT ![t] = "user"]
            /\ press_count' = (count[t] + 1) % COUNTS
            /\ count' = [count EXCEPT ![t] = 0]
            /\ UNCHANGED <<boot, jiffies, last_press, now, age, history>>
-----------------------------------------------------------------------------
Next == Tick \/ \E t \in Task : Write(t) \/ Return(t) \/ Check(t) \/ Accept(t) \/ Count(t)

Spec == Init /\ [][Next]_vars
-----------------------------------------------------------------------------
Place == {"user", "check", "ignored", "accept", "count"}
TypeOK == /\ boot \in Boot
          /\ jiffies \in 0 .. WORD - 1 /\ last_press \in 0 .. WORD - 1
          /\ press_count \in 0 .. COUNTS - 1 /\ count \in [Task -> 0 .. COUNTS - 1]
          /\ pc \in [Task -> Place]
          /\ now \in [Task -> 0 .. WORD - 1] /\ age \in [Task -> 0 .. STALL]
          /\ since \in 0 .. Far /\ pressed \in BOOLEAN /\ crossed \in BOOLEAN

\* Ticks between a press and the one accepted before it, from handler to
\* handler.
Gap(t) == since - age[t]
Judged(t, as) == pc[t] = "check" /\ pc'[t] = as

\* Of two accepted presses the second came debounce ticks after the first, over
\* the wrap of jiffies as well, as long as no two writers have met in the
\* handler (lines 38-52 test and set last_press without a lock, and can set it
\* back).
AcceptedApart ==
    [][\A t \in Task : Judged(t, "accept") /\ pressed /\ ~crossed => Gap(t) >= debounce]_vars

\* A press is not ignored for anything but the press before it, except half a
\* word of jiffies after it, when the difference turns negative.
IgnoredWhenClose ==
    [][\A t \in Task : Judged(t, "ignored") /\ pressed /\ ~crossed =>
           Gap(t) < debounce \/ Gap(t) >= WORD \div 2 + debounce]_vars

\* last_press is 0 before the first press, which the driver takes for a press at
\* jiffies = 0: it ignores presses until debounce ticks after the wrap, and starts
\* to half a word before that, or at boot when boot is later.
DeafFrom == IF boot + debounce > WORD \div 2 THEN boot + debounce - WORD \div 2 ELSE 0
DeafUntil == boot + debounce

\* No press is accepted while the driver is deaf, and until one is accepted none
\* is ignored at another time, but half a word after that.  With a 32-bit long it
\* is deaf at boot, for five minutes and debounce; with a 64-bit one only after
\* some half a word of uptime, which nobody waits for, and a first press before
\* that is accepted.
DeafAtBoot ==
    [][\A t \in Task : ~pressed =>
         /\ Judged(t, "accept") => Gap(t) < DeafFrom \/ Gap(t) >= DeafUntil
         /\ Judged(t, "ignored") =>
              DeafFrom <= Gap(t) /\ (Gap(t) < DeafUntil \/ Gap(t) >= DeafUntil + WORD \div 2)]_vars
=============================================================================
