------------------------------ MODULE KbdTasklet ------------------------------
(***************************************************************************)
(* bottom_half/tasklet_app/keyboard_tasklet.c: the interrupt handler of    *)
(* the keyboard latches a key and its time, a tasklet turns them into a    *)
(* message in proc_buf, and a polling program (user_app.c) reads the       *)
(* message through /proc.                                                  *)
(*                                                                         *)
(* A CPU runs the handler before a tasklet and a tasklet before a thread,  *)
(* and what is preempted waits.  The keyboard line may be delivered to any *)
(* CPU of IrqCpu, one interrupt at a time.  Only proc_buf has a lock:      *)
(* prev_key and prev_time are shared with none, and proc_len, written      *)
(* under it, is read for the result of a read after it has been released.  *)
(***************************************************************************)
EXTENDS Integers

CONSTANTS Cpu, IrqCpu,  \* the CPUs; those the keyboard interrupts
          Reader,       \* the polling threads
          CpuOf,        \* the CPU each of them runs on
          Key,          \* characters kbdus[] knows
          DOUBLE_MS,    \* the window, in ticks of jiffies
          MaxTime,      \* bound: the last tick followed
          None          \* no key, no message, nobody

ASSUME KbdAssumption == /\ IrqCpu \subseteq Cpu
                        /\ CpuOf \in [Reader -> Cpu]
                        /\ DOUBLE_MS \in Nat /\ MaxTime \in Nat
                        /\ None \notin Key \cup Reader \cup Cpu
                        /\ "tasklet" \notin Reader \cup {None}

VARIABLES jiffies,
          prev_key, prev_time,
          stamping,   \* the CPU whose handler is between its two assignments
          pending,    \* the CPU the tasklet is scheduled on
          tk,         \* where the tasklet is
          running,    \* the CPU it runs on
          now, msg,   \* its locals
          proc_lock,  \* who holds it
          proc_buf,   \* the two halves of the text, as snprintf writes them
          proc_len,   \* its length, as snprintf returns it
          rd, ubuf,   \* where each reader is, and the two halves it has copied
          copied,     \* how many bytes those are
          ppos, ret,  \* its file's position, and what its last read returned
          presses     \* keys the handler has seen since it latched prev_key, to 2

isr == <<prev_key, prev_time, stamping, presses>>
tasklet == <<pending, tk, running, now, msg>>
buffer == <<proc_buf, proc_len>>
reads == <<rd, ubuf, copied, ppos, ret>>
vars == <<jiffies, isr, tasklet, proc_lock, buffer, reads>>

\* "DOUBLE PRESS: a\n" is three bytes longer than "KEY PRESS: a\n".
Length == [kind \in {"DOUBLE PRESS", "KEY PRESS"} |-> IF kind = "DOUBLE PRESS" THEN 16 ELSE 13]
Message == [kind : DOMAIN Length, key : Key]
Size(m) == IF m = None THEN 0 ELSE Length[m.kind]
EFAULT == 14
ASSUME MessageAssumption == None \notin Message

Init == /\ jiffies = 0
        /\ prev_key = None /\ prev_time = 0 /\ stamping = None /\ presses = 0
        /\ pending = None /\ tk = "idle" /\ running = None
        /\ now = 0 /\ msg = None
        /\ proc_lock = None
        /\ proc_buf = <<None, None>> /\ proc_len = 0
        /\ rd = [r \in Reader |-> "idle"]
        /\ ubuf = [r \in Reader |-> <<None, None>>]
        /\ copied = [r \in Reader |-> 0]
        /\ ppos = [r \in Reader |-> 0] /\ ret = [r \in Reader |-> 0]

Tick == /\ jiffies < MaxTime
        /\ jiffies' = jiffies + 1
        /\ UNCHANGED <<isr, tasklet, proc_lock, buffer, reads>>
-----------------------------------------------------------------------------
(* What a CPU is busy with.                                                *)

TaskletCanRun == stamping = None \/ stamping # running
ReaderCanRun(r) == CpuOf[r] \notin {stamping, running} \ {None}

\* tasklet_schedule: once scheduled, it stays on the CPU that did it.
Schedule(c) == pending' = IF pending = None THEN c ELSE pending
-----------------------------------------------------------------------------
(* kbd_irq.  Releases and keys without a character change nothing.         *)

\* The handler without its look at prev_key.
LatchAlways(k, c) == /\ stamping = None
                     /\ prev_key' = k /\ stamping' = c /\ presses' = 1
                     /\ UNCHANGED <<prev_time, pending>>
\* The first key of a batch is latched; its time follows.
Latch(k, c) == /\ stamping = None
               /\ prev_key = None
               /\ prev_key' = k /\ stamping' = c /\ presses' = 1
               /\ UNCHANGED <<prev_time, pending>>

\* The handler with its tasklet_schedule left to the keys that follow.
StampOnly(c) == /\ stamping = c
                /\ prev_time' = jiffies
                /\ stamping' = None
                /\ UNCHANGED <<pending, prev_key, presses>>
Stamp(c) == /\ stamping = c
            /\ prev_time' = jiffies
            /\ stamping' = None
            /\ Schedule(c)
            /\ UNCHANGED <<prev_key, presses>>

\* Later keys of the batch only schedule the tasklet.
KeepFirst(c) == /\ stamping = None
                /\ prev_key # None
                /\ presses' = 2
                /\ Schedule(c)
                /\ UNCHANGED <<prev_key, prev_time, stamping>>

Irq == /\ \E c \in IrqCpu : Stamp(c) \/ KeepFirst(c) \/ \E k \in Key : Latch(k, c)
       /\ UNCHANGED <<jiffies, tk, running, now, msg, proc_lock, buffer, reads>>
-----------------------------------------------------------------------------
(* kbd_tasklet_fn, and the softirq that runs it.                           *)

\* SCHED is cleared before the function runs, so a call made while it runs
\* schedules it again; RUN keeps it off a second CPU.
Start == /\ pending # None /\ running = None /\ stamping # pending
         /\ running' = pending /\ pending' = None
         /\ tk' = "check" /\ now' = jiffies
         /\ UNCHANGED <<msg, isr, proc_lock, buffer>>

Verdict == IF now < prev_time + DOUBLE_MS THEN "DOUBLE PRESS" ELSE "KEY PRESS"

Check == /\ tk = "check"
         /\ \/ prev_key = None /\ tk' = "idle" /\ running' = None /\ UNCHANGED msg
            \/ /\ prev_key # None
               /\ msg' = [kind |-> Verdict, key |-> prev_key]
               /\ tk' = "lock"
               /\ UNCHANGED running
         /\ UNCHANGED <<pending, now, isr, proc_lock, buffer>>

\* The tasklet without spin_lock(&proc_lock).
SkipLock == /\ tk = "lock"
            /\ tk' = "store"
            /\ UNCHANGED <<pending, running, now, msg, isr, proc_lock, buffer>>
SpinLock == /\ tk = "lock"
            /\ proc_lock = None
            /\ proc_lock' = "tasklet"
            /\ tk' = "store"
            /\ UNCHANGED <<pending, running, now, msg, isr, buffer>>

Store == /\ tk = "store"
         /\ proc_buf' = [proc_buf EXCEPT ![1] = msg]
         /\ tk' = "unlock"
         /\ UNCHANGED <<pending, running, now, msg, isr, proc_lock, proc_len>>

StoreRest == /\ tk = "unlock"
             /\ proc_buf' = [proc_buf EXCEPT ![2] = msg]
             /\ proc_len' = Size(msg)
             /\ proc_lock' = IF proc_lock = "tasklet" THEN None ELSE proc_lock
             /\ tk' = "clear"
             /\ UNCHANGED <<pending, running, now, msg, isr>>

\* prev_key = 0, whatever was pressed since it was checked.
Clear == /\ tk = "clear"
         /\ prev_key' = None /\ presses' = 0
         /\ tk' = "idle" /\ running' = None /\ msg' = None
         /\ UNCHANGED <<prev_time, stamping, pending, now, proc_lock, buffer>>

Tasklet == /\ \/ Start
              \/ TaskletCanRun /\ (Check \/ SpinLock \/ Store \/ StoreRest \/ Clear)
           /\ UNCHANGED <<jiffies, reads>>
-----------------------------------------------------------------------------
(* open and proc_read, as user_app.c and any other program call them.      *)

Goto(r, l) == rd' = [rd EXCEPT ![r] = l]

Open(r) == /\ rd[r] = "idle"
           /\ ppos' = [ppos EXCEPT ![r] = 0]
           /\ UNCHANGED <<rd, ubuf, copied, ret, proc_lock>>

\* The buffer is cleared for the read (user_app.c: memset); at a position
\* other than the start there is nothing to read.
Read(r) == /\ rd[r] = "idle"
           /\ ubuf' = [ubuf EXCEPT ![r] = <<None, None>>]
           /\ copied' = [copied EXCEPT ![r] = 0]
           /\ ret' = [ret EXCEPT ![r] = 0]
           /\ Goto(r, IF ppos[r] > 0 THEN "idle" ELSE "lock")
           /\ UNCHANGED <<ppos, proc_lock>>

ReadLock(r) == /\ rd[r] = "lock"
               /\ proc_lock = None
               /\ proc_lock' = r
               /\ Goto(r, "copy")
               /\ UNCHANGED <<ubuf, copied, ppos, ret>>

Copy(r) == /\ rd[r] = "copy"
           /\ ubuf' = [ubuf EXCEPT ![r][1] = proc_buf[1]]
           /\ copied' = [copied EXCEPT ![r] = proc_len]
           /\ Goto(r, "rest")
           /\ UNCHANGED <<ppos, ret, proc_lock>>

CopyRest(r) == /\ rd[r] = "rest"
               /\ ubuf' = [ubuf EXCEPT ![r][2] = proc_buf[2]]
               /\ proc_lock' = None
               /\ Goto(r, "offset")
               /\ UNCHANGED <<copied, ppos, ret>>

\* The user's buffer is not there, or not all of it.
CopyFails(r) == /\ rd[r] \in {"copy", "rest"}
                /\ proc_len > 0
                /\ proc_lock' = None
                /\ ret' = [ret EXCEPT ![r] = -EFAULT]
                /\ Goto(r, "idle")
                /\ UNCHANGED <<ubuf, copied, ppos>>

\* A read that forgets *ppos = proc_len.
SkipOffset(r) == /\ rd[r] = "offset"
                 /\ Goto(r, "return")
                 /\ UNCHANGED <<ubuf, copied, ppos, ret, proc_lock>>
\* proc_len as it is now, not as it was when its bytes were copied; and once
\* more for the result.
SetOffset(r) == /\ rd[r] = "offset"
                /\ ppos' = [ppos EXCEPT ![r] = proc_len]
                /\ Goto(r, "return")
                /\ UNCHANGED <<ubuf, copied, ret, proc_lock>>

Return(r) == /\ rd[r] = "return"
             /\ ret' = [ret EXCEPT ![r] = proc_len]
             /\ Goto(r, "idle")
             /\ UNCHANGED <<ubuf, copied, ppos, proc_lock>>

ReaderWork(r) ==
    /\ ReaderCanRun(r)
    /\ ReadLock(r) \/ Copy(r) \/ CopyRest(r) \/ CopyFails(r) \/ SetOffset(r) \/ Return(r)
    /\ UNCHANGED <<jiffies, isr, tasklet, buffer>>
ReaderCall(r) == /\ ReaderCanRun(r)
                 /\ Open(r) \/ Read(r)
                 /\ UNCHANGED <<jiffies, isr, tasklet, buffer>>
-----------------------------------------------------------------------------
Next == Tick \/ Irq \/ Tasklet \/ \E r \in Reader : ReaderCall(r) \/ ReaderWork(r)

Spec == Init /\ [][Next]_vars

\* An interrupt handler runs to its end; a pending softirq is run; a thread
\* inside a system call gets its CPU back again and again, and the spinlock is
\* a ticket lock, so whoever spins on it is served.
Fairness == /\ \A c \in IrqCpu : WF_vars(Irq /\ stamping = c)
            /\ SF_vars(Tasklet)
            /\ \A r \in Reader : SF_vars(ReaderWork(r))
FairSpec == Spec /\ Fairness
-----------------------------------------------------------------------------
Sizes == {0} \cup {Length[kind] : kind \in DOMAIN Length}

TypeOK == /\ jiffies \in 0 .. MaxTime /\ prev_time \in 0 .. MaxTime
          /\ prev_key \in Key \cup {None}
          /\ stamping \in IrqCpu \cup {None} /\ pending \in IrqCpu \cup {None}
          /\ tk \in {"idle", "check", "lock", "store", "unlock", "clear"}
          /\ running \in IrqCpu \cup {None} /\ (running = None <=> tk = "idle")
          /\ now \in 0 .. MaxTime /\ msg \in Message \cup {None}
          /\ proc_lock \in Reader \cup {"tasklet", None}
          /\ proc_buf \in (Message \cup {None}) \X (Message \cup {None})
          /\ proc_len \in Sizes
          /\ rd \in [Reader -> {"idle", "lock", "copy", "rest", "offset", "return"}]
          /\ ubuf \in [Reader -> (Message \cup {None}) \X (Message \cup {None})]
          /\ copied \in [Reader -> Sizes] /\ ppos \in [Reader -> Sizes]
          /\ ret \in [Reader -> Sizes \cup {-EFAULT}]
          /\ presses \in 0 .. 2

\* proc_lock keeps the bytes of a message together: what a read has copied (and
\* user_app.c prints, which takes no notice of the result) is both halves of one
\* message and as many bytes as that message has.  It says nothing of the length
\* the read returns, which may be another message's.
Copied(r) == rd[r] \in {"offset", "return"} \/ (rd[r] = "idle" /\ ret[r] >= 0)
NoTornMessage == \A r \in Reader : Copied(r) => /\ ubuf[r][1] = ubuf[r][2]
                                                /\ copied[r] = Size(ubuf[r][1])

\* The key the tasklet forgets is the key it has just published, although the
\* handler may run between the two (keyboard_tasklet.c:88 and :91).
ForgetsOnlyPublished ==
    [][prev_key # None /\ prev_key' = None => proc_buf[2] # None /\ proc_buf[2].key = prev_key]_vars

\* Every batch is closed: a latched key is published and forgotten, so that the
\* handler latches again, even when its tasklet_schedule comes while the tasklet
\* is running and no further key is pressed.
BatchIsClosed == \A k \in Key : prev_key = k ~> prev_key = None

\* What a program sees of it: the second half completes a message, and the first
\* half of a copy is its bytes (the second is the box's when the lock is released).
M == INSTANCE Mailbox WITH Kind <- DOMAIN Length,
                           latched <- prev_key, posted <- (tk = "clear"), box <- proc_buf[2],
                           at <- [r \in Reader |-> IF rd[r] \in {"lock", "copy", "rest"} THEN "take"
                                                   ELSE rd[r]],
                           pos <- ppos, told <- ret,
                           got <- [r \in Reader |-> IF Copied(r) THEN ubuf[r][1] ELSE None]

\* With its lock, its tasklet and its text written in two parts, the driver is a
\* mailbox of one message: every latched key is posted exactly once before it is
\* forgotten, and the bytes of a read are the box of one moment of the call.  The
\* position and the result are the length of the box at two later moments, so a
\* read may return the length of a message other than the one it copied.
MailboxSpec == M!Spec

\* "Keyboard double press detection" (keyboard_tasklet.c:12): DOUBLE PRESS is
\* reported of two presses.
DoubleMeansTwo == [][proc_buf'[1] # proc_buf[1] /\ proc_buf'[1].kind = "DOUBLE PRESS"
                       => presses >= 2]_vars

\* "100ms polling" (user_app.c:29): the poll's read comes back.
PollReturns == \A r \in Reader : rd[r] # "idle" ~> rd[r] = "idle"
=============================================================================
