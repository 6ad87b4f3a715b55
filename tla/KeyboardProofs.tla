--------------------------- MODULE KeyboardProofs ---------------------------
(***************************************************************************)
(* The two drivers that watch keys of the keyboard.                        *)
(*                                                                         *)
(* The keyboard tasklet, for any CPUs, readers, keys and window: a reader  *)
(* copies a message in one piece, and the key that is forgotten is the one *)
(* that has been published.  The first rests on proc_lock, the second on   *)
(* the handler, which leaves a latched key alone until it is forgotten.    *)
(* Together they make the driver a mailbox of one message, in which the    *)
(* result of a read is the length of a later moment than its bytes.        *)
(*                                                                         *)
(* The long-press alert, for every threshold and scheduling latency: no    *)
(* hold is missed, and none answered early but one begun in the sleep.     *)
(***************************************************************************)
EXTENDS KbdTasklet, MCLongPress, TLAPS

Half == Message \cup {None}
Busy == {"lock", "store", "unlock", "clear"}

Typed == /\ prev_key \in Key \cup {None} /\ msg \in Half
         /\ pending \in IrqCpu \cup {None} /\ stamping \in IrqCpu \cup {None}
         /\ running \in IrqCpu \cup {None} /\ (running = None <=> tk = "idle")
         /\ tk \in {"idle", "check"} \cup Busy
         /\ proc_buf \in Half \X Half
         /\ proc_len = Size(proc_buf[2])
         /\ rd \in [Reader -> {"idle", "lock", "copy", "rest", "offset", "return"}]
         /\ ubuf \in [Reader -> Half \X Half]
         /\ copied \in [Reader -> Sizes] /\ ppos \in [Reader -> Sizes]
         /\ ret \in [Reader -> Sizes \cup {-EFAULT}]

\* One holder: the tasklet while it writes, a reader while it copies.
Locked == /\ proc_lock = "tasklet" <=> tk \in {"store", "unlock"}
          /\ \A r \in Reader : proc_lock = r <=> rd[r] \in {"copy", "rest"}

\* The halves differ only in the middle of a write or of a copy, and what a
\* reader has copied so far is still there.
Whole == /\ tk # "unlock" => proc_buf[1] = proc_buf[2]
         /\ \A r \in Reader :
              /\ Copied(r) => ubuf[r][1] = ubuf[r][2] /\ copied[r] = Size(ubuf[r][1])
              /\ rd[r] = "rest" => ubuf[r][1] = proc_buf[1] /\ copied[r] = proc_len

\* From its check to its clear the tasklet has the message of the latched key.
Carried == /\ tk \in Busy => msg \in Message /\ msg.key = prev_key /\ prev_key # None
           /\ tk = "unlock" => proc_buf[1] = msg
           /\ tk = "clear" => proc_buf[2] = msg

IInv == Typed /\ Locked /\ Whole /\ Carried
-----------------------------------------------------------------------------
\* What the proofs need to know of a length.
LEMMA SizeFacts == /\ Sizes \subseteq Nat /\ 0 \in Sizes /\ Size(None) = 0
                   /\ -EFAULT < 0
                   /\ \A m \in Half : Size(m) \in Sizes
<1>1. \A kind \in DOMAIN Length : Length[kind] \in {13, 16}
  BY DEF Length
<1>2. \A m \in Message : m # None /\ m.kind \in DOMAIN Length
  BY MessageAssumption DEF Message
<1> QED
  BY <1>1, <1>2 DEF Sizes, Size, Half, EFAULT

LEMMA InitIInv == Init => IInv
BY KbdAssumption, SizeFacts
   DEF Init, IInv, Typed, Half, Busy, Locked, Whole, Carried, Copied

LEMMA IrqStep == IInv /\ Irq => IInv'
<1> SUFFICES ASSUME IInv, Irq PROVE IInv'
  OBVIOUS
<1>1. UNCHANGED <<tk, msg, running, proc_lock, proc_buf, proc_len, rd, ubuf, copied, ppos, ret>>
  BY DEF Irq, buffer, reads
<1>2. prev_key' = prev_key \/ (prev_key = None /\ prev_key' \in Key)
  BY DEF Irq, Stamp, KeepFirst, Latch
<1>3. pending' \in IrqCpu \cup {None} /\ stamping' \in IrqCpu \cup {None}
  BY DEF Irq, Stamp, KeepFirst, Latch, Schedule, IInv, Typed
<1> QED
  BY <1>1, <1>2, <1>3 DEF IInv, Typed, Half, Busy, Locked, Whole, Carried, Copied

LEMMA TaskletStep == IInv /\ Tasklet => IInv'
<1> SUFFICES ASSUME IInv, Tasklet PROVE IInv'
  OBVIOUS
<1> USE KbdAssumption, MessageAssumption
    DEF Tasklet, IInv, Typed, Half, Busy, Locked, Whole, Carried, Copied, isr, buffer, reads
<1>1. CASE Start
  BY <1>1 DEF Start
<1>2. CASE Check
  <2>1. CASE prev_key = None
    BY <1>2, <2>1 DEF Check
  <2>2. CASE prev_key # None
    <3>1. Verdict \in DOMAIN Length
      BY DEF Verdict, Length
    <3>2. msg' = [kind |-> Verdict, key |-> prev_key]
      BY <1>2, <2>2 DEF Check
    <3>3. msg' \in Message /\ msg'.key = prev_key
      BY <2>2, <3>1, <3>2 DEF Message
    <3>4. /\ tk = "check" /\ tk' = "lock"
          /\ UNCHANGED <<prev_key, running, proc_lock, buffer, reads>>
      BY <1>2, <2>2 DEF Check
    <3> QED
      BY <1>2, <2>2, <3>3, <3>4 DEF Check
  <2> QED BY <2>1, <2>2
<1>3. CASE SpinLock
  BY <1>3 DEF SpinLock
<1>4. CASE Store
  <2>1. /\ tk = "store" /\ tk' = "unlock"
        /\ UNCHANGED <<msg, prev_key, proc_lock, proc_len, reads, running, pending, stamping>>
    BY <1>4 DEF Store
  <2>2. proc_buf' \in Half \X Half /\ proc_buf'[1] = msg /\ proc_buf'[2] = proc_buf[2]
    BY <1>4 DEF Store
  <2>3. \A r \in Reader : rd[r] \notin {"copy", "rest"}
    BY <2>1
  <2> QED BY <2>1, <2>2, <2>3
<1>5. CASE StoreRest
  <2>1. /\ tk = "unlock" /\ tk' = "clear"
        /\ proc_len' = Size(msg)
        /\ UNCHANGED <<msg, prev_key, reads, running, pending, stamping>>
        /\ proc_lock = "tasklet" /\ proc_lock' = None
    BY <1>5 DEF StoreRest
  <2>2. proc_buf' \in Half \X Half /\ proc_buf'[1] = msg /\ proc_buf'[2] = msg
    BY <1>5 DEF StoreRest
  <2>3. \A r \in Reader : rd[r] \notin {"copy", "rest"}
    BY <2>1
  <2> QED BY <2>1, <2>2, <2>3
<1>6. CASE Clear
  BY <1>6 DEF Clear
<1> QED
  BY <1>1, <1>2, <1>3, <1>4, <1>5, <1>6 DEF Tasklet

LEMMA ReaderStep == ASSUME IInv, NEW r \in Reader, ReaderCall(r) \/ ReaderWork(r) PROVE IInv'
<1>1. UNCHANGED <<prev_key, stamping, pending, running, tk, msg, proc_buf, proc_len>>
  BY DEF ReaderCall, ReaderWork, isr, tasklet, buffer
<1>2. proc_len \in Sizes
  BY SizeFacts DEF IInv, Typed
<1> USE KbdAssumption, <1>1, <1>2, SizeFacts DEF IInv, Typed, Locked, Whole, Carried, Copied, Goto
<1>3. CASE Open(r)
  BY <1>3 DEF Open
<1>4. CASE Read(r)
  <2>1. /\ rd[r] = "idle"
        /\ rd' = [rd EXCEPT ![r] = IF ppos[r] > 0 THEN "idle" ELSE "lock"]
        /\ ubuf' = [ubuf EXCEPT ![r] = <<None, None>>] /\ proc_lock' = proc_lock
        /\ copied' = [copied EXCEPT ![r] = 0] /\ ret' = [ret EXCEPT ![r] = 0] /\ ppos' = ppos
    BY <1>4 DEF Read
  <2>2. <<None, None>> \in Half \X Half /\ rd'[r] \in {"idle", "lock"}
    BY <2>1 DEF Half
  <2>3. \A q \in Reader \ {r} : /\ rd'[q] = rd[q] /\ ubuf'[q] = ubuf[q]
                                /\ copied'[q] = copied[q] /\ ret'[q] = ret[q]
    BY <2>1
  <2>4. /\ rd' \in [Reader -> {"idle", "lock", "copy", "rest", "offset", "return"}]
        /\ ubuf' \in [Reader -> Half \X Half]
    BY <2>1, <2>2
  <2>5. Copied(r)' => ubuf'[r][1] = ubuf'[r][2] /\ copied'[r] = Size(ubuf'[r][1])
    BY <2>1
  <2>6. Typed' /\ Locked'
    BY <2>1, <2>2, <2>3, <2>4
  <2>7. Whole'
    BY <2>2, <2>3, <2>5
  <2> QED BY <2>6, <2>7
<1>5. CASE ReadLock(r)
  BY <1>5 DEF ReadLock
<1>6. CASE Copy(r)
  <2>1. /\ rd[r] = "copy" /\ rd' = [rd EXCEPT ![r] = "rest"] /\ proc_lock' = proc_lock
        /\ proc_lock = r
        /\ ubuf' = [ubuf EXCEPT ![r] = [ubuf[r] EXCEPT ![1] = proc_buf[1]]]
        /\ copied' = [copied EXCEPT ![r] = proc_len] /\ ppos' = ppos /\ ret' = ret
    BY <1>6, <1>1 DEF Copy
  <2>2. [ubuf[r] EXCEPT ![1] = proc_buf[1]] \in Half \X Half
    OBVIOUS
  <2>3. ubuf'[r][1] = proc_buf[1]
    BY <2>1
  <2> QED BY <2>1, <2>2, <2>3
<1>7. CASE CopyRest(r)
  <2>1. /\ rd[r] = "rest" /\ rd' = [rd EXCEPT ![r] = "offset"] /\ proc_lock' = None
        /\ proc_lock = r
        /\ ubuf' = [ubuf EXCEPT ![r] = [ubuf[r] EXCEPT ![2] = proc_buf[2]]]
        /\ copied' = copied /\ ppos' = ppos /\ ret' = ret
    BY <1>7 DEF CopyRest
  <2>2. [ubuf[r] EXCEPT ![2] = proc_buf[2]] \in Half \X Half
    OBVIOUS
  <2>3. ubuf'[r][1] = proc_buf[1] /\ ubuf'[r][2] = proc_buf[2] /\ tk # "unlock"
    BY <2>1
  <2> QED BY <2>1, <2>2, <2>3
<1>8. CASE CopyFails(r)
  <2>1. /\ rd[r] \in {"copy", "rest"} /\ rd' = [rd EXCEPT ![r] = "idle"] /\ proc_lock' = None
        /\ proc_lock = r
        /\ ret' = [ret EXCEPT ![r] = -EFAULT] /\ UNCHANGED <<ubuf, copied, ppos>>
    BY <1>8 DEF CopyFails
  <2>2. rd'[r] = "idle" /\ ~(ret'[r] >= 0)
    BY <2>1, SizeFacts DEF EFAULT
  <2>3. \A q \in Reader \ {r} : /\ rd'[q] = rd[q] /\ ret'[q] = ret[q]
                                /\ rd[q] \notin {"copy", "rest"}
    BY <2>1
  <2>4. Typed'
    BY <2>1
  <2>5. Locked'
    BY <2>1, <2>2, <2>3
  <2>6. Whole'
    BY <2>1, <2>2, <2>3
  <2> QED BY <2>4, <2>5, <2>6
<1>9. CASE SetOffset(r)
  BY <1>9 DEF SetOffset
<1>10. CASE Return(r)
  BY <1>10 DEF Return
<1> QED
  BY <1>3, <1>4, <1>5, <1>6, <1>7, <1>8, <1>9, <1>10 DEF ReaderCall, ReaderWork

LEMMA Inductive == IInv /\ [Next]_vars => IInv'
<1> SUFFICES ASSUME IInv, [Next]_vars PROVE IInv'
  OBVIOUS
<1>1. CASE Tick
  BY <1>1 DEF Tick, IInv, Typed, Locked, Whole, Carried, Copied, isr, tasklet, buffer, reads
<1>2. CASE UNCHANGED vars
  BY <1>2 DEF vars, IInv, Typed, Locked, Whole, Carried, Copied, isr, tasklet, buffer, reads
<1> QED
  BY <1>1, <1>2, IrqStep, TaskletStep, ReaderStep DEF Next

(* The spinlock excludes, and what is under way under it is one message.   *)
THEOREM Invariance == Spec => []IInv
BY InitIInv, Inductive, PTL DEF Spec
-----------------------------------------------------------------------------
\* What Typed leaves out of the types.
Counts == /\ jiffies \in 0 .. MaxTime /\ prev_time \in 0 .. MaxTime /\ now \in 0 .. MaxTime
          /\ presses \in 0 .. 2
          /\ proc_lock \in Reader \cup {"tasklet", None}

LEMMA CountsStep == Counts /\ [Next]_vars => Counts'
<1> SUFFICES ASSUME Counts, [Next]_vars PROVE Counts'
  OBVIOUS
<1> USE KbdAssumption DEF Counts, isr, tasklet
<1>1. CASE Tick
  BY <1>1 DEF Tick
<1>2. CASE Irq
  BY <1>2 DEF Irq, Stamp, KeepFirst, Latch
<1>3. CASE Tasklet
  BY <1>3 DEF Tasklet, Start, Check, SpinLock, Store, StoreRest, Clear
<1>4. ASSUME NEW r \in Reader, ReaderCall(r) \/ ReaderWork(r) PROVE Counts'
  BY <1>4 DEF ReaderCall, ReaderWork, Open, Read, ReadLock, Copy, CopyRest, CopyFails, SetOffset,
              Return
<1>5. CASE UNCHANGED vars
  BY <1>5 DEF vars
<1> QED
  BY <1>1, <1>2, <1>3, <1>4, <1>5 DEF Next

(* Every variable keeps its type, for any CPUs, readers, keys and times: a *)
(* tasklet runs on a CPU the keyboard interrupts, and only from its check  *)
(* to its clear.                                                           *)
THEOREM TypeCorrect == Spec => []TypeOK
<1>1. Init => Counts
  BY KbdAssumption DEF Init, Counts
<1>2. IInv /\ Counts => TypeOK
  <2>1. IInv => proc_len \in Sizes
    BY SizeFacts DEF IInv, Typed
  <2> QED
    BY <2>1 DEF IInv, Typed, Half, Busy, Counts, TypeOK
<1> QED
  BY <1>1, <1>2, CountsStep, Invariance, PTL DEF Spec

(* What a read of the /proc file copies, unless copy_to_user fails, is     *)
(* both halves of one message and as many bytes as it has, on however many *)
(* CPUs and with however many readers.  The length it then returns is read *)
(* after the lock is released and is not part of this.                     *)
THEOREM MessagesAreWhole == Spec => []NoTornMessage
<1>1. IInv => NoTornMessage
  BY DEF IInv, Whole, NoTornMessage
<1> QED
  BY <1>1, Invariance, PTL

(* No key press is dropped between the tasklet's report and prev_key = 0:  *)
(* what is forgotten there is what was reported.                           *)
THEOREM NoKeyForgottenUnseen == Spec => ForgetsOnlyPublished
<1>1. IInv /\ [Next]_vars =>
        [prev_key # None /\ prev_key' = None
           => proc_buf[2] # None /\ proc_buf[2].key = prev_key]_vars
  <2> SUFFICES ASSUME IInv, Next, prev_key # None, prev_key' = None
               PROVE proc_buf[2] # None /\ proc_buf[2].key = prev_key
    OBVIOUS
  <2>1. CASE Clear
    BY <2>1, MessageAssumption DEF Clear, IInv, Carried, Busy
  <2>2. CASE Tasklet /\ ~Clear
    BY <2>2 DEF Tasklet, Start, Check, SpinLock, Store, StoreRest, isr
  <2>3. CASE Irq
    BY <2>3, KbdAssumption DEF Irq, Stamp, KeepFirst, Latch
  <2>4. CASE Tick \/ \E r \in Reader : ReaderCall(r) \/ ReaderWork(r)
    BY <2>4 DEF Tick, ReaderCall, ReaderWork, isr
  <2> QED
    BY <2>1, <2>2, <2>3, <2>4 DEF Next
<1> QED
  BY <1>1, Invariance, PTL DEF Spec, ForgetsOnlyPublished
-----------------------------------------------------------------------------
\* The driver as a mailbox.  The lock and what the tasklet carries say that a
\* step of the driver that shows is one of the mailbox's: an unlocked box is
\* whole, so the copy of its second half completes what the box then holds.

LEMMA InitIsMailbox == Init => M!Init
BY KbdAssumption DEF Init, M!Init, Copied

LEMMA IrqIsPress == ASSUME IInv, Irq PROVE [M!Next]_(M!vars)
<1>1. UNCHANGED <<tk, proc_buf, rd, ubuf, ppos, ret>>
  BY DEF Irq, buffer, reads
<1>2. CASE UNCHANGED prev_key
  BY <1>1, <1>2 DEF M!vars, M!mail, Copied
<1>3. ASSUME NEW k \in Key, prev_key = None, prev_key' = k PROVE M!Press(k)
  BY <1>1, <1>3 DEF M!Press, Copied
<1> QED
  BY <1>2, <1>3 DEF Irq, Stamp, KeepFirst, Latch, M!Next

LEMMA TaskletIsPost == ASSUME IInv, Tasklet PROVE [M!Next]_(M!vars)
<1>1. UNCHANGED <<rd, ubuf, ppos, ret>>
  BY DEF Tasklet, reads
<1>2. CASE StoreRest
  <2>1. /\ msg \in Message /\ msg.key = prev_key /\ prev_key # None
        /\ proc_buf \in Half \X Half
    BY <1>2 DEF StoreRest, IInv, Typed, Carried, Busy
  <2>2. /\ tk = "unlock" /\ tk' = "clear" /\ prev_key' = prev_key
        /\ proc_buf'[2] = msg
    BY <1>2, <2>1 DEF StoreRest, isr
  <2>3. /\ msg.kind \in DOMAIN Length
        /\ msg = [kind |-> msg.kind, key |-> prev_key]
    BY <2>1 DEF Message, Length
  <2>4. M!Post(msg.kind)
    BY <1>1, <2>1, <2>2, <2>3 DEF M!Post, Copied
  <2> QED
    BY <2>3, <2>4 DEF M!Next
<1>3. CASE Clear
  <2>1. M!Forget
    BY <1>1, <1>3 DEF Clear, buffer, M!Forget, Copied
  <2> QED BY <2>1 DEF M!Next
<1>4. CASE Start \/ Check \/ SpinLock \/ Store
  <2>1. (tk = "clear") = FALSE /\ (tk' = "clear") = FALSE /\ prev_key' = prev_key
    BY <1>4 DEF Start, Check, SpinLock, Store, isr, buffer, IInv, Typed
  <2>2. proc_buf'[2] = proc_buf[2]
    BY <1>4 DEF Start, Check, SpinLock, Store, isr, buffer, IInv, Typed
  <2> QED BY <1>1, <2>1, <2>2 DEF M!vars, M!mail, Copied
<1> QED
  BY <1>2, <1>3, <1>4 DEF Tasklet

LEMMA ReaderIsCall == ASSUME IInv, NEW r \in Reader, ReaderCall(r) \/ ReaderWork(r)
                      PROVE [M!Next]_(M!vars)
<1>1. UNCHANGED <<prev_key, tk, proc_buf, proc_len>>
  BY DEF ReaderCall, ReaderWork, isr, tasklet, buffer
<1>2. proc_len = M!Size
  BY DEF IInv, Typed, Size, M!Size
<1> USE <1>1 DEF IInv, Typed, Goto, Copied
<1>3. CASE Open(r)
  <2>1. M!Open(r)
    BY <1>3 DEF Open, M!Open, M!mail
  <2> QED BY <2>1 DEF M!Next
<1>4. CASE Read(r)
  <2>1. M!Call(r)
    BY <1>4 DEF Read, M!Call, M!mail
  <2> QED BY <2>1 DEF M!Next
<1>5. CASE ReadLock(r) \/ Copy(r)
  BY <1>5 DEF ReadLock, Copy, M!vars, M!mail
<1>6. CASE CopyRest(r)
  <2>1. proc_lock = r /\ tk # "unlock"
    BY <1>6, KbdAssumption DEF CopyRest, Locked
  <2>2. ubuf[r][1] = proc_buf[2]
    BY <1>6, <2>1 DEF CopyRest, Whole
  <2>3. ubuf' = [ubuf EXCEPT ![r] = [ubuf[r] EXCEPT ![2] = proc_buf[2]]]
    BY <1>6 DEF CopyRest
  <2>4. ubuf'[r][1] = proc_buf[2]
    BY <2>2, <2>3
  <2>5. M!Take(r)
    BY <1>6, <2>3, <2>4 DEF CopyRest, M!Take, M!mail
  <2> QED BY <2>5 DEF M!Next
<1>7. CASE CopyFails(r)
  <2>1. proc_buf[2] # None
    BY <1>7, SizeFacts DEF CopyFails
  <2>2. \A q \in Reader : Copied(q)' <=> Copied(q)
    BY <1>7, SizeFacts DEF CopyFails, EFAULT
  <2>3. M!Fail(r)
    <3> HIDE DEF Copied
    <3> QED BY <1>7, <2>1, <2>2 DEF CopyFails, M!Fail, M!mail
  <2> QED BY <2>3 DEF M!Next
<1>8. CASE SetOffset(r)
  <2>1. M!Advance(r)
    BY <1>2, <1>8 DEF SetOffset, M!Advance, M!mail
  <2> QED BY <2>1 DEF M!Next
<1>9. CASE Return(r)
  <2>1. proc_len >= 0
    <3>1. proc_len \in Sizes
      BY SizeFacts
    <3> QED BY <3>1, SizeFacts, SMT
  <2>2. \A q \in Reader : Copied(q)' <=> Copied(q)
    BY <1>9, <2>1 DEF Return
  <2>3. M!Return(r)
    <3> HIDE DEF Copied
    <3> QED BY <1>2, <1>9, <2>2 DEF Return, M!Return, M!mail
  <2> QED BY <2>3 DEF M!Next
<1> QED
  BY <1>3, <1>4, <1>5, <1>6, <1>7, <1>8, <1>9 DEF ReaderCall, ReaderWork

(* The driver implements the mailbox: for any number of CPUs and readers,  *)
(* each latched key is posted once and only then forgotten, and the bytes  *)
(* of every read of the /proc file are what the box holds at one moment of *)
(* the call; its position and its result are the box's length later on.    *)
THEOREM IsMailbox == Spec => MailboxSpec
<1>1. IInv /\ [Next]_vars => [M!Next]_(M!vars)
  <2> SUFFICES ASSUME IInv, [Next]_vars PROVE [M!Next]_(M!vars)
    OBVIOUS
  <2>1. CASE Tick
    BY <2>1 DEF Tick, isr, tasklet, buffer, reads, Copied, M!vars, M!mail
  <2>2. CASE UNCHANGED vars
    BY <2>2 DEF vars, isr, tasklet, buffer, reads, Copied, M!vars, M!mail
  <2> QED
    BY <2>1, <2>2, IrqIsPress, TaskletIsPost, ReaderIsCall DEF Next
<1> QED
  BY <1>1, InitIsMailbox, Invariance, PTL DEF Spec, MailboxSpec, M!Spec
-----------------------------------------------------------------------------
(* The long-press alert.  The inductive invariant follows a hold that has  *)
(* not been answered through the thread's cycle: whatever the thread is    *)
(* doing, it is going to look at pressed[] once more, and the time the     *)
(* hold has lasted is bounded by what is left of the way there.            *)

HoldTyped == /\ held \in Nat /\ left \in 0 .. long_press_ms /\ lag \in 0 .. LATENCY
             /\ thread \in {"wait", "sleep", "write"}
             /\ L!Asleep => lag = 0

\* A hold begun during the alert of an earlier one waits for the alert's end, a
\* CPU, the sleep, and a CPU again; a wake-up merged with a run is still owed.
HoldOwed == pressed /\ ~answered =>
           /\ thread = "write" => runthread /\ held <= lag
           /\ thread = "wait" => runthread /\ held <= LATENCY + lag
           /\ thread = "sleep" => held + left <= long_press_ms + 2 * LATENCY + lag

HoldInv == HoldTyped /\ HoldOwed

\* TypeOK in two halves, for two provers.
HoldFlags == /\ phase \in {"out", "live", "freeing"}
             /\ pressed \in BOOLEAN /\ answered \in BOOLEAN /\ repressed \in BOOLEAN
             /\ runthread \in BOOLEAN
HoldAmounts == /\ held \in 0 .. L!Longest + 1
               /\ thread \in {"wait", "sleep", "write"}
               /\ left \in 0 .. long_press_ms /\ lag \in 0 .. LATENCY

LEMMA HoldFlagsStep == HoldFlags /\ [L!Next]_(L!vars) => HoldFlags'
<1> SUFFICES ASSUME HoldFlags, [L!Next]_(L!vars) PROVE HoldFlags'
  OBVIOUS
<1> USE DEF HoldFlags, L!key, L!worker
<1>1. CASE L!Tick
  BY <1>1, Zenon DEF L!Tick
<1>2. CASE L!Load \/ L!FreeIrq \/ L!Unloaded
  BY <1>2, Zenon DEF L!Load, L!FreeIrq, L!Unloaded
<1>3. CASE L!Press
  <2>1. pressed' \in BOOLEAN /\ runthread' \in BOOLEAN /\ phase' = phase
    BY <1>3, Zenon DEF L!Press, L!WakeThread
  <2>2. answered' \in BOOLEAN
    BY <1>3, Zenon DEF L!Press
  <2>3. repressed' = repressed \/ repressed' = (thread = "sleep")
    BY <1>3, Zenon DEF L!Press
  <2>4. repressed' \in BOOLEAN
    BY <2>3, Zenon
  <2> QED BY <2>1, <2>2, <2>4, Zenon
<1>4. CASE L!Release
  BY <1>4, Zenon DEF L!Release
<1>5. CASE L!Thread
  BY <1>5, Zenon DEF L!Thread, L!Wake, L!Check, L!Write
<1>6. CASE UNCHANGED L!vars
  BY <1>6, Zenon DEF L!vars
<1> QED
  BY <1>1, <1>2, <1>3, <1>4, <1>5, <1>6 DEF L!Next

LEMMA HoldAmountsStep == HoldAmounts /\ [L!Next]_(L!vars) => HoldAmounts'
<1> SUFFICES ASSUME HoldAmounts, [L!Next]_(L!vars) PROVE HoldAmounts'
  OBVIOUS
<1> USE LongPressAssumption DEF L!TimeAssumption, HoldAmounts, L!Asleep, L!Idle, L!Longest,
                                L!key, L!worker
<1>1. CASE L!Tick
  BY <1>1 DEF L!Tick
<1>2. CASE L!Load \/ L!FreeIrq \/ L!Unloaded \/ L!Release
  BY <1>2 DEF L!Load, L!FreeIrq, L!Unloaded, L!Release
<1>3. CASE L!Press
  BY <1>3 DEF L!Press, L!WakeThread
<1>4. CASE L!Thread
  BY <1>4 DEF L!Thread, L!Wake, L!Sleep, L!Check, L!Write
<1>5. CASE UNCHANGED L!vars
  BY <1>5 DEF L!vars
<1> QED
  BY <1>1, <1>2, <1>3, <1>4, <1>5 DEF L!Next

(* Every variable keeps its type: the sleep stays within the threshold and *)
(* a wait for a CPU within the latency, whatever the two are.              *)
THEOREM LongPressTypeCorrect == L!Spec => []L!TypeOK
<1>1. L!Init => HoldFlags
  BY Zenon DEF L!Init, HoldFlags
<1>2. L!Init => HoldAmounts
  BY LongPressAssumption DEF L!TimeAssumption, L!Init, HoldAmounts, L!Longest
<1>3. HoldFlags /\ HoldAmounts => L!TypeOK
  BY DEF HoldFlags, HoldAmounts, L!TypeOK
<1> QED
  BY <1>1, <1>2, <1>3, HoldFlagsStep, HoldAmountsStep, PTL DEF L!Spec

LEMMA InitHoldInv == L!Init => HoldInv
BY LongPressAssumption DEF L!TimeAssumption, L!Init, HoldInv, HoldTyped, L!Asleep, HoldOwed,
                           L!key, L!worker

LEMMA HoldTypedStep == HoldTyped /\ [L!Next]_(L!vars) => HoldTyped'
<1> SUFFICES ASSUME HoldTyped, [L!Next]_(L!vars) PROVE HoldTyped'
  OBVIOUS
<1> USE LongPressAssumption DEF L!TimeAssumption, HoldTyped, L!Asleep, L!key, L!worker
<1>1. CASE L!Tick
  BY <1>1 DEF L!Tick, L!Idle
<1>2. CASE L!Load \/ L!FreeIrq \/ L!Unloaded \/ L!Release
  BY <1>2 DEF L!Load, L!FreeIrq, L!Unloaded, L!Release
<1>3. CASE L!Press
  BY <1>3 DEF L!Press
<1>4. CASE L!Wake
  BY <1>4 DEF L!Wake, L!Sleep
<1>5. CASE L!Check
  BY <1>5 DEF L!Check
<1>6. CASE L!Write
  BY <1>6 DEF L!Write
<1>7. CASE UNCHANGED L!vars
  BY <1>7 DEF L!vars
<1> QED BY <1>1, <1>2, <1>3, <1>4, <1>5, <1>6, <1>7 DEF L!Next, L!Thread

LEMMA HoldOwedStep == HoldInv /\ [L!Next]_(L!vars) => HoldOwed'
<1> SUFFICES ASSUME HoldInv, [L!Next]_(L!vars), pressed', ~answered'
             PROVE /\ thread' = "write" => runthread' /\ held' <= lag'
                   /\ thread' = "wait" => runthread' /\ held' <= LATENCY + lag'
                   /\ thread' = "sleep" => held' + left' <= long_press_ms + 2 * LATENCY + lag'
  BY DEF HoldOwed
<1> USE LongPressAssumption DEF L!TimeAssumption, HoldInv, HoldTyped, HoldOwed, L!key, L!worker
<1>1. CASE L!Tick
  <2>1. pressed /\ ~answered /\ thread' = thread /\ (runthread => runthread')
    BY <1>1 DEF L!Tick
  <2>2. held' <= held + 1 /\ held' \in Nat
    BY <1>1 DEF L!Tick
  <2>3. IF L!Asleep THEN lag' = lag /\ left' = left - 1
        ELSE left' = left /\ (~L!Idle => lag' = lag + 1)
    BY <1>1 DEF L!Tick
  <2>4. held \in Nat /\ lag \in Nat /\ left \in Nat
    OBVIOUS
  <2>5. CASE thread = "sleep"
    <3>1. held + left <= long_press_ms + 2 * LATENCY + lag
      BY <2>1, <2>5
    <3>2. (lag' = lag /\ left' = left - 1) \/ (lag' = lag + 1 /\ left' = left)
      BY <2>3, <2>5 DEF L!Idle
    <3> HIDE DEF HoldInv
    <3>3. held' + left' <= long_press_ms + 2 * LATENCY + lag'
      BY <2>2, <2>4, <3>1, <3>2
    <3> QED BY <2>1, <2>5, <3>3
  <2>6. CASE thread = "wait"
    <3>1. runthread' /\ ~L!Idle /\ ~L!Asleep
      BY <2>1, <2>6 DEF L!Idle, L!Asleep
    <3>2. held <= LATENCY + lag
      BY <2>1, <2>6
    <3> HIDE DEF HoldInv
    <3>3. held' <= LATENCY + lag'
      BY <2>2, <2>3, <2>4, <3>1, <3>2
    <3> QED BY <2>1, <2>6, <3>1, <3>3
  <2>7. CASE thread = "write"
    <3>1. runthread' /\ ~L!Idle /\ ~L!Asleep
      BY <2>1, <2>7 DEF L!Idle, L!Asleep
    <3>2. held <= lag
      BY <2>1, <2>7
    <3> HIDE DEF HoldInv
    <3>3. held' <= lag'
      BY <2>2, <2>3, <2>4, <3>1, <3>2
    <3> QED BY <2>1, <2>7, <3>1, <3>3
  <2> QED BY <2>5, <2>6, <2>7
<1>2. CASE L!Load \/ L!FreeIrq \/ L!Unloaded \/ L!Release
  BY <1>2 DEF L!Load, L!FreeIrq, L!Unloaded, L!Release
<1>3. CASE L!Press
  BY <1>3 DEF L!Press, L!WakeThread
<1>4. CASE L!Wake
  BY <1>4 DEF L!Wake, L!Sleep
<1>5. CASE L!Check
  BY <1>5 DEF L!Check
<1>6. CASE L!Write
  BY <1>6 DEF L!Write
<1>7. CASE UNCHANGED L!vars
  BY <1>7 DEF L!vars
<1> QED BY <1>1, <1>2, <1>3, <1>4, <1>5, <1>6, <1>7 DEF L!Next, L!Thread

LEMMA HoldInvariance == L!Spec => []HoldInv
<1>1. HoldInv /\ [L!Next]_(L!vars) => HoldInv'
  BY HoldTypedStep, HoldOwedStep DEF HoldInv
<1> QED BY InitHoldInv, <1>1, PTL DEF L!Spec

\* LongHoldAnswered of the run, for every threshold and latency: merging the
\* wake-ups of the top half loses no hold.
THEOREM NoLongPressMissed == L!Spec => []LongHoldAnswered
<1>1. HoldInv => LongHoldAnswered
  BY LongPressAssumption DEF L!TimeAssumption, HoldInv, HoldTyped, HoldOwed, LongHoldAnswered,
                             L!LongHoldAnswered, L!Longest
<1> QED BY <1>1, HoldInvariance, PTL
-----------------------------------------------------------------------------
\* A key that is down during the sleep, and has been since before it, has been
\* held for as much of the sleep as is over.
SleptOn == thread = "sleep" /\ pressed /\ ~repressed => held + left >= long_press_ms

LEMMA SleptOnStep == HoldTyped /\ SleptOn /\ [L!Next]_(L!vars) => SleptOn'
<1> SUFFICES ASSUME HoldTyped, SleptOn, [L!Next]_(L!vars), thread' = "sleep", pressed',
     ~repressed'
             PROVE  held' + left' >= long_press_ms
  BY DEF SleptOn
<1>1. held \in Nat /\ left \in 0 .. long_press_ms /\ long_press_ms \in Nat /\ LATENCY \in Nat
  BY LongPressAssumption DEF L!TimeAssumption, HoldTyped
<1>2. CASE L!Tick
  <2>1. held + left >= long_press_ms
    BY <1>2 DEF L!Tick, SleptOn
  <2>2. left' = left \/ (left > 0 /\ left' = left - 1)
    BY <1>2 DEF L!Tick, L!Asleep
  <2>3. held' = held + 1 \/ (held' = held /\ ~(held <= L!Longest))
    BY <1>2 DEF L!Tick
  <2>4. L!Longest \in Nat /\ L!Longest >= long_press_ms
    BY <1>1 DEF L!Longest
  <2> QED BY <1>1, <2>1, <2>2, <2>3, <2>4
<1>3. CASE L!Wake
  <2>1. left' = long_press_ms /\ held' = held
    BY <1>3 DEF L!Wake, L!Sleep
  <2> QED BY <1>1, <2>1
<1>4. CASE L!Press
  <2>1. pressed
    BY <1>4 DEF L!Press, L!worker
  <2> QED BY <1>1, <1>4, <2>1 DEF L!Press, L!worker, SleptOn
<1>5. CASE L!Load \/ L!Release \/ L!Check \/ L!Write
  BY <1>5 DEF L!Load, L!Release, L!Check, L!Write, L!worker, L!key
<1>6. CASE L!FreeIrq \/ L!Unloaded \/ UNCHANGED L!vars
  BY <1>6 DEF L!FreeIrq, L!Unloaded, L!vars, L!worker, L!key, SleptOn
<1> QED BY <1>2, <1>3, <1>4, <1>5, <1>6 DEF L!Next, L!Thread

\* EarlyOnlyWhenRepressed of the run, for every threshold and latency: an alert
\* before the threshold is of a key released and pressed again.
THEOREM EarlyAlertsAreOfSecondPresses == L!Spec => EarlyOnlyWhenRepressed
<1>1. L!Init => HoldTyped /\ SleptOn
  BY InitHoldInv DEF HoldInv, L!Init, SleptOn
<1>2. HoldTyped /\ SleptOn /\ [L!Next]_(L!vars) => (HoldTyped /\ SleptOn)'
  BY HoldTypedStep, SleptOnStep
<1>3. HoldTyped /\ SleptOn /\ [L!Next]_(L!vars) =>
        [thread # "write" /\ thread' = "write" => held >= long_press_ms \/ repressed]_(L!vars)
  <2> SUFFICES ASSUME HoldTyped, SleptOn, L!Next, thread # "write", thread' = "write",
       ~repressed
               PROVE  held >= long_press_ms
    OBVIOUS
  <2>1. thread = "sleep" /\ left = 0 /\ pressed
    BY DEF L!Next, L!Tick, L!Load, L!FreeIrq, L!Unloaded, L!Press, L!Release, L!Thread, L!Wake,
           L!Check, L!Write, L!worker
  <2>2. held + left >= long_press_ms /\ held \in Nat
    BY <2>1 DEF SleptOn, HoldTyped
  <2> QED BY <2>1, <2>2
<1> QED BY <1>1, <1>2, <1>3, PTL DEF L!Spec, EarlyOnlyWhenRepressed, L!EarlyOnlyWhenRepressed
=============================================================================
