------------------------------ MODULE EnhChardev ------------------------------
(***************************************************************************)
(* ALL_IN_1/010/io.c: a character device that keeps up to MAX_MSGS         *)
(* messages in a ring under one mutex.                                     *)
(*                                                                         *)
(* A call is split where another task can run: before the mutex is taken,  *)
(* and inside the critical section between its check, its copy and its     *)
(* update of the indices (copy_from_user may sleep there).  register_chrdev *)
(* comes before mutex_init in the init function, so calls may already be   *)
(* under way when the mutex is initialised a second time.                  *)
(***************************************************************************)
EXTENDS Integers, FiniteSets, Sequences

CONSTANTS Task,         \* threads that open the device, each with its own file
          Msg,          \* payloads, by identity
          Length,       \* the len each payload is written with
          MAX_MSGS,     \* slots of msg_buffer
          MSG_LEN,      \* bytes of a slot, the closing NUL included
          ReadLen,      \* the len a reader passes
          CountSlack,   \* bound: how far below 0 msg_count is followed
          None, Junk    \* no task; a slot no write has completed in

ASSUME SizeAssumption == /\ MAX_MSGS \in Nat \ {0}
                         /\ MSG_LEN \in Nat \ {0}
                         /\ Length \in [Msg -> Nat]
                         /\ ReadLen \subseteq Nat
                         /\ CountSlack \in Nat \ {0}
ASSUME NameAssumption == None \notin Task /\ Junk \notin Msg

VARIABLES phase,        \* how far the init function is
          owner,        \* the task the mutex belongs to
          clobbered,    \* mutex_init ran on a mutex somebody held
          msg_buffer, read_index, write_index, msg_count,
          pc,           \* where each task is
          arg,          \* its local: the payload it writes, the ret it will return
          offset,       \* its file's *offset
          result        \* what its last completed call returned

ring == <<msg_buffer, read_index, write_index, msg_count>>
vars == <<phase, owner, clobbered, ring, pc, arg, offset, result>>

Slot == 0 .. MAX_MSGS - 1
Writing == {"w_check", "w_copy", "w_commit"}
Reading == {"r_check", "r_copy", "r_commit"}
Waiting == {"w_lock", "r_lock"}

\* What a call may return: a status, or the payload and the bytes of it read.
Code(c) == <<c>>
Bytes(m, from, to) == <<"read", m, from, to>>
Result == {Code(c) : c \in {"none", "stored", "full", "fault", "empty"}}
            \cup ({"read"} \X (Msg \cup {Junk}) \X Nat \X Nat)

Smaller(i, j) == IF i <= j THEN i ELSE j

\* len is clamped to the slot less its NUL.
Stored(m) == Smaller(Length[m], MSG_LEN - 1)

\* What strlen() finds in a slot: unwritten ones are zero.
StrLen(s) == IF s = Junk THEN 0 ELSE Stored(s)

\* (i + 1) % MAX_MSGS, off by one: one index past the last slot.
StepTooFar(i) == (i + 1) % (MAX_MSGS + 1)
Step(i) == (i + 1) % MAX_MSGS

Init == /\ phase = "unloaded"
        /\ owner = None
        /\ clobbered = FALSE
        /\ msg_buffer = [i \in Slot |-> Junk]
        /\ read_index = 0 /\ write_index = 0 /\ msg_count = 0
        /\ pc = [t \in Task |-> "closed"]
        /\ arg = [t \in Task |-> None]
        /\ offset = [t \in Task |-> 0]
        /\ result = [t \in Task |-> Code("none")]
-----------------------------------------------------------------------------
(* Module load and unload.                                                 *)

\* register_chrdev succeeds: from here on the device can be opened.
Register == /\ phase = "unloaded"
            /\ phase' = "registered"
            /\ UNCHANGED <<owner, clobbered, ring, pc, arg, offset, result>>

\* mutex_init makes the mutex free, whoever holds it.
MutexInit == /\ phase = "registered"
             /\ phase' = "ready"
             /\ owner' = None
             /\ clobbered' = (owner # None)
             /\ UNCHANGED <<ring, pc, arg, offset, result>>

\* The open files hold a reference to the module, so exit waits for the last
\* close; the next load starts from the initial values.
Exit == /\ phase = "ready"
        /\ \A t \in Task : pc[t] = "closed"
        /\ phase' = "unloaded"
        /\ owner' = None /\ clobbered' = FALSE
        /\ msg_buffer' = [i \in Slot |-> Junk]
        /\ read_index' = 0 /\ write_index' = 0 /\ msg_count' = 0
        /\ UNCHANGED <<pc, arg, offset, result>>

Open(t) == /\ phase \in {"registered", "ready"}
           /\ pc[t] = "closed"
           /\ pc' = [pc EXCEPT ![t] = "open"]
           /\ UNCHANGED <<phase, owner, clobbered, ring, arg, offset, result>>

\* The last close frees the struct file, and its *offset with it.
Release(t) == /\ pc[t] = "open"
              /\ pc' = [pc EXCEPT ![t] = "closed"]
              /\ offset' = [offset EXCEPT ![t] = 0]
              /\ result' = [result EXCEPT ![t] = Code("none")]
              /\ UNCHANGED <<phase, owner, clobbered, ring, arg>>
-----------------------------------------------------------------------------
(* The calls.                                                              *)

Goto(t, l) == pc' = [pc EXCEPT ![t] = l]
Returns(t, r) == /\ Goto(t, "open")
                 /\ result' = [result EXCEPT ![t] = r]
                 /\ arg' = [arg EXCEPT ![t] = None]

CallWrite(t) == /\ pc[t] = "open"
                /\ Goto(t, "w_lock")
                /\ \E m \in Msg : arg' = [arg EXCEPT ![t] = m]
                /\ result' = [result EXCEPT ![t] = Code("none")]
                /\ UNCHANGED <<phase, owner, clobbered, ring, offset>>

CallRead(t) == /\ pc[t] = "open"
               /\ msg_count > 0 - CountSlack
               /\ Goto(t, "r_lock")
               /\ result' = [result EXCEPT ![t] = Code("none")]
               /\ UNCHANGED <<phase, owner, clobbered, ring, arg, offset>>

\* A lock that does not look whether it is taken.
BargeIn(t) == /\ pc[t] \in Waiting
              /\ owner' = t
              /\ Goto(t, IF pc[t] = "w_lock" THEN "w_check" ELSE "r_check")
              /\ UNCHANGED <<phase, clobbered, ring, arg, offset, result>>
Lock(t) == /\ pc[t] \in Waiting
           /\ owner = None
           /\ owner' = t
           /\ Goto(t, IF pc[t] = "w_lock" THEN "w_check" ELSE "r_check")
           /\ UNCHANGED <<phase, clobbered, ring, arg, offset, result>>

\* mutex_unlock clears the owner, even another one's.
Unlock == owner' = None

\* The check that lets one message too many in.
FullTooLate == msg_count > MAX_MSGS
Full == msg_count >= MAX_MSGS

WriteCheck(t) ==
    /\ pc[t] = "w_check"
    /\ \/ Full /\ Unlock /\ Returns(t, Code("full"))
       \/ ~Full /\ Goto(t, "w_copy") /\ UNCHANGED <<owner, arg, result>>
    /\ UNCHANGED <<phase, clobbered, ring, offset>>

\* The error path with its mutex_unlock forgotten.
WriteFaultKeepsLock(t) ==
    /\ pc[t] = "w_copy"
    /\ Returns(t, Code("fault"))
    /\ msg_buffer' = [msg_buffer EXCEPT ![write_index] = Junk]
    /\ UNCHANGED <<phase, owner, clobbered, read_index, write_index, msg_count, offset>>
\* copy_from_user stops half way: the slot is spoilt and the indices stay.
WriteFault(t) ==
    /\ pc[t] = "w_copy"
    /\ Unlock
    /\ Returns(t, Code("fault"))
    /\ msg_buffer' = [msg_buffer EXCEPT ![write_index] = Junk]
    /\ UNCHANGED <<phase, clobbered, read_index, write_index, msg_count, offset>>

WriteCopy(t) ==
    /\ pc[t] = "w_copy"
    /\ Goto(t, "w_commit")
    /\ msg_buffer' = [msg_buffer EXCEPT ![write_index] = arg[t]]
    /\ UNCHANGED <<phase, owner, clobbered, read_index, write_index, msg_count,
                   arg, offset, result>>

WriteCommit(t) ==
    /\ pc[t] = "w_commit"
    /\ write_index' = Step(write_index)
    /\ msg_count' = msg_count + 1
    /\ Unlock
    /\ Returns(t, Code("stored"))
    /\ UNCHANGED <<phase, clobbered, msg_buffer, read_index, offset>>

ReadCheck(t) ==
    /\ pc[t] = "r_check"
    /\ \/ msg_count = 0 /\ Unlock /\ Returns(t, Code("empty"))
       \/ msg_count # 0 /\ Goto(t, "r_copy") /\ UNCHANGED <<owner, arg, result>>
    /\ UNCHANGED <<phase, clobbered, ring, offset>>

\* simple_read_from_buffer: the bytes from *offset on, none when the message
\* ends before it; *offset moves past what was handed out.
ReadCopy(t) ==
    /\ pc[t] = "r_copy"
    /\ Goto(t, "r_commit")
    /\ LET msg == msg_buffer[read_index]
           size == StrLen(msg)
           from == Smaller(offset[t], size)
       IN \/ \E len \in ReadLen :
               LET to == Smaller(size, from + len)
               IN /\ arg' = [arg EXCEPT ![t] = Bytes(msg, from, to)]
                  /\ offset' = [offset EXCEPT ![t] = @ + (to - from)]
          \/ arg' = [arg EXCEPT ![t] = Code("fault")] /\ UNCHANGED offset
    /\ UNCHANGED <<phase, owner, clobbered, ring, result>>

\* The next read meets the same slot again.
ReadCommitStays(t) ==
    /\ pc[t] = "r_commit"
    /\ msg_count' = msg_count - 1
    /\ Unlock
    /\ Returns(t, arg[t])
    /\ UNCHANGED <<phase, clobbered, msg_buffer, read_index, write_index, offset>>
\* Whatever was handed out, the message is gone.
ReadCommit(t) ==
    /\ pc[t] = "r_commit"
    /\ read_index' = Step(read_index)
    /\ msg_count' = msg_count - 1
    /\ Unlock
    /\ Returns(t, arg[t])
    /\ UNCHANGED <<phase, clobbered, msg_buffer, write_index, offset>>

Work(t) == \/ WriteCheck(t) \/ WriteFault(t) \/ WriteCopy(t) \/ WriteCommit(t)
           \/ ReadCheck(t) \/ ReadCopy(t) \/ ReadCommit(t)

Next == \/ Register \/ MutexInit \/ Exit
        \/ \E t \in Task : \/ Open(t) \/ Release(t) \/ CallWrite(t) \/ CallRead(t)
                           \/ Lock(t) \/ Work(t)

Spec == Init /\ [][Next]_vars

\* A thread inside a call keeps running, and the kernel's mutex hands itself
\* over to a waiter that has been passed over, so no waiter starves.
Fairness == \A t \in Task : WF_vars(Work(t)) /\ SF_vars(Lock(t))
FairSpec == Spec /\ Fairness
-----------------------------------------------------------------------------
\* The state the code's declarations allow; both indices stay within the ring.
DeviceType == /\ phase \in {"unloaded", "registered", "ready"}
              /\ owner \in Task \cup {None}
              /\ msg_buffer \in [Slot -> Msg \cup {Junk}]
              /\ read_index \in Slot /\ write_index \in Slot
              /\ msg_count \in Int
CallType == /\ pc \in [Task -> {"closed", "open"} \cup Waiting \cup Writing \cup Reading]
            /\ offset \in [Task -> Nat]
            /\ result \in [Task -> Result]
            /\ arg \in [Task -> Msg \cup {None} \cup Result]
            /\ \A t \in Task : /\ pc[t] \in {"w_lock"} \cup Writing => arg[t] \in Msg
                               /\ pc[t] = "r_commit" => arg[t] \in Result
TypeOK == DeviceType /\ CallType /\ clobbered \in BOOLEAN

\* The mutex does its work: unless mutex_init has taken it away from its owner
\* (io.c:95, after the device went live at io.c:89), the tasks between lock and
\* unlock are the owner and nobody else.
OneInside == clobbered \/ \A t \in Task : pc[t] \in Writing \cup Reading <=> owner = t

\* The two indices and the counter agree, the counter stays within the ring,
\* and every slot a reader may come to holds a completed write: a full ring is
\* told from an empty one and no half-copied message is ever handed out.
RingConsistent ==
    clobbered \/ /\ msg_count \in 0 .. MAX_MSGS
                 /\ (read_index + msg_count) % MAX_MSGS = write_index
                 /\ \A i \in 0 .. msg_count - 1 :
                      msg_buffer[(read_index + i) % MAX_MSGS] # Junk

\* Every call comes back (the waiters a re-initialised mutex forgets apart):
\* each early return gives the mutex up.
CallsReturn == \A t \in Task :
                  pc[t] \notin {"open", "closed"} ~> pc[t] \in {"open", "closed"} \/ clobbered

\* Only the second initialisation takes the mutex away from its owner.
FirstMutexIntact == clobbered => phase = "ready"

\* What the steps of a call rely on between the check and the commit: room for
\* the message being written, and one message for the reader to take.
CallConsistent ==
    clobbered \/ \A t \in Task :
                   /\ pc[t] \in {"w_copy", "w_commit"} => msg_count < MAX_MSGS
                   /\ pc[t] = "w_commit" => msg_buffer[write_index] = arg[t]
                   /\ pc[t] \in {"r_copy", "r_commit"} => msg_count > 0

(***************************************************************************)
(* The refinement.  A call takes effect when it gives the mutex up; until  *)
(* then its task is asking, and a reader already holds the bytes it will   *)
(* return.                                                                 *)
(***************************************************************************)
queue == [i \in 1 .. msg_count |-> msg_buffer[(read_index + i - 1) % MAX_MSGS]]
call == [t \in Task |->
           CASE pc[t] \in {"w_lock"} \cup Writing -> [op |-> "put", msg |-> arg[t]]
             [] pc[t] \in {"r_lock"} \cup Reading -> [op |-> "get"]
             [] OTHER -> [op |-> "none"]]

Queue == INSTANCE MsgQueue WITH Capacity <- MAX_MSGS, Size <- Stored,
                                answer <- result, broken <- clobbered

\* The ring behind its mutex is a linearisable bounded queue, for as long as
\* the mutex is left alone: messages come out once each and in the order in
\* which they were accepted, a write is refused exactly when all slots are in
\* use, a read finds nothing exactly when none is, and a failed write changes
\* nothing a reader sees.
QueueSpec == Queue!Spec
=============================================================================
