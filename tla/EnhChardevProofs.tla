--------------------------- MODULE EnhChardevProofs ---------------------------
(***************************************************************************)
(* Theorems about the message device, for every number of tasks, payloads  *)
(* and slots.  The inductive invariant adds CallConsistent to what the     *)
(* runs check: the ring alone is not inductive, because a commit relies on *)
(* the check its own task made earlier under the mutex.                    *)
(***************************************************************************)
EXTENDS EnhChardev, SequenceTheorems, TLAPS

IInv == TypeOK /\ FirstMutexIntact /\ OneInside /\ RingConsistent /\ CallConsistent

-----------------------------------------------------------------------------
(* Arithmetic of the ring.                                                 *)

\* Indices below twice the ring's size wrap at most once.
LEMMA Wrap == ASSUME NEW x \in 0 .. 2 * MAX_MSGS - 1
              PROVE  x % MAX_MSGS = IF x < MAX_MSGS THEN x ELSE x - MAX_MSGS
<1> USE SizeAssumption
<1>1. CASE x < MAX_MSGS
  BY <1>1, SMT
<1>2. CASE x >= MAX_MSGS
  BY <1>2, SMT
<1> QED BY <1>1, <1>2

\* Step moves an index to the next slot and from the last one to the first.
LEMMA StepWraps == ASSUME NEW i \in Slot
                   PROVE  Step(i) = IF i + 1 < MAX_MSGS THEN i + 1 ELSE 0
BY SizeAssumption, Wrap DEF Step, Slot

\* The first slot.
LEMMA ZeroSlot == 0 \in Slot
BY SizeAssumption DEF Slot

\* What is stored of a payload has a length.
LEMMA StrLenType == \A s \in Msg \cup {Junk} : StrLen(s) \in Nat
BY SizeAssumption, NameAssumption DEF StrLen, Stored, Smaller

\* Every return statement's value is a result.
LEMMA ResultType ==
  /\ \A c \in {"none", "stored", "full", "fault", "empty"} : Code(c) \in Result
  /\ \A m \in Msg \cup {Junk}, i, j \in Nat : Bytes(m, i, j) \in Result
BY DEF Result, Code, Bytes
-----------------------------------------------------------------------------
LEMMA InitIInv == Init => IInv
<1> SUFFICES ASSUME Init PROVE IInv
  OBVIOUS
<1> USE SizeAssumption, NameAssumption DEF Init
<1>1. DeviceType
  BY ZeroSlot DEF DeviceType
<1>2. CallType
  <2>1. result \in [Task -> Result]
    BY ResultType
  <2>2. \A t \in Task : pc[t] \notin {"w_lock", "r_commit"} \cup Writing
    BY DEF Writing
  <2> QED BY <2>1, <2>2 DEF CallType
<1>3. OneInside
  BY DEF OneInside, Writing, Reading
<1>4. RingConsistent
  BY Wrap DEF RingConsistent
<1>5. CallConsistent
  BY DEF CallConsistent
<1>6. clobbered \in BOOLEAN
  OBVIOUS
<1> QED
  BY <1>1, <1>2, <1>3, <1>4, <1>5, <1>6 DEF IInv, TypeOK, FirstMutexIntact

\* What simple_read_from_buffer works out is a result, and an offset.
LEMMA ReadCopyType ==
  ASSUME DeviceType, CallType, NEW t \in Task, ReadCopy(t)
  PROVE  /\ offset' \in [Task -> Nat]
         /\ \E r \in Result : arg' = [arg EXCEPT ![t] = r]
<1> DEFINE msg == msg_buffer[read_index]
           size == StrLen(msg)
           from == Smaller(offset[t], size)
<1>1. msg \in Msg \cup {Junk}
  BY DEF DeviceType
<1>2. size \in Nat /\ from \in Nat /\ from <= size
  BY <1>1, StrLenType DEF CallType, Smaller
<1>3. ASSUME NEW len \in ReadLen
      PROVE  /\ Smaller(size, from + len) \in Nat
             /\ Smaller(size, from + len) - from \in Nat
  BY <1>2, SizeAssumption DEF Smaller
<1> HIDE DEF msg, size, from
<1>4. \/ \E len \in ReadLen :
           LET to == Smaller(size, from + len)
           IN /\ arg' = [arg EXCEPT ![t] = Bytes(msg, from, to)]
              /\ offset' = [offset EXCEPT ![t] = @ + (to - from)]
      \/ arg' = [arg EXCEPT ![t] = Code("fault")] /\ UNCHANGED offset
  BY DEF ReadCopy, msg, size, from
<1>5. CASE arg' = [arg EXCEPT ![t] = Code("fault")] /\ UNCHANGED offset
  BY <1>5, ResultType DEF CallType
<1>6. ASSUME NEW len \in ReadLen,
             arg' = [arg EXCEPT ![t] = Bytes(msg, from, Smaller(size, from + len))],
             offset' = [offset EXCEPT ![t] = @ + (Smaller(size, from + len) - from)]
      PROVE  /\ offset' \in [Task -> Nat]
             /\ \E r \in Result : arg' = [arg EXCEPT ![t] = r]
  <2>1. Bytes(msg, from, Smaller(size, from + len)) \in Result
    BY <1>1, <1>2, <1>3, ResultType
  <2>2. offset[t] + (Smaller(size, from + len) - from) \in Nat
    BY <1>3 DEF CallType
  <2> QED BY <1>6, <2>1, <2>2 DEF CallType
<1> QED BY <1>4, <1>5, <1>6

\* Typing is preserved by every step, whoever the mutex was taken from.
LEMMA TypePreserved == TypeOK /\ [Next]_vars => TypeOK'
<1> SUFFICES ASSUME TypeOK, [Next]_vars
             PROVE  DeviceType' /\ CallType' /\ clobbered' \in BOOLEAN
  BY DEF TypeOK
<1>a. DeviceType /\ CallType
  BY DEF TypeOK
<1>b. clobbered' \in BOOLEAN
  BY DEF TypeOK, Next, vars, Register, MutexInit, Exit, Open, Release, CallWrite,
         CallRead, Lock, Work, WriteCheck, WriteFault, WriteCopy, WriteCommit,
         ReadCheck, ReadCopy, ReadCommit
<1> SUFFICES DeviceType' /\ CallType'
  BY <1>b
<1> USE <1>a
<1> USE SizeAssumption, NameAssumption, ResultType DEF ring
<1> USE DEF Waiting, Writing, Reading
<1>1. CASE Register \/ MutexInit \/ Exit
  <2>1. DeviceType'
    BY <1>1, ZeroSlot DEF Register, MutexInit, Exit, DeviceType
  <2>2. CallType'
    BY <1>1 DEF Register, MutexInit, Exit, CallType
  <2> QED BY <2>1, <2>2
<1>2. ASSUME NEW t \in Task, Open(t) \/ Release(t) \/ CallWrite(t) \/ CallRead(t)
      PROVE  DeviceType' /\ CallType'
  <2>1. DeviceType'
    BY <1>2 DEF Open, Release, CallWrite, CallRead, DeviceType
  <2>2. CallType'
    BY <1>2 DEF Open, Release, CallWrite, CallRead, Goto, CallType
  <2> QED BY <2>1, <2>2
<1>3. ASSUME NEW t \in Task, Lock(t) PROVE DeviceType' /\ CallType'
  BY <1>3 DEF Lock, Goto, DeviceType, CallType
<1>4. ASSUME NEW t \in Task, WriteCheck(t) \/ ReadCheck(t)
      PROVE  DeviceType' /\ CallType'
  <2>1. DeviceType'
    BY <1>4 DEF WriteCheck, ReadCheck, Unlock, DeviceType
  <2>2. CallType'
    BY <1>4 DEF WriteCheck, ReadCheck, Goto, Returns, CallType
  <2> QED BY <2>1, <2>2
<1>5. ASSUME NEW t \in Task, WriteFault(t) \/ WriteCopy(t)
      PROVE  DeviceType' /\ CallType'
  <2>1. DeviceType'
    BY <1>5 DEF WriteFault, WriteCopy, Unlock, DeviceType, CallType
  <2>2. CallType'
    BY <1>5 DEF WriteFault, WriteCopy, Goto, Returns, CallType
  <2> QED BY <2>1, <2>2
<1>6. ASSUME NEW t \in Task, WriteCommit(t) \/ ReadCommit(t)
      PROVE  DeviceType' /\ CallType'
  <2>1. DeviceType'
    BY SMTT(30), <1>6, StepWraps DEF WriteCommit, ReadCommit, Unlock, DeviceType, Slot
  <2>2. CallType'
    BY <1>6 DEF WriteCommit, ReadCommit, Goto, Returns, CallType
  <2> QED BY <2>1, <2>2
<1>7. ASSUME NEW t \in Task, ReadCopy(t) PROVE DeviceType' /\ CallType'
  <2>1. PICK r \in Result : arg' = [arg EXCEPT ![t] = r]
    BY <1>7, ReadCopyType
  <2>2. /\ offset' \in [Task -> Nat]
        /\ pc[t] = "r_copy" /\ pc' = [pc EXCEPT ![t] = "r_commit"]
        /\ UNCHANGED <<phase, owner, clobbered, ring, result>>
    BY <1>7, ReadCopyType DEF ReadCopy, Goto
  <2> QED
    BY <2>1, <2>2 DEF DeviceType, CallType
<1>8. CASE UNCHANGED vars
  <2>1. UNCHANGED <<phase, owner, ring, pc, arg, offset, result>>
    BY <1>8 DEF vars
  <2> QED BY <2>1 DEF DeviceType, CallType
<1> QED BY <1>1, <1>2, <1>3, <1>4, <1>5, <1>6, <1>7, <1>8 DEF Next, Work

\* TypeOK of the run, for every number of tasks, payloads and slots: the two
\* indices never leave msg_buffer.
THEOREM TypeCorrect == Spec => []TypeOK
<1>1. Init => TypeOK
  BY InitIInv DEF IInv
<1> QED BY <1>1, TypePreserved, PTL DEF Spec
-----------------------------------------------------------------------------
LEMMA FirstMutexPreserved == TypeOK /\ FirstMutexIntact /\ [Next]_vars => FirstMutexIntact'
<1> SUFFICES ASSUME TypeOK, FirstMutexIntact, [Next]_vars PROVE FirstMutexIntact'
  OBVIOUS
<1>1. CASE Register \/ MutexInit \/ Exit
  BY <1>1 DEF Register, MutexInit, Exit, FirstMutexIntact
<1>2. ASSUME NEW t \in Task,
             Open(t) \/ Release(t) \/ CallWrite(t) \/ CallRead(t) \/ Lock(t) \/ Work(t)
      PROVE  UNCHANGED <<phase, clobbered>>
  BY <1>2 DEF Open, Release, CallWrite, CallRead, Lock, Work, WriteCheck, WriteFault,
              WriteCopy, WriteCommit, ReadCheck, ReadCopy, ReadCommit
<1>3. CASE UNCHANGED vars
  BY <1>3 DEF vars, FirstMutexIntact
<1> QED BY <1>1, <1>2, <1>3 DEF Next, FirstMutexIntact

\* The mutex keeps its owner alone in the critical section.
LEMMA ExclusionPreserved ==
  TypeOK /\ FirstMutexIntact /\ OneInside /\ [Next]_vars => OneInside'
<1> SUFFICES ASSUME TypeOK, FirstMutexIntact, OneInside, [Next]_vars, ~clobbered'
             PROVE  \A t \in Task : pc'[t] \in Writing \cup Reading <=> owner' = t
  BY DEF OneInside
<1> USE NameAssumption DEF Writing, Reading
<1>1. CASE Register \/ MutexInit \/ Exit
  BY <1>1 DEF Register, MutexInit, Exit, FirstMutexIntact, OneInside
<1>2. CASE UNCHANGED vars
  BY <1>2 DEF vars, OneInside
<1>3. ASSUME NEW t \in Task,
             Open(t) \/ Release(t) \/ CallWrite(t) \/ CallRead(t) \/ Lock(t) \/ Work(t)
      PROVE  \A u \in Task : pc'[u] \in Writing \cup Reading <=> owner' = u
  <2>1. ~clobbered /\ pc \in [Task -> {"closed", "open"} \cup Waiting \cup Writing \cup Reading]
    BY <1>3 DEF Open, Release, CallWrite, CallRead, Lock, Work, WriteCheck, WriteFault,
                WriteCopy, WriteCommit, ReadCheck, ReadCopy, ReadCommit, TypeOK, CallType
  <2>2. \A u \in Task : pc[u] \in Writing \cup Reading <=> owner = u
    BY <2>1 DEF OneInside
  <2>3. CASE Open(t) \/ Release(t) \/ CallWrite(t) \/ CallRead(t)
    BY <2>1, <2>2, <2>3 DEF Open, Release, CallWrite, CallRead, Goto
  <2>4. CASE Lock(t)
    BY <2>1, <2>2, <2>4 DEF Lock, Goto, Waiting
  <2>5. CASE WriteCheck(t) \/ ReadCheck(t)
    BY <2>1, <2>2, <2>5 DEF WriteCheck, ReadCheck, Goto, Returns, Unlock
  <2>6. CASE WriteFault(t) \/ WriteCommit(t) \/ ReadCommit(t)
    BY <2>1, <2>2, <2>6 DEF WriteFault, WriteCommit, ReadCommit, Goto, Returns, Unlock
  <2>7. CASE WriteCopy(t) \/ ReadCopy(t)
    BY <2>1, <2>2, <2>7 DEF WriteCopy, ReadCopy, Goto
  <2> QED BY <1>3, <2>3, <2>4, <2>5, <2>6, <2>7 DEF Work
<1> QED BY <1>1, <1>2, <1>3 DEF Next

\* OneInside of the run, for every number of tasks: the mutex excludes for as
\* long as the init function has not initialised it under its owner.
THEOREM MutexExcludes == Spec => []OneInside
<1>1. Init => TypeOK /\ FirstMutexIntact /\ OneInside
  BY InitIInv DEF IInv
<1>2. TypeOK /\ FirstMutexIntact /\ OneInside /\ [Next]_vars
        => (TypeOK /\ FirstMutexIntact /\ OneInside)'
  BY TypePreserved, FirstMutexPreserved, ExclusionPreserved
<1> QED BY <1>1, <1>2, PTL DEF Spec
-----------------------------------------------------------------------------
(* The ring.  Each lemma takes one step of the one task inside.            *)

\* The part of the state the ring's steps work on, and what they may assume.
Sound == /\ DeviceType /\ CallType
         /\ msg_count \in 0 .. MAX_MSGS
         /\ (read_index + msg_count) % MAX_MSGS = write_index
         /\ \A i \in 0 .. msg_count - 1 : msg_buffer[(read_index + i) % MAX_MSGS] # Junk

\* Slots of the ring less than a full turn apart are different slots.
LEMMA SlotsDiffer ==
  ASSUME NEW r \in Slot, NEW n \in 0 .. MAX_MSGS - 1, NEW i \in 0 .. n - 1
  PROVE  (r + i) % MAX_MSGS # (r + n) % MAX_MSGS
BY SizeAssumption, Wrap DEF Slot

\* Appending moves the end of the window by one slot.
LEMMA WindowGrows ==
  ASSUME NEW r \in Slot, NEW n \in 0 .. MAX_MSGS - 1
  PROVE  (r + (n + 1)) % MAX_MSGS = Step((r + n) % MAX_MSGS)
<1> DEFINE e == (r + n) % MAX_MSGS
<1>1. e = IF r + n < MAX_MSGS THEN r + n ELSE r + n - MAX_MSGS
  BY SizeAssumption, Wrap DEF Slot
<1>2. (r + (n + 1)) % MAX_MSGS
        = IF r + (n + 1) < MAX_MSGS THEN r + (n + 1) ELSE r + (n + 1) - MAX_MSGS
  BY SizeAssumption, Wrap DEF Slot
<1>3. Step(e) = IF e + 1 < MAX_MSGS THEN e + 1 ELSE 0
  BY <1>1, SizeAssumption, StepWraps DEF Slot
<1> HIDE DEF e
<1>4. (r + (n + 1)) % MAX_MSGS = Step(e)
  BY <1>1, <1>2, <1>3, SizeAssumption DEF Slot
<1> QED BY <1>4 DEF e

\* Removing moves its start by one slot and nothing else.
LEMMA WindowShrinks ==
  ASSUME NEW r \in Slot, NEW i \in 0 .. MAX_MSGS - 1
  PROVE  (Step(r) + i) % MAX_MSGS = (r + (i + 1)) % MAX_MSGS
<1> DEFINE s == Step(r)
<1>1. s = IF r + 1 < MAX_MSGS THEN r + 1 ELSE 0
  BY StepWraps
<1>2. (r + (i + 1)) % MAX_MSGS
        = IF r + (i + 1) < MAX_MSGS THEN r + (i + 1) ELSE r + (i + 1) - MAX_MSGS
  BY SizeAssumption, Wrap DEF Slot
<1> HIDE DEF s
<1>3. (s + i) % MAX_MSGS = IF s + i < MAX_MSGS THEN s + i ELSE s + i - MAX_MSGS
  BY <1>1, SizeAssumption, Wrap DEF Slot
<1>4. (s + i) % MAX_MSGS = (r + (i + 1)) % MAX_MSGS
  BY <1>1, <1>2, <1>3, SizeAssumption DEF Slot
<1> QED BY <1>4 DEF s

LEMMA CommitKeepsRing ==
  ASSUME Sound, NEW t \in Task, WriteCommit(t),
         msg_count < MAX_MSGS, msg_buffer[write_index] = arg[t]
  PROVE  /\ msg_count' \in 0 .. MAX_MSGS
         /\ (read_index' + msg_count') % MAX_MSGS = write_index'
         /\ \A i \in 0 .. msg_count' - 1 :
              msg_buffer'[(read_index' + i) % MAX_MSGS] # Junk
<1>1. /\ msg_count' = msg_count + 1 /\ write_index' = Step(write_index)
      /\ UNCHANGED <<msg_buffer, read_index>>
  BY DEF WriteCommit
<1>2. read_index \in Slot /\ msg_count \in 0 .. MAX_MSGS - 1
  BY SizeAssumption DEF Sound, DeviceType
<1>3. (read_index + (msg_count + 1)) % MAX_MSGS = Step(write_index)
  BY <1>2, WindowGrows DEF Sound
<1>4. msg_buffer[(read_index + msg_count) % MAX_MSGS] # Junk
  BY NameAssumption DEF Sound, CallType, WriteCommit, Writing
<1>5. \A i \in 0 .. msg_count : msg_buffer[(read_index + i) % MAX_MSGS] # Junk
  <2> TAKE i \in 0 .. msg_count
  <2>1. i = msg_count \/ i \in 0 .. msg_count - 1
    BY <1>2
  <2> QED BY <2>1, <1>4 DEF Sound
<1>6. msg_count' \in 0 .. MAX_MSGS /\ 0 .. msg_count' - 1 = 0 .. msg_count
  BY <1>1, <1>2, SizeAssumption
<1> QED BY <1>1, <1>3, <1>5, <1>6

LEMMA ReadKeepsRing ==
  ASSUME Sound, NEW t \in Task, ReadCommit(t), msg_count > 0
  PROVE  /\ msg_count' \in 0 .. MAX_MSGS
         /\ (read_index' + msg_count') % MAX_MSGS = write_index'
         /\ \A i \in 0 .. msg_count' - 1 :
              msg_buffer'[(read_index' + i) % MAX_MSGS] # Junk
<1>1. /\ msg_count' = msg_count - 1 /\ read_index' = Step(read_index)
      /\ UNCHANGED <<msg_buffer, write_index>>
  BY DEF ReadCommit
<1>2. read_index \in Slot /\ msg_count \in 1 .. MAX_MSGS
  BY SizeAssumption DEF Sound, DeviceType
<1>3. \A i \in 0 .. msg_count - 1 :
        (Step(read_index) + i) % MAX_MSGS = (read_index + (i + 1)) % MAX_MSGS
  BY <1>2, SizeAssumption, WindowShrinks
<1>4. (Step(read_index) + (msg_count - 1)) % MAX_MSGS = write_index
  <2>1. msg_count - 1 \in 0 .. msg_count - 1 /\ (msg_count - 1) + 1 = msg_count
    BY <1>2
  <2> QED BY <2>1, <1>3 DEF Sound
<1>5. \A i \in 0 .. msg_count - 2 : msg_buffer[(Step(read_index) + i) % MAX_MSGS] # Junk
  <2> TAKE i \in 0 .. msg_count - 2
  <2>1. i \in 0 .. msg_count - 1 /\ i + 1 \in 0 .. msg_count - 1
    BY <1>2
  <2> QED BY <2>1, <1>3 DEF Sound
<1>6. msg_count' \in 0 .. MAX_MSGS /\ 0 .. msg_count' - 1 = 0 .. msg_count - 2
  BY <1>1, <1>2, SizeAssumption
<1> QED BY <1>1, <1>4, <1>5, <1>6

LEMMA FaultKeepsRing ==
  ASSUME Sound, NEW t \in Task, WriteFault(t) \/ WriteCopy(t), msg_count < MAX_MSGS
  PROVE  /\ UNCHANGED <<read_index, write_index, msg_count>>
         /\ \A i \in 0 .. msg_count - 1 :
              msg_buffer'[(read_index + i) % MAX_MSGS] # Junk
<1>1. UNCHANGED <<read_index, write_index, msg_count>>
  BY DEF WriteFault, WriteCopy
<1>2. \A j \in Slot : j # write_index => msg_buffer'[j] = msg_buffer[j]
  BY DEF WriteFault, WriteCopy, Sound, DeviceType
<1>3. ASSUME NEW i \in 0 .. msg_count - 1
      PROVE  msg_buffer'[(read_index + i) % MAX_MSGS] # Junk
  <2>1. read_index \in Slot /\ msg_count \in 0 .. MAX_MSGS - 1
    BY SizeAssumption DEF Sound, DeviceType
  <2>2. (read_index + i) % MAX_MSGS # write_index
    BY <2>1, SlotsDiffer DEF Sound
  <2>3. (read_index + i) % MAX_MSGS \in Slot
    BY <2>1, SizeAssumption, Wrap DEF Slot
  <2> QED BY <1>2, <2>2, <2>3 DEF Sound
<1> QED BY <1>1, <1>3
-----------------------------------------------------------------------------
LEMMA RingPreserved == IInv /\ [Next]_vars => RingConsistent' /\ CallConsistent'
<1> SUFFICES ASSUME IInv, [Next]_vars, ~clobbered' PROVE RingConsistent' /\ CallConsistent'
  BY DEF RingConsistent, CallConsistent
<1> USE SizeAssumption, NameAssumption
<1>1. CASE Exit
  <2>1. (0 + 0) % MAX_MSGS = 0
    BY Wrap
  <2>2. RingConsistent'
    BY <1>1, <2>1 DEF Exit, RingConsistent
  <2>3. CallConsistent'
    BY <1>1 DEF Exit, CallConsistent
  <2> QED BY <2>2, <2>3
<1>2. CASE Register \/ MutexInit
  <2>1. ~clobbered
    BY <1>2 DEF Register, MutexInit, IInv, FirstMutexIntact
  <2>2. UNCHANGED <<ring, pc, arg>>
    BY <1>2 DEF Register, MutexInit
  <2> QED
    BY <2>1, <2>2 DEF IInv, RingConsistent, CallConsistent, ring
<1>3. CASE UNCHANGED vars
  BY <1>3 DEF vars, ring, IInv, RingConsistent, CallConsistent
<1>4. ASSUME NEW t \in Task,
             Open(t) \/ Release(t) \/ CallWrite(t) \/ CallRead(t) \/ Lock(t) \/ Work(t)
      PROVE  RingConsistent' /\ CallConsistent'
  <2>1. ~clobbered
    BY <1>4 DEF Open, Release, CallWrite, CallRead, Lock, Work, WriteCheck, WriteFault,
                WriteCopy, WriteCommit, ReadCheck, ReadCopy, ReadCommit
  <2>2. Sound
    BY <2>1 DEF IInv, TypeOK, RingConsistent, Sound
  <2>3. \A u \in Task : pc[u] \in Writing \cup Reading <=> owner = u
    BY <2>1 DEF IInv, OneInside
  <2>4. \A u \in Task : /\ pc[u] \in {"w_copy", "w_commit"} => msg_count < MAX_MSGS
                        /\ pc[u] = "w_commit" => msg_buffer[write_index] = arg[u]
                        /\ pc[u] \in {"r_copy", "r_commit"} => msg_count > 0
    BY <2>1 DEF IInv, CallConsistent
  <2>5. \A u \in Task \ {t} : pc[t] \in Writing \cup Reading
                             => pc[u] \notin Writing \cup Reading
    BY <2>3
  <2>6. pc \in [Task -> {"closed", "open"} \cup Waiting \cup Writing \cup Reading]
        /\ arg \in [Task -> Msg \cup {None} \cup Result]
    BY DEF IInv, TypeOK, CallType
  <2>7. CASE Open(t) \/ Release(t) \/ CallWrite(t) \/ CallRead(t) \/ Lock(t)
    <3>1. UNCHANGED ring
      BY <2>7 DEF Open, Release, CallWrite, CallRead, Lock
    <3>2. \A u \in Task : pc'[u] \in {"w_copy", "w_commit", "r_copy", "r_commit"}
                            => pc'[u] = pc[u] /\ arg'[u] = arg[u]
      BY <2>6, <2>7 DEF Open, Release, CallWrite, CallRead, Lock, Goto, Waiting
    <3> QED
      BY <2>1, <2>4, <3>1, <3>2 DEF IInv, RingConsistent, CallConsistent, ring
  <2>8. CASE WriteCheck(t) \/ ReadCheck(t) \/ ReadCopy(t)
    <3>1. UNCHANGED ring
      BY <2>8 DEF WriteCheck, ReadCheck, ReadCopy
    <3>2. RingConsistent'
      BY <2>1, <3>1 DEF IInv, RingConsistent, ring
    <3>3. \A u \in Task \ {t} : pc'[u] = pc[u] /\ pc[u] \notin Writing \cup Reading
      BY <2>5, <2>6, <2>8 DEF WriteCheck, ReadCheck, ReadCopy, Goto, Returns, Writing, Reading
    <3>4. /\ pc'[t] = "w_copy" => msg_count < MAX_MSGS
          /\ pc'[t] \in {"r_copy", "r_commit"} => msg_count > 0
          /\ pc'[t] # "w_commit"
      BY <2>2, <2>4, <2>6, <2>8
         DEF WriteCheck, ReadCheck, ReadCopy, Goto, Returns, Full, Sound
    <3>5. msg_count' = msg_count
      BY <3>1 DEF ring
    <3> QED
      BY <3>2, <3>3, <3>4, <3>5 DEF CallConsistent, Writing, Reading
  <2>9. CASE WriteFault(t) \/ WriteCopy(t)
    <3>1. msg_count < MAX_MSGS
      BY <2>4, <2>9 DEF WriteFault, WriteCopy
    <3>2. /\ UNCHANGED <<read_index, write_index, msg_count>>
          /\ \A i \in 0 .. msg_count - 1 : msg_buffer'[(read_index + i) % MAX_MSGS] # Junk
      BY <2>2, <2>9, <3>1, FaultKeepsRing
    <3>3. RingConsistent'
      BY <2>2, <3>2 DEF Sound, RingConsistent
    <3>4. \A u \in Task \ {t} : pc'[u] = pc[u] /\ pc[u] \notin Writing \cup Reading
      BY <2>5, <2>6, <2>9 DEF WriteFault, WriteCopy, Goto, Returns, Writing, Reading
    <3>5. pc'[t] \in {"open", "w_commit"}
          /\ (pc'[t] = "w_commit" => msg_buffer'[write_index] = arg'[t])
      BY <2>2, <2>6, <2>9 DEF WriteFault, WriteCopy, Goto, Returns, Sound, DeviceType
    <3> QED
      BY <3>1, <3>2, <3>3, <3>4, <3>5 DEF CallConsistent, Writing, Reading
  <2>10. CASE WriteCommit(t) \/ ReadCommit(t)
    <3>1. RingConsistent'
      <4>1. CASE WriteCommit(t)
        BY <2>2, <2>4, <4>1, CommitKeepsRing DEF WriteCommit, RingConsistent
      <4>2. CASE ReadCommit(t)
        BY <2>2, <2>4, <4>2, ReadKeepsRing DEF ReadCommit, RingConsistent
      <4> QED BY <2>10, <4>1, <4>2
    <3>2. \A u \in Task : pc'[u] \notin {"w_copy", "w_commit", "r_copy", "r_commit"}
      BY <2>5, <2>6, <2>10 DEF WriteCommit, ReadCommit, Goto, Returns, Writing, Reading
    <3> QED BY <3>1, <3>2 DEF CallConsistent
  <2> QED BY <1>4, <2>7, <2>8, <2>9, <2>10 DEF Work
<1> QED BY <1>1, <1>2, <1>3, <1>4 DEF Next

LEMMA Invariant == Spec => []IInv
<1>1. IInv /\ [Next]_vars => IInv'
  BY TypePreserved, FirstMutexPreserved, ExclusionPreserved, RingPreserved DEF IInv
<1> QED BY InitIInv, <1>1, PTL DEF Spec

\* RingConsistent of the run, for every number of tasks and slots: as long as
\* the mutex is left alone the counter and the two indices agree, the counter
\* never passes MAX_MSGS and every queued slot holds a completed write.
THEOREM RingStaysConsistent == Spec => []RingConsistent
<1>1. IInv => RingConsistent
  BY DEF IInv
<1> QED BY <1>1, Invariant, PTL
-----------------------------------------------------------------------------
(* The refinement of MsgQueue.                                             *)

\* A reader past its copy holds a piece of the oldest message: nobody else has
\* been inside since, so that it still is the oldest when it is removed.
PieceHeld == clobbered \/ \A t \in Task : pc[t] = "r_commit" =>
                arg[t] \in Queue!Pieces(msg_buffer[read_index]) \cup {Code("fault")}

\* What simple_read_from_buffer hands out is a piece of the message.
LEMMA ReadCopyPiece ==
  ASSUME DeviceType, CallType, msg_buffer[read_index] # Junk, NEW t \in Task, ReadCopy(t)
  PROVE  arg'[t] \in Queue!Pieces(msg_buffer[read_index]) \cup {Code("fault")}
<1> DEFINE msg == msg_buffer[read_index]
           size == StrLen(msg)
           from == Smaller(offset[t], size)
<1>1. size = Stored(msg) /\ msg \in Msg
  BY DEF StrLen, DeviceType
<1>2. size \in Nat /\ from \in 0 .. size
  BY <1>1, StrLenType DEF CallType, Smaller
<1>3. \A len \in ReadLen : Smaller(size, from + len) \in 0 .. size
  BY <1>2, SizeAssumption DEF Smaller
<1> HIDE DEF msg, size, from
<1>4. \/ \E len \in ReadLen : arg' = [arg EXCEPT ![t] = Bytes(msg, from, Smaller(size, from + len))]
      \/ arg' = [arg EXCEPT ![t] = Code("fault")]
  BY DEF ReadCopy, msg, size, from
<1>5. ASSUME NEW len \in ReadLen
      PROVE  Bytes(msg, from, Smaller(size, from + len)) \in Queue!Pieces(msg)
  BY <1>1, <1>2, <1>3 DEF Bytes, Queue!Pieces
<1> QED BY <1>4, <1>5 DEF CallType, msg

LEMMA PiecePreserved == IInv /\ PieceHeld /\ [Next]_vars => PieceHeld'
<1> SUFFICES ASSUME IInv, PieceHeld, [Next]_vars, ~clobbered',
                    NEW t \in Task, pc'[t] = "r_commit"
             PROVE  arg'[t] \in Queue!Pieces(msg_buffer'[read_index']) \cup {Code("fault")}
  BY DEF PieceHeld, Queue!Pieces
<1>1. DeviceType /\ CallType
  BY DEF IInv, TypeOK
<1>2. CASE Exit
  BY <1>1, <1>2 DEF Exit
<1>3. CASE Register \/ MutexInit \/ UNCHANGED vars
  <2>1. ~clobbered /\ UNCHANGED <<msg_buffer, read_index, pc, arg>>
    BY <1>3 DEF Register, MutexInit, vars, ring, IInv, FirstMutexIntact
  <2> QED BY <2>1 DEF PieceHeld
<1>4. ASSUME NEW u \in Task,
             Open(u) \/ Release(u) \/ CallWrite(u) \/ CallRead(u) \/ Lock(u) \/ Work(u)
      PROVE  arg'[t] \in Queue!Pieces(msg_buffer'[read_index']) \cup {Code("fault")}
  <2>1. ~clobbered
    BY <1>4 DEF Open, Release, CallWrite, CallRead, Lock, Work, WriteCheck, WriteFault,
                WriteCopy, WriteCommit, ReadCheck, ReadCopy, ReadCommit
  <2>2. /\ \A w \in Task : pc[w] \in Writing \cup Reading <=> owner = w
        /\ pc[t] = "r_commit" =>
             arg[t] \in Queue!Pieces(msg_buffer[read_index]) \cup {Code("fault")}
    BY <2>1 DEF IInv, OneInside, PieceHeld
  <2>3. CASE ReadCopy(u)
    <3>1. msg_buffer[read_index] # Junk
      <4>1. read_index \in Slot /\ msg_count \in 1 .. MAX_MSGS
        BY <2>1, <2>3 DEF ReadCopy, IInv, CallConsistent, RingConsistent, TypeOK, DeviceType
      <4>2. (read_index + 0) % MAX_MSGS = read_index /\ 0 \in 0 .. msg_count - 1
        BY <4>1, SizeAssumption, Wrap DEF Slot
      <4> QED BY <2>1, <4>2 DEF IInv, RingConsistent
    <3>2. t # u => pc[t] = "r_commit"
      BY <1>1, <2>3 DEF ReadCopy, Goto, CallType
    <3>3. t = u
      BY <2>2, <2>3, <3>2 DEF ReadCopy, Reading
    <3>4. UNCHANGED <<msg_buffer, read_index>>
      BY <2>3 DEF ReadCopy, ring
    <3> QED BY <1>1, <2>3, <3>1, <3>3, <3>4, ReadCopyPiece
  <2>4. CASE ~ReadCopy(u)
    <3>1. pc[t] = "r_commit" /\ t # u
      BY <1>1, <1>4, <2>4
         DEF Open, Release, CallWrite, CallRead, Lock, Work, WriteCheck, WriteFault, WriteCopy,
             WriteCommit, ReadCheck, ReadCommit, Goto, Returns, CallType, Waiting
    <3>2. pc[u] \notin Writing \cup Reading
      BY <2>2, <3>1 DEF Reading
    <3>3. UNCHANGED <<msg_buffer, read_index>> /\ arg'[t] = arg[t]
      BY <1>1, <1>4, <2>4, <3>1, <3>2
         DEF Open, Release, CallWrite, CallRead, Lock, Work, WriteCheck, WriteFault, WriteCopy,
             WriteCommit, ReadCheck, ReadCommit, Goto, Returns, CallType, Writing, Reading, ring
    <3> QED BY <2>2, <3>1, <3>3
  <2> QED BY <2>3, <2>4
<1> QED BY <1>2, <1>3, <1>4 DEF Next

\* The places of a call that puts and of one that gets.
Putting == {"w_lock"} \cup Writing
Getting == {"r_lock"} \cup Reading

LEMMA CallMap ==
  ASSUME NEW t \in Task
  PROVE  /\ pc[t] \in Putting => call[t] = Queue!PutCall(arg[t])
         /\ pc[t] \in Getting => call[t] = Queue!GetCall
         /\ pc[t] \notin Putting \cup Getting => call[t] = Queue!NoCall
         /\ pc'[t] \in Putting => call'[t] = Queue!PutCall(arg'[t])
         /\ pc'[t] \in Getting => call'[t] = Queue!GetCall
         /\ pc'[t] \notin Putting \cup Getting => call'[t] = Queue!NoCall
BY DEF call, Putting, Getting, Writing, Reading, Queue!PutCall, Queue!GetCall, Queue!NoCall

LEMMA CallFunction == call = [t \in Task |-> call[t]] /\ call' = [t \in Task |-> call'[t]]
BY DEF call

\* A step that moves no task between asking to put, asking to get and neither,
\* and changes no message on its way in, is not seen.
LEMMA CallSame ==
  ASSUME \A t \in Task : /\ pc'[t] \in Putting <=> pc[t] \in Putting
                         /\ pc'[t] \in Getting <=> pc[t] \in Getting
                         /\ pc[t] \in Putting => arg'[t] = arg[t]
  PROVE  call' = call
<1>1. \A t \in Task : call'[t] = call[t]
  BY CallMap
<1> QED BY <1>1, CallFunction

\* A step of one task shows in its own call only.
LEMMA CallMoves ==
  ASSUME NEW t \in Task, \A u \in Task \ {t} : pc'[u] = pc[u] /\ arg'[u] = arg[u]
  PROVE  call' = [call EXCEPT ![t] = call'[t]]
<1>1. \A u \in Task \ {t} : call'[u] = call[u]
  BY CallMap
<1> QED BY <1>1, CallFunction

\* A return is a reply.
LEMMA ReturnReplies ==
  ASSUME CallType, NEW t \in Task, NEW r, Returns(t, r), UNCHANGED clobbered
  PROVE  Queue!Reply(t, r)
<1>1. \A u \in Task \ {t} : pc'[u] = pc[u] /\ arg'[u] = arg[u]
  BY DEF Returns, Goto, CallType
<1>2. pc'[t] = "open"
  BY DEF Returns, Goto, CallType
<1>3. call'[t] = Queue!NoCall
  BY <1>2, CallMap DEF Putting, Getting, Writing, Reading
<1> QED BY <1>1, <1>3, CallMoves DEF Returns, Queue!Reply

\* The queue is as long as the counter says, its messages in slot order.
At(i) == msg_buffer[(read_index + i - 1) % MAX_MSGS]
LEMMA QueueMap ==
  /\ msg_count \in Nat => /\ queue \in Seq({At(i) : i \in 1 .. msg_count})
                          /\ Len(queue) = msg_count
                          /\ \A i \in 1 .. msg_count : queue[i] = At(i)
  /\ msg_count' \in Nat => /\ queue' \in Seq({At(i)' : i \in 1 .. msg_count'})
                           /\ Len(queue') = msg_count'
                           /\ \A i \in 1 .. msg_count' : queue'[i] = At(i)'
<1>1. ASSUME NEW n \in Nat, NEW S, NEW f \in [1 .. n -> S] PROVE f \in Seq(S) /\ Len(f) = n
  OBVIOUS
<1>2. /\ queue \in [1 .. msg_count -> {At(i) : i \in 1 .. msg_count}]
      /\ \A i \in 1 .. msg_count : queue[i] = At(i)
  BY DEF queue, At
<1>3. /\ queue' \in [1 .. msg_count' -> {At(i)' : i \in 1 .. msg_count'}]
      /\ \A i \in 1 .. msg_count' : queue'[i] = At(i)'
  BY DEF queue, At
<1> QED BY <1>1, <1>2, <1>3

\* What is no change to the slots in use is none to the queue.
LEMMA QueueSame ==
  ASSUME msg_count \in Nat, UNCHANGED <<read_index, msg_count>>,
         \A i \in 1 .. msg_count : At(i)' = At(i)
  PROVE  queue' = queue
BY DEF queue, At
-----------------------------------------------------------------------------
(* Each step of the device is a step of the queue or no step of it.        *)

\* What copy_from_user puts into the free slot is not in the queue yet.
LEMMA FillHides ==
  ASSUME Sound, NEW t \in Task, WriteFault(t) \/ WriteCopy(t), msg_count < MAX_MSGS
  PROVE  queue' = queue
<1>1. UNCHANGED <<read_index, msg_count>>
  BY DEF WriteFault, WriteCopy
<1>2. \A j \in Slot : j # write_index => msg_buffer'[j] = msg_buffer[j]
  BY DEF WriteFault, WriteCopy, Sound, DeviceType
<1>3. read_index \in Slot /\ msg_count \in 0 .. MAX_MSGS - 1 /\ msg_count \in Nat
  BY SizeAssumption DEF Sound, DeviceType
<1>4. ASSUME NEW i \in 1 .. msg_count PROVE At(i)' = At(i)
  <2>1. i - 1 \in 0 .. msg_count - 1 /\ read_index + i - 1 = read_index + (i - 1)
    BY <1>3 DEF Slot
  <2>2. (read_index + (i - 1)) % MAX_MSGS # write_index
    BY <1>3, <2>1, SlotsDiffer DEF Sound
  <2>3. (read_index + (i - 1)) % MAX_MSGS \in Slot
    BY <1>3, <2>1, SizeAssumption, Wrap DEF Slot
  <2> QED BY <1>1, <1>2, <2>1, <2>2, <2>3 DEF At
<1> QED BY <1>1, <1>3, <1>4, QueueSame

\* The commit of a write puts its message at the end.
LEMMA CommitPuts ==
  ASSUME Sound, NEW t \in Task, WriteCommit(t), msg_count < MAX_MSGS,
         msg_buffer[write_index] = arg[t]
  PROVE  Queue!Put(t)
<1>1. /\ msg_count' = msg_count + 1 /\ UNCHANGED <<msg_buffer, read_index, clobbered>>
      /\ pc[t] = "w_commit" /\ Returns(t, Code("stored"))
  BY DEF WriteCommit
<1>2. msg_count \in Nat /\ msg_count' \in Nat /\ MAX_MSGS \in Nat /\ read_index \in Int
  BY <1>1, SizeAssumption DEF Sound, DeviceType, Slot
<1>3. Queue!Reply(t, <<"stored">>)
  BY <1>1, ReturnReplies DEF Sound, Code
<1>4. call[t] = Queue!PutCall(arg[t]) /\ arg[t] \in Msg
  BY <1>1, CallMap DEF Putting, Writing, Sound, CallType
<1>5. Len(queue) < MAX_MSGS
  BY <1>2, QueueMap
<1>6. queue' = Append(queue, arg[t])
  <2>1. \A i \in 1 .. msg_count : At(i)' = At(i)
    BY <1>1 DEF At
  <2>2. ASSUME NEW i \in Int, i = msg_count + 1 PROVE At(i)' = arg[t]
    <3>1. read_index + i - 1 = read_index + msg_count
      BY <1>2, <2>2
    <3> QED BY <1>1, <3>1 DEF At, Sound
  <2>3. Len(queue') = msg_count + 1
        /\ \A i \in 1 .. msg_count + 1 : queue'[i] = At(i)'
    BY <1>1, <1>2, QueueMap
  <2>4. Len(Append(queue, arg[t])) = msg_count + 1
        /\ (\A i \in 1 .. msg_count : Append(queue, arg[t])[i] = queue[i])
        /\ Append(queue, arg[t])[msg_count + 1] = arg[t]
    BY <1>2, QueueMap
  <2>5. \A i \in 1 .. msg_count : queue[i] = At(i)
    BY <1>2, QueueMap
  <2>6. \A i \in 1 .. msg_count + 1 : queue'[i] = Append(queue, arg[t])[i]
    <3> TAKE i \in 1 .. msg_count + 1
    <3>1. CASE i \in 1 .. msg_count
      BY <2>1, <2>3, <2>4, <2>5, <3>1
    <3>2. CASE i = msg_count + 1
      <4>1. i \in Int
        BY <1>2
      <4>2. queue'[i] = At(i)' /\ At(i)' = arg[t]
        BY <2>2, <2>3, <3>2, <4>1
      <4>3. Append(queue, arg[t])[i] = arg[t]
        BY <2>4, <3>2
      <4> QED BY <4>2, <4>3
    <3>3. i \in 1 .. msg_count \/ i = msg_count + 1
      BY <1>2
    <3> QED BY <3>1, <3>2, <3>3
  <2>7. /\ queue' = [i \in 1 .. msg_count + 1 |-> queue'[i]]
        /\ Append(queue, arg[t]) = [i \in 1 .. msg_count + 1 |-> Append(queue, arg[t])[i]]
    BY <1>1, <1>2, QueueMap
  <2> QED BY <2>6, <2>7
<1> QED BY <1>3, <1>4, <1>5, <1>6 DEF Queue!Put

\* The commit of a read takes the first message away, and returns a piece of it
\* or a fault.
LEMMA CommitGets ==
  ASSUME Sound, NEW t \in Task, ReadCommit(t), msg_count > 0,
         arg[t] \in Queue!Pieces(msg_buffer[read_index]) \cup {Code("fault")}
  PROVE  Queue!Get(t)
<1>1. /\ msg_count' = msg_count - 1 /\ read_index' = Step(read_index)
      /\ UNCHANGED <<msg_buffer, clobbered>>
      /\ pc[t] = "r_commit" /\ Returns(t, arg[t])
  BY DEF ReadCommit
<1>2. /\ msg_count \in 1 .. MAX_MSGS /\ msg_count' \in Nat /\ msg_count \in Nat
      /\ MAX_MSGS \in Nat /\ read_index \in Slot /\ read_index \in Int
  BY <1>1, SizeAssumption DEF Sound, DeviceType, Slot
<1>3. Queue!Reply(t, arg[t])
  BY <1>1, ReturnReplies DEF Sound
<1>4. call[t] = Queue!GetCall
  BY <1>1, CallMap DEF Getting, Reading
<1>5. Head(queue) = msg_buffer[read_index] /\ queue # <<>>
  <2>1. (read_index + 1 - 1) % MAX_MSGS = read_index
    BY <1>2, Wrap DEF Slot
  <2>2. Len(queue) = msg_count /\ queue[1] = At(1)
    BY <1>2, QueueMap
  <2> QED BY <1>2, <2>1, <2>2 DEF At
<1>6. queue' = Tail(queue)
  <2>1. \A i \in 1 .. msg_count - 1 : At(i)' = At(i + 1)
    <3> TAKE i \in 1 .. msg_count - 1
    <3>1. i - 1 \in 0 .. MAX_MSGS - 1 /\ i \in Int
      BY <1>2
    <3>2. (Step(read_index) + (i - 1)) % MAX_MSGS = (read_index + ((i - 1) + 1)) % MAX_MSGS
      BY <1>2, <3>1, WindowShrinks
    <3>3. /\ read_index + ((i - 1) + 1) = read_index + (i + 1) - 1
          /\ Step(read_index) + (i - 1) = Step(read_index) + i - 1
      BY <1>2, <3>1, StepWraps
    <3> QED BY <1>1, <3>2, <3>3 DEF At
  <2>2. Len(queue') = msg_count - 1 /\ \A i \in 1 .. msg_count - 1 : queue'[i] = At(i)'
    BY <1>1, <1>2, QueueMap
  <2>3. /\ Len(Tail(queue)) = msg_count - 1
        /\ \A i \in 1 .. msg_count - 1 : Tail(queue)[i] = queue[i + 1]
    BY <1>2, QueueMap
  <2>4. \A i \in 1 .. msg_count - 1 : queue[i + 1] = At(i + 1)
    BY <1>2, QueueMap
  <2> DEFINE S == {At(i) : i \in 1 .. msg_count}
  <2>5. Tail(queue) \in Seq(S)
    BY <1>2, <1>5, QueueMap, HeadTailProperties
  <2>6. queue' \in Seq(S)
    <3>1. \A i \in 1 .. msg_count - 1 : At(i)' \in S
      BY <1>2, <2>1
    <3>2. {At(i)' : i \in 1 .. msg_count'} \subseteq S
      BY <1>1, <3>1
    <3> HIDE DEF S
    <3> QED BY <1>2, <3>2, QueueMap, SeqMonotonic
  <2> HIDE DEF S
  <2> QED BY <2>1, <2>2, <2>3, <2>4, <2>5, <2>6, SeqEqual
<1>7. arg[t] \in Queue!Pieces(Head(queue)) \cup {<<"fault">>}
  BY <1>5 DEF Code
<1> QED BY <1>3, <1>4, <1>5, <1>6, <1>7 DEF Queue!Get

\* Nothing is queued, asked for or answered before the module is loaded.
LEMMA InitMaps == Init => Queue!Init
BY DEF Init, Queue!Init, queue, call, Queue!NoCall, Code, Putting, Getting, Writing, Reading

\* A step that leaves the mutex taken from its owner breaks the promise; one
\* that does not is made with the mutex intact, or loads the module anew.
LEMMA StepMaps == IInv /\ PieceHeld /\ [Next]_vars => [Queue!Next]_(Queue!vars)
<1> SUFFICES ASSUME IInv, PieceHeld, [Next]_vars, clobbered' # TRUE
             PROVE  Queue!Next \/ UNCHANGED <<queue, call, result, clobbered>>
  BY DEF Queue!Next, Queue!Break, Queue!vars
<1>1. DeviceType /\ CallType /\ clobbered \in BOOLEAN /\ clobbered' \in BOOLEAN
  BY TypePreserved DEF IInv, TypeOK
<1>2. CASE Exit
  <2>1. queue' = <<>>
    BY <1>2 DEF Exit, queue
  <2>2. \A t \in Task : pc[t] = "closed" /\ pc'[t] = pc[t] /\ arg'[t] = arg[t]
    BY <1>2 DEF Exit
  <2>3. \A t \in Task : call[t] = Queue!NoCall
    BY <2>2, CallMap DEF Putting, Getting, Writing, Reading
  <2>4. call' = call
    BY <2>2, CallSame
  <2>5. result' = result /\ clobbered' = FALSE
    BY <1>2 DEF Exit
  <2> QED BY <2>1, <2>3, <2>4, <2>5 DEF Queue!Next, Queue!Reload
<1>3. CASE Register \/ MutexInit \/ UNCHANGED vars
  <2>1. UNCHANGED <<msg_buffer, read_index, msg_count, pc, arg, result>>
    BY <1>3 DEF Register, MutexInit, vars, ring
  <2>2. clobbered' = clobbered
    BY <1>1, <1>3 DEF Register, MutexInit, vars, IInv, FirstMutexIntact
  <2> QED BY <2>1, <2>2 DEF queue, call
<1>4. ASSUME NEW t \in Task,
             Open(t) \/ Release(t) \/ CallWrite(t) \/ CallRead(t) \/ Lock(t) \/ Work(t)
      PROVE  Queue!Next \/ UNCHANGED <<queue, call, result, clobbered>>
  <2>1. ~clobbered /\ clobbered' = clobbered
    BY <1>1, <1>4 DEF Open, Release, CallWrite, CallRead, Lock, Work, WriteCheck, WriteFault,
                WriteCopy, WriteCommit, ReadCheck, ReadCopy, ReadCommit
  <2>2. Sound
    BY <1>1, <2>1 DEF IInv, RingConsistent, Sound
  <2>3. /\ pc[t] \in {"w_copy", "w_commit"} => msg_count < MAX_MSGS
        /\ pc[t] = "w_commit" => msg_buffer[write_index] = arg[t]
        /\ pc[t] \in {"r_copy", "r_commit"} => msg_count > 0
        /\ pc[t] = "r_commit" =>
             arg[t] \in Queue!Pieces(msg_buffer[read_index]) \cup {Code("fault")}
    BY <2>1 DEF IInv, CallConsistent, PieceHeld
  <2>4. ASSUME \/ Queue!Invoke(t) \/ Queue!Leave(t) \/ Queue!Put(t)
               \/ Queue!PutFails(t) \/ Queue!Get(t) \/ Queue!GetNothing(t)
        PROVE  Queue!Next
    BY <2>1, <2>4 DEF Queue!Next
  <2>5. CASE Open(t) \/ Lock(t) \/ ReadCopy(t)
    <3>1. UNCHANGED <<ring, result>>
      BY <2>5 DEF Open, Lock, ReadCopy
    <3>2. queue' = queue
      BY <3>1 DEF ring, queue
    <3>3. call' = call
      <4>1. \A u \in Task : /\ pc'[u] \in Putting <=> pc[u] \in Putting
                            /\ pc'[u] \in Getting <=> pc[u] \in Getting
                            /\ pc[u] \in Putting => arg'[u] = arg[u]
        BY <1>1, <2>5 DEF Open, Lock, ReadCopy, Goto, Waiting, Putting, Getting, Writing,
                          Reading, CallType
      <4> QED BY <4>1, CallSame
    <3> QED BY <2>1, <3>1, <3>2, <3>3
  <2>6. CASE Release(t)
    <3>1. UNCHANGED <<ring, arg>>
      BY <2>6 DEF Release
    <3>2. queue' = queue
      BY <3>1 DEF ring, queue
    <3>3. call' = call
      <4>1. \A u \in Task : /\ pc'[u] \in Putting <=> pc[u] \in Putting
                            /\ pc'[u] \in Getting <=> pc[u] \in Getting
                            /\ pc[u] \in Putting => arg'[u] = arg[u]
        BY <1>1, <2>6 DEF Release, Putting, Getting, Writing, Reading, CallType
      <4> QED BY <4>1, CallSame
    <3>4. call[t] = Queue!NoCall
      BY <2>6, CallMap DEF Release, Putting, Getting, Writing, Reading
    <3>5. result' = [result EXCEPT ![t] = <<"none">>]
      BY <2>6 DEF Release, Code
    <3>6. Queue!Leave(t)
      BY <2>1, <3>2, <3>3, <3>4, <3>5 DEF Queue!Leave
    <3> QED BY <2>4, <3>6
  <2>7. CASE CallWrite(t) \/ CallRead(t)
    <3>1. UNCHANGED ring
      BY <2>7 DEF CallWrite, CallRead
    <3>2. queue' = queue
      BY <3>1 DEF ring, queue
    <3>3. call[t] = Queue!NoCall
      BY <2>7, CallMap DEF CallWrite, CallRead, Putting, Getting, Writing, Reading
    <3>4. \A u \in Task \ {t} : pc'[u] = pc[u] /\ arg'[u] = arg[u]
      BY <1>1, <2>7 DEF CallWrite, CallRead, Goto, CallType
    <3>5. call' = [call EXCEPT ![t] = call'[t]]
      BY <3>4, CallMoves
    <3>6. result' = [result EXCEPT ![t] = <<"none">>]
      BY <2>7 DEF CallWrite, CallRead, Code
    <3>7. call'[t] = Queue!GetCall \/ \E m \in Msg : call'[t] = Queue!PutCall(m)
      <4>1. CASE CallRead(t)
        <5>1. pc'[t] = "r_lock"
          BY <1>1, <4>1 DEF CallRead, Goto, CallType
        <5> QED BY <5>1, CallMap DEF Getting
      <4>2. CASE CallWrite(t)
        <5>1. pc'[t] = "w_lock" /\ arg'[t] \in Msg
          BY <1>1, <4>2 DEF CallWrite, Goto, CallType
        <5> QED BY <5>1, CallMap DEF Putting
      <4> QED BY <2>7, <4>1, <4>2
    <3>8. Queue!Invoke(t)
      BY <2>1, <3>2, <3>3, <3>5, <3>6, <3>7 DEF Queue!Invoke
    <3> QED BY <2>4, <3>8
  <2>8. CASE \/ WriteCheck(t) /\ ~Returns(t, Code("full"))
             \/ ReadCheck(t) /\ ~Returns(t, Code("empty"))
             \/ WriteCopy(t)
    <3>1. UNCHANGED <<read_index, msg_count, arg, result>>
      BY <2>8 DEF WriteCheck, ReadCheck, WriteCopy, ring
    <3>2. queue' = queue
      <4>1. CASE ~WriteCopy(t)
        BY <2>8, <4>1 DEF WriteCheck, ReadCheck, ring, queue
      <4>2. CASE WriteCopy(t)
        BY <2>2, <2>3, <4>2, FillHides DEF WriteCopy
      <4> QED BY <4>1, <4>2
    <3>3. call' = call
      <4>1. \A u \in Task : /\ pc'[u] \in Putting <=> pc[u] \in Putting
                            /\ pc'[u] \in Getting <=> pc[u] \in Getting
                            /\ pc[u] \in Putting => arg'[u] = arg[u]
        BY <1>1, <2>8, <3>1 DEF WriteCheck, ReadCheck, WriteCopy, Goto, Putting, Getting,
                          Writing, Reading, CallType
      <4> QED BY <4>1, CallSame
    <3> QED BY <2>1, <3>1, <3>2, <3>3
  <2>9. CASE \/ WriteCheck(t) /\ Returns(t, Code("full"))
             \/ WriteFault(t)
    <3>1. call[t].op = "put"
      <4>1. call[t] = Queue!PutCall(arg[t])
        BY <2>9, CallMap DEF WriteCheck, WriteFault, Putting, Writing
      <4> QED BY <4>1 DEF Queue!PutCall
    <3>2. CASE WriteFault(t)
      <4>1. queue' = queue
        BY <2>2, <2>3, <3>2, FillHides DEF WriteFault
      <4>2. Queue!Reply(t, <<"fault">>)
        BY <1>1, <2>1, <3>2, ReturnReplies DEF WriteFault, Code
      <4>3. Queue!PutFails(t)
        BY <3>1, <4>1, <4>2 DEF Queue!PutFails
      <4> QED BY <2>4, <4>3
    <3>3. CASE WriteCheck(t) /\ Returns(t, Code("full"))
      <4>1. Full /\ UNCHANGED ring
        <5>1. ~(pc' = [pc EXCEPT ![t] = "w_copy"])
          BY <1>1, <3>3 DEF Returns, Goto, CallType
        <5> QED BY <3>3, <5>1 DEF WriteCheck, Goto
      <4>2. queue' = queue
        BY <4>1 DEF ring, queue
      <4>3. Len(queue) = MAX_MSGS
        BY <2>2, <4>1, SizeAssumption, QueueMap DEF Full, Sound
      <4>4. Queue!Reply(t, <<"full">>)
        BY <1>1, <2>1, <3>3, ReturnReplies DEF Code
      <4>5. Queue!PutFails(t)
        BY <3>1, <4>2, <4>3, <4>4 DEF Queue!PutFails
      <4> QED BY <2>4, <4>5
    <3> QED BY <2>9, <3>2, <3>3
  <2>10. CASE WriteCommit(t)
    BY <2>2, <2>3, <2>4, <2>10, CommitPuts DEF WriteCommit
  <2>11. CASE ReadCheck(t) /\ Returns(t, Code("empty"))
    <3>1. msg_count = 0 /\ UNCHANGED ring
      <4>1. ~(pc' = [pc EXCEPT ![t] = "r_copy"])
        BY <1>1, <2>11 DEF Returns, Goto, CallType
      <4> QED BY <2>11, <4>1 DEF ReadCheck, Goto
    <3>2. queue' = queue /\ queue = <<>>
      BY <3>1 DEF ring, queue
    <3>3. Queue!Reply(t, <<"empty">>)
      BY <1>1, <2>1, <2>11, ReturnReplies DEF Code
    <3>4. call[t] = Queue!GetCall
      BY <2>11, CallMap DEF ReadCheck, Getting, Reading
    <3>5. Queue!GetNothing(t)
      BY <3>2, <3>3, <3>4 DEF Queue!GetNothing
    <3> QED BY <2>4, <3>5
  <2>12. CASE ReadCommit(t)
    BY <2>2, <2>3, <2>4, <2>12, CommitGets DEF ReadCommit
  <2>13. CASE WriteCheck(t)
    BY <2>8, <2>9, <2>13
  <2>14. CASE ReadCheck(t)
    BY <2>8, <2>11, <2>14
  <2>15. CASE WriteFault(t) \/ WriteCopy(t) \/ ReadCopy(t)
    BY <2>5, <2>8, <2>9, <2>15
  <2> QED
    BY <1>4, <2>5, <2>6, <2>7, <2>10, <2>12, <2>13, <2>14, <2>15 DEF Work
<1> QED BY <1>2, <1>3, <1>4 DEF Next

\* QueueSpec of the run, for every number of tasks, payloads and slots: until
\* the mutex is taken from its owner the device is a linearisable bounded queue.
THEOREM ImplementsQueue == Spec => QueueSpec
<1>1. Init => IInv /\ PieceHeld /\ Queue!Init
  BY InitIInv, InitMaps DEF Init, PieceHeld
<1>2. IInv /\ PieceHeld /\ [Next]_vars => (IInv /\ PieceHeld)'
  BY TypePreserved, FirstMutexPreserved, ExclusionPreserved, RingPreserved, PiecePreserved
     DEF IInv
<1> QED BY <1>1, <1>2, StepMaps, PTL DEF Spec, QueueSpec, Queue!Spec
=============================================================================
