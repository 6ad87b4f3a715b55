--------------------------- MODULE TextDeviceProofs ---------------------------
(***************************************************************************)
(* The text-keeping devices, for any number of users, texts, cells and any *)
(* set of drivers whose features fit together.                             *)
(***************************************************************************)
EXTENDS TextDevice, WellFoundedInduction, TLAPS

Places == {"user", "w_lock", "w_copy", "w_end", "w_commit", "wake", "r_wait",
           "asleep", "r_lock", "r_span", "r_copy", "r_done",
           "ledon?", "ledoff?", "toggle?",
           "on", "on_state", "off", "off_state", "store_0", "store_1", "set_0", "set_1"}
Writer(t) == pc[t] \in {"w_copy", "w_end", "w_commit"}
Reader(t) == pc[t] \in {"r_span", "r_copy", "r_done"}
Value == Text \cup {NUL, Greeting, Beyond}

\* left is a number only for a writer and for a reader whose text is sound.
Typed == /\ dev \in DOMAIN Device /\ lock \in Task \cup {None}
         /\ pc \in [Task -> Places] /\ text \in [Task -> Text \cup {NUL}]
         /\ left = [t \in Task |-> left[t]]
         /\ asked \in [Task -> Nat] /\ off \in [Task -> Nat] /\ got \in [Task -> Seq(Value)]
         /\ buffer \in [Cell -> Text \cup {NUL, Greeting}] /\ buffer_len \in Nat
         /\ write_count \in 0 .. MAX_COUNT /\ data_available \in {0, 1}
         /\ level \in {0, 1} /\ led_state \in {0, 1}
         /\ disturbed \subseteq Task /\ hasty \subseteq Task

\* A writer has a text, and the cells it has still to copy.
Working == \A t \in Task : /\ pc[t] = "w_lock" \/ Writer(t) => text[t] \in Text
                           /\ pc[t] = "w_lock" => left[t] = Length[text[t]]
                           /\ pc[t] = "w_copy" => left[t] \in 1 .. Length[text[t]]

\* The handlers that take the mutex have it.
Mutex == \A t \in Task : /\ Has("write lock") /\ Writer(t) => lock = t
                         /\ Has("read lock") /\ Reader(t) => lock = t

\* Writers that do not overlap are one at a time.
Alone == /\ Has("write lock") => ~overlap
         /\ ~overlap => \A t, u \in Task : Writer(t) /\ Writer(u) => t = u

\* Of both sides under the mutex, or of a reader nobody disturbed: it is not
\* beside a writer.
Both == {"write lock", "read lock"} \subseteq Device[dev]
Safe(t) == Reader(t) /\ (Both \/ t \notin disturbed)
Undisturbed == \A t \in Task : Safe(t) => \A u \in Task : ~Writer(u)

\* A writer on its own has its text in the buffer as far as it has come; where
\* a fault was overlooked, up to a terminator.
Prefix(x, n) == \A i \in 1 .. n : buffer[i] = x
Progress == ~overlap => \A t \in Task :
    /\ pc[t] = "w_copy" => Prefix(text[t], Length[text[t]] - left[t])
    /\ pc[t] = "w_end" => \E n \in 0 .. Length[text[t]] :
          /\ Prefix(text[t], n)
          /\ n = Length[text[t]] \/ (Has("blind") /\ buffer[n + 1] = NUL)
    /\ pc[t] = "w_commit" => \E n \in 0 .. Length[text[t]] :
          /\ Prefix(text[t], n) /\ buffer[n + 1] = NUL
          /\ n = Length[text[t]] \/ Has("blind")

\* At rest the buffer holds one text and its terminator, unless it is spoilt.
Clean == \E x \in Text \cup {Greeting}, n \in 0 .. BUF_LEN - 1 :
            /\ Prefix(x, n) /\ buffer[n + 1] = NUL
            /\ Has("length") => buffer_len <= n
AtRest == (\A t \in Task : ~Writer(t)) /\ (~spoilt \/ Both) => Clean

\* What a safe reader has, and what it is going to copy, is of one text.
Ahead(t) == IF pc[t] \in {"r_span", "r_copy"} THEN left[t] ELSE 0
Copied == /\ \A t \in Task : ~Reader(t) => got[t] = <<>>
          /\ \A t \in Task : Safe(t) =>
                /\ Ahead(t) \in Nat /\ (pc[t] # "r_done" => Ahead(t) # 0)
                /\ pc[t] = "r_span" => /\ Has("length") /\ off[t] < buffer_len
                                       /\ left[t] = Least(asked[t], buffer_len - off[t])
                /\ \E x \in Text \cup {Greeting} :
                      /\ \A i \in 1 .. Len(got[t]) : got[t][i] = x
                      /\ \A i \in 1 .. Ahead(t) : /\ off[t] + Len(got[t]) + i \in Cell
                                                  /\ buffer[off[t] + Len(got[t]) + i] = x

\* Once its text is taken a waiting device is empty, and whoever is past the
\* wait got there in haste.
Handed == Has("waits") /\ taken =>
             /\ data_available = 0
             /\ \A t \in Task : pc[t] \in {"r_lock", "r_span", "r_copy", "r_done"} => t \in hasty

\* The count tells of a text when nobody is writing.
Counted == Has("counts") /\ ~spoilt /\ (\A t \in Task : ~Writer(t)) =>
              (write_count > 0 <=> buffer[1] # NUL)

\* A writer alone with the LED has set what its place says.
Lit == ~together =>
    \/ level = led_state /\ \A t \in Task : pc[t] \notin LedPlaces
    \/ \E t \in Task : /\ pc[t] \in LedPlaces /\ \A u \in Task \ {t} : pc[u] \notin LedPlaces
                       /\ pc[t] = "on_state" => level = 1
                       /\ pc[t] = "off_state" => level = 0
                       /\ pc[t] = "set_0" => led_state = 0
                       /\ pc[t] = "set_1" => led_state = 1

IInv == /\ Typed /\ Working /\ Mutex /\ Alone /\ Undisturbed /\ Progress /\ AtRest /\ Copied
        /\ Handed /\ Counted /\ Lit

Step(t) == \/ Write(t) \/ Begin(t) \/ CopyIn(t) \/ WriteFault(t) \/ Terminate(t) \/ Commit(t)
           \/ WakeUp(t) \/ Search(t) \/ Obey(t)
           \/ Read(t) \/ Ready(t) \/ Sleep(t) \/ GiveUp(t) \/ Signal(t) \/ Measure(t) \/ Span(t)
           \/ CopyOut(t) \/ ReadFault(t) \/ Done(t) \/ Reopen(t) \/ Reset(t)
-----------------------------------------------------------------------------
LEMMA LengthType == /\ BUF_LEN \in Nat \ {0, 1} /\ MAX_COUNT \in Nat \ {0}
                    /\ \A x \in Text : /\ Length[x] \in Nat /\ Length[x] >= 1
                                      /\ Length[x] + 1 <= BUF_LEN
BY BufferAssumption

LEMMA AfterWritePlace == AfterWrite \in {"wake", "ledon?", "user"}
BY DEF AfterWrite, Question

\* A search ends the write or goes on to a command.
LEMMA SearchPlace ==
    ASSUME Typed, NEW t \in Task, Search(t)
    PROVE  /\ pc' = [pc EXCEPT ![t] = pc'[t]] /\ pc[t] \in {"ledon?", "ledoff?", "toggle?"}
           /\ \/ /\ pc'[t] \in {"on", "off", "store_0", "store_1"}
                 /\ together' <=> At(LedPlaces) # {}
              \/ pc'[t] \in {"ledoff?", "toggle?", "user"} /\ together' = together
<1> PICK k \in 1 .. 3, found \in BOOLEAN :
       /\ pc[t] = Question[k]
       /\ pc' = [pc EXCEPT ![t] =
                   IF found THEN <<"on", "off", IF led_state = 1 THEN "store_0" ELSE "store_1">>[k]
                            ELSE <<"ledoff?", "toggle?", "user">>[k]]
       /\ together' = IF found THEN At(LedPlaces) # {} ELSE together
  BY DEF Search
<1> DEFINE yes == <<"on", "off", IF led_state = 1 THEN "store_0" ELSE "store_1">>[k]
           no == <<"ledoff?", "toggle?", "user">>[k]
<1>1. pc[t] \in {"ledon?", "ledoff?", "toggle?"}
  BY DEF Question
<1>2. yes \in {"on", "off", "store_0", "store_1"} /\ no \in {"ledoff?", "toggle?", "user"}
  OBVIOUS
<1>3. CASE found
  <2>1. pc' = [pc EXCEPT ![t] = yes] /\ (together' <=> At(LedPlaces) # {})
    BY <1>3
  <2> HIDE DEF yes
  <2>2. pc'[t] = yes
    BY <2>1 DEF Typed
  <2> QED BY <1>1, <1>2, <2>1, <2>2
<1>4. CASE ~found
  <2>1. pc' = [pc EXCEPT ![t] = no] /\ together' = together
    BY <1>4
  <2> HIDE DEF no
  <2>2. pc'[t] = no
    BY <2>1 DEF Typed
  <2> QED BY <1>1, <1>2, <2>1, <2>2
<1> QED
  BY <1>3, <1>4

\* The second look at the length ends the read or goes on to the copy.
LEMMA SpanPlace ==
    ASSUME Typed, NEW t \in Task, Span(t)
    PROVE  /\ pc[t] = "r_span" /\ pc'[t] \in {"r_done", "r_copy"}
           /\ \E p \in {"r_done", "r_copy"} : pc' = [pc EXCEPT ![t] = p]
           /\ pc' \in [Task -> Places]
           /\ \E n : left' = [left EXCEPT ![t] = n]
           /\ UNCHANGED <<dev, data, lock, led, text, reader, spoilt, overlap, taken>>
<1>1. PICK n : /\ Go(t, "r_span", IF n = 0 THEN "r_done" ELSE "r_copy")
               /\ left' = [left EXCEPT ![t] = n]
               /\ UNCHANGED <<dev, data, lock, led, text, reader, spoilt, overlap, taken>>
  BY DEF Span
<1>2. \E p \in {"r_done", "r_copy"} : Go(t, "r_span", p)
  BY <1>1
<1>3. PICK p \in {"r_done", "r_copy"} : Go(t, "r_span", p)
  BY <1>2
<1>4. pc' \in [Task -> Places]
  BY <1>3 DEF Go, Typed, Places
<1> QED
  BY <1>1, <1>3, <1>4 DEF Go, Typed

\* A step moves nobody else, but for the sleepers it wakes.
LEMMA OthersStay ==
    ASSUME Typed, NEW t \in Task, Step(t), NEW u \in Task, u # t
    PROVE  /\ pc'[u] = pc[u] \/ (pc[u] = "asleep" /\ pc'[u] = "r_wait")
           /\ text'[u] = text[u] /\ left'[u] = left[u]
           /\ asked'[u] = asked[u] /\ got'[u] = got[u] /\ off'[u] = off[u]
<1> USE DEF Typed, Go, data, led, reader
<1>1. CASE Write(t) \/ Begin(t) \/ CopyIn(t)
  BY <1>1 DEF Write, Begin, CopyIn
<1>2. CASE WriteFault(t) \/ Terminate(t) \/ Commit(t)
  BY <1>2 DEF WriteFault, Terminate, Commit
<1>3. CASE WakeUp(t)
  BY <1>3 DEF WakeUp
<1>4. CASE Search(t)
  BY <1>4, SearchPlace DEF Search
<1>5. CASE Obey(t)
  BY <1>5 DEF Obey, SetPin, SetState
<1>6. CASE Read(t) \/ Ready(t) \/ Sleep(t) \/ GiveUp(t) \/ Signal(t)
  BY <1>6 DEF Read, Ready, Sleep, GiveUp, Signal
<1>7. CASE Measure(t) \/ Span(t) \/ CopyOut(t)
  BY <1>7 DEF Measure, Span, CopyOut
<1>8. CASE ReadFault(t) \/ Done(t)
  BY <1>8 DEF ReadFault, Done
<1>9. CASE Reopen(t) \/ Reset(t)
  BY <1>9 DEF Reopen, Reset, Clear
<1> QED
  BY <1>1, <1>2, <1>3, <1>4, <1>5, <1>6, <1>7, <1>8, <1>9 DEF Step

LEMMA TypedStep == ASSUME Typed, Working, NEW t \in Task, Step(t) PROVE Typed'
<1> USE LengthType DEF Typed, Places, Go, data, led, reader, Leave, Take, Reading, At
<1>1. CASE Write(t) \/ Begin(t)
  <2>1. CASE Write(t)
    <3>1. pc' \in [Task -> Places] /\ text' \in [Task -> Text \cup {NUL}]
      BY <2>1 DEF Write
    <3>2. left' = [u \in Task |-> left'[u]]
      BY <2>1 DEF Write
    <3> QED BY <2>1, <3>1, <3>2 DEF Write
  <2>2. CASE Begin(t)
    <3>1. pc' \in [Task -> Places] /\ lock' \in Task \cup {None} /\ disturbed' \subseteq Task
      BY <2>2 DEF Begin
    <3> QED BY <2>2, <3>1 DEF Begin
  <2> QED BY <1>1, <2>1, <2>2
<1>2. CASE CopyIn(t)
  <2>1. text[t] \in Text /\ Length[text[t]] - left[t] + 1 \in Cell
    BY SMTT(30), <1>2 DEF CopyIn, Working, Writer, Cell
  <2> QED BY <1>2, <2>1 DEF CopyIn
<1>3. CASE WriteFault(t)
  BY <1>3 DEF WriteFault
<1>4. CASE Terminate(t)
  BY <1>4 DEF Terminate
<1>5. CASE Commit(t)
  <2>1. text[t] \in Text /\ pc[t] = "w_commit"
    BY <1>5 DEF Commit, Working, Writer
  <2>2. write_count' \in 0 .. MAX_COUNT /\ data_available' \in {0, 1} /\ buffer_len' \in Nat
    BY <1>5, <2>1 DEF Commit, Least
  <2>3. pc' \in [Task -> Places] /\ text' \in [Task -> Text \cup {NUL}] /\ lock' \in Task \cup {None}
    BY <1>5, AfterWritePlace DEF Commit
  <2> QED BY <1>5, <2>2, <2>3 DEF Commit
<1>6. CASE WakeUp(t)
  BY <1>6 DEF WakeUp
<1>7. CASE Search(t)
  <2>1. pc' \in [Task -> Places]
    BY SMTT(30), <1>7 DEF Search, Question
  <2> QED BY ZenonT(60), <1>7, <2>1 DEF Search
<1>8. CASE Obey(t)
  BY <1>8 DEF Obey, SetPin, SetState
<1>9. CASE Read(t)
  BY SMTT(30), <1>9 DEF Read
<1>10. CASE Ready(t) \/ Sleep(t) \/ GiveUp(t) \/ Signal(t)
  <2>1. CASE Ready(t) \/ Sleep(t)
    BY <2>1 DEF Ready, Sleep
  <2>2. CASE GiveUp(t)
    BY <2>2 DEF GiveUp
  <2>3. CASE Signal(t)
    BY <2>3 DEF Signal
  <2> QED BY <1>10, <2>1, <2>2, <2>3
<1>11. CASE Measure(t)
  BY <1>11 DEF Measure
<1>12. CASE Span(t)
  <2>1. pc' \in [Task -> Places]
    BY <1>12, SpanPlace
  <2>2. left' = [u \in Task |-> left'[u]]
    BY <1>12, SpanPlace
  <2>3. UNCHANGED <<dev, data, lock, led, text, reader, spoilt, overlap, taken>>
    BY <1>12, SpanPlace
  <2> QED BY <2>1, <2>2, <2>3
<1>13. CASE CopyOut(t)
  <2> DEFINE i == off[t] + Len(got[t]) + 1
             v == IF i \in Cell THEN buffer[i] ELSE Beyond
  <2>1. v \in Value
    BY DEF Value
  <2>2. got' = [got EXCEPT ![t] = Append(got[t], v)]
    BY <1>13 DEF CopyOut
  <2>3. got' \in [Task -> Seq(Value)]
    BY <2>1, <2>2
  <2> QED BY <1>13, <2>3 DEF CopyOut
<1>14. CASE ReadFault(t)
  BY <1>14 DEF ReadFault
<1>15. CASE Done(t)
  <2>1. off' \in [Task -> Nat]
    BY <1>15 DEF Done
  <2>2. data_available' \in {0, 1} /\ hasty' \subseteq Task /\ disturbed' \subseteq Task
    BY <1>15 DEF Done, TakenAway, At
  <2>3. /\ pc' \in [Task -> Places] /\ lock' \in Task \cup {None} /\ asked' \in [Task -> Nat]
        /\ left' = [u \in Task |-> left'[u]]
    BY <1>15 DEF Done
  <2>4. got' \in [Task -> Seq(Value)]
    BY <1>15 DEF Done
  <2>5. UNCHANGED <<dev, buffer, buffer_len, write_count, level, led_state, text>>
    BY <1>15 DEF Done
  <2> QED BY <2>1, <2>2, <2>3, <2>4, <2>5
<1>16. CASE Reopen(t)
  BY <1>16 DEF Reopen
<1>17. CASE Reset(t)
  BY <1>17 DEF Reset, Clear
<1> QED
  BY <1>1, <1>2, <1>3, <1>4, <1>5, <1>6, <1>7, <1>8, <1>9, <1>10, <1>11, <1>12, <1>13, <1>14,
     <1>15, <1>16, <1>17 DEF Step

LEMMA WorkingStep == ASSUME Typed, Working, NEW t \in Task, Step(t) PROVE Working'
<1> DEFINE Has_(u) == /\ pc[u] = "w_lock" \/ Writer(u) => text[u] \in Text
                      /\ pc[u] = "w_lock" => left[u] = Length[text[u]]
                      /\ pc[u] = "w_copy" => left[u] \in 1 .. Length[text[u]]
<1>1. \A u \in Task \ {t} : Has_(u)'
  BY OthersStay DEF Working, Writer
<1> SUFFICES Has_(t)'
  BY <1>1 DEF Working
<1> USE LengthType DEF Typed, Go, Working, Writer
<1>2. CASE Write(t)
  BY <1>2 DEF Write
<1>3. CASE Begin(t)
  <2>1. pc[t] = "w_lock" /\ pc'[t] = "w_copy" /\ UNCHANGED <<text, left>>
    BY <1>3 DEF Begin
  <2>2. text[t] \in Text /\ left[t] = Length[text[t]] /\ Length[text[t]] \in 1 .. Length[text[t]]
    BY <2>1
  <2> QED BY <2>1, <2>2
<1>4. CASE CopyIn(t)
  BY SMTT(30), <1>4 DEF CopyIn
<1>5. CASE WriteFault(t) \/ Terminate(t)
  BY <1>5 DEF WriteFault, Terminate
<1>6. ASSUME pc'[t] \notin {"w_lock", "w_copy", "w_end", "w_commit"} PROVE Has_(t)'
  BY <1>6
<1>7. CASE Commit(t) \/ WakeUp(t)
  BY <1>6, <1>7, AfterWritePlace DEF Commit, WakeUp
<1>8. CASE Search(t) \/ Obey(t)
  <2>1. CASE Search(t)
    BY <1>6, SearchPlace, <2>1 DEF Search, LedPlaces
  <2>2. CASE Obey(t)
    BY <1>6, <2>2 DEF Obey, SetPin, SetState, LedPlaces
  <2> QED BY <1>8, <2>1, <2>2
<1>9. CASE Read(t) \/ Ready(t) \/ Sleep(t) \/ GiveUp(t) \/ Signal(t) \/ Measure(t) \/ Span(t)
  <2>1. CASE Read(t)
    BY <1>6, <2>1 DEF Read
  <2>2. CASE Ready(t)
    BY <1>6, <2>2 DEF Ready
  <2>3. CASE Sleep(t)
    BY <1>6, <2>3 DEF Sleep
  <2>4. CASE GiveUp(t)
    BY <1>6, <2>4 DEF GiveUp
  <2>5. CASE Signal(t)
    BY <1>6, <2>5 DEF Signal
  <2>6. CASE Measure(t)
    BY <1>6, <2>6 DEF Measure
  <2>7. CASE Span(t)
    BY <1>6, <2>7 DEF Span
  <2> QED BY <1>9, <2>1, <2>2, <2>3, <2>4, <2>5, <2>6, <2>7
<1>10. CASE CopyOut(t) \/ ReadFault(t) \/ Done(t) \/ Reopen(t) \/ Reset(t)
  BY <1>6, <1>10 DEF CopyOut, ReadFault, Done, Reopen, Reset, Clear
<1> QED
  BY <1>2, <1>3, <1>4, <1>5, <1>7, <1>8, <1>9, <1>10 DEF Step

LEMMA MutexStep == ASSUME Typed, Mutex, NEW t \in Task, Step(t) PROVE Mutex'
<1>0. /\ None \notin Task
      /\ \A u \in Task \ {t} : (Writer(u)' <=> Writer(u)) /\ (Reader(u)' <=> Reader(u))
  BY NameAssumption, OthersStay DEF Writer, Reader
<1> USE <1>0 DEF Typed, Go, Mutex, Writer, Reader, Has, Take, Leave
<1>1. ASSUME UNCHANGED <<dev, lock>>, Writer(t)' => Writer(t), Reader(t)' => Reader(t) PROVE Mutex'
  BY <1>1
<1>2. CASE Write(t) \/ CopyIn(t) \/ Terminate(t)
  BY <1>1, <1>2 DEF Write, CopyIn, Terminate
<1>3. CASE Begin(t) \/ Measure(t)
  <2>1. CASE Begin(t)
    <3>1. pc'[t] = "w_copy" /\ dev' = dev
      BY <2>1 DEF Begin
    <3>2. CASE Has("write lock")
      <4>1. lock = None /\ lock' = t
        BY <2>1, <3>2 DEF Begin
      <4> QED BY <3>1, <4>1
    <3>3. CASE ~Has("write lock")
      <4>1. lock' = lock
        BY <2>1, <3>3 DEF Begin
      <4> QED BY <3>1, <3>3, <4>1
    <3> QED BY <3>2, <3>3
  <2>2. CASE Measure(t)
    BY <2>2 DEF Measure
  <2> QED BY <1>3, <2>1, <2>2
<1>4. CASE WriteFault(t)
  BY ZenonT(60), <1>4 DEF WriteFault
<1>5. CASE Commit(t)
  BY <1>5, AfterWritePlace DEF Commit
<1>6. CASE WakeUp(t)
  BY <1>1, <1>6 DEF WakeUp
<1>7. CASE Search(t)
  BY <1>1, <1>7, SearchPlace DEF Search, LedPlaces
<1>8. CASE Obey(t)
  BY ZenonT(60), <1>1, <1>8 DEF Obey, SetPin, SetState
<1>9. CASE Read(t) \/ Ready(t) \/ Sleep(t) \/ GiveUp(t) \/ Signal(t)
  <2>1. CASE Read(t)
    BY <1>1, <2>1 DEF Read
  <2>2. CASE Ready(t)
    BY <1>1, <2>2 DEF Ready
  <2>3. CASE Sleep(t)
    BY <1>1, <2>3 DEF Sleep
  <2>4. CASE GiveUp(t)
    BY <1>1, <2>4 DEF GiveUp
  <2>5. CASE Signal(t)
    BY <1>1, <2>5 DEF Signal
  <2> QED BY <1>9, <2>1, <2>2, <2>3, <2>4, <2>5
<1>10. CASE Span(t) \/ CopyOut(t) \/ ReadFault(t)
  <2>1. CASE Span(t)
    BY <1>1, <2>1, SpanPlace
  <2>2. CASE CopyOut(t)
    BY <1>1, <2>2 DEF CopyOut
  <2>3. CASE ReadFault(t)
    BY <1>1, <2>3 DEF ReadFault
  <2> QED BY <1>10, <2>1, <2>2, <2>3
<1>11. CASE Done(t)
  BY <1>11 DEF Done
<1>12. CASE Reopen(t) \/ Reset(t)
  BY <1>1, <1>12 DEF Reopen, Reset, Clear
<1> QED
  BY <1>2, <1>3, <1>4, <1>5, <1>6, <1>7, <1>8, <1>9, <1>10, <1>11, <1>12 DEF Step

\* Who comes among the writers or the readers, and how the two sets change.
LEMMA Entering ==
    ASSUME Typed, NEW t \in Task, Step(t)
    PROVE  /\ \A u \in Task \ {t} : (Writer(u)' <=> Writer(u)) /\ (Reader(u)' <=> Reader(u))
           /\ Writer(t)' /\ ~Writer(t) => Begin(t)
           /\ Reader(t)' /\ ~Reader(t) => Measure(t)
           /\ dev' = dev
<1> USE DEF Typed, Go, Writer, Reader
<1>1. \A u \in Task \ {t} : (Writer(u)' <=> Writer(u)) /\ (Reader(u)' <=> Reader(u))
  BY OthersStay
<1>2. CASE Write(t) \/ Begin(t) \/ CopyIn(t) \/ Terminate(t) \/ WriteFault(t)
  BY <1>1, <1>2 DEF Write, Begin, CopyIn, Terminate, WriteFault
<1>3. CASE Commit(t) \/ WakeUp(t)
  BY <1>1, <1>3, AfterWritePlace DEF Commit, WakeUp
<1>4. CASE Search(t)
  BY <1>1, <1>4, SearchPlace DEF Search, LedPlaces
<1>5. CASE Obey(t)
  BY <1>1, <1>5 DEF Obey, SetPin, SetState
<1>6. CASE Read(t) \/ Ready(t) \/ Sleep(t) \/ GiveUp(t) \/ Signal(t)
  BY <1>1, <1>6 DEF Read, Ready, Sleep, GiveUp, Signal
<1>7. CASE Measure(t) \/ Span(t) \/ CopyOut(t)
  <2>1. CASE Measure(t)
    BY <1>1, <2>1 DEF Measure
  <2>2. CASE Span(t)
    BY <1>1, <2>2, SpanPlace
  <2>3. CASE CopyOut(t)
    BY <1>1, <2>3 DEF CopyOut
  <2> QED BY <1>7, <2>1, <2>2, <2>3
<1>8. CASE ReadFault(t) \/ Done(t) \/ Reopen(t) \/ Reset(t)
  BY <1>1, <1>8 DEF ReadFault, Done, Reopen, Reset, Clear
<1> QED
  BY <1>2, <1>3, <1>4, <1>5, <1>6, <1>7, <1>8 DEF Step

\* Which steps touch the buffer and its history, and who leaves disturbed.
LEMMA BufferStays ==
    ASSUME NEW t \in Task, Step(t), ~CopyIn(t), ~WriteFault(t), ~Terminate(t), ~Commit(t), ~Reset(t)
    PROVE  /\ UNCHANGED <<buffer, buffer_len, spoilt, write_count>>
           /\ overlap' = overlap \/ Begin(t)
<1> USE DEF data
<1>1. CASE Write(t) \/ Begin(t) \/ WakeUp(t) \/ Search(t)
  BY <1>1 DEF Write, Begin, WakeUp, Search
<1>2. CASE Obey(t)
  BY <1>2 DEF Obey, SetPin, SetState
<1>3. CASE Read(t) \/ Ready(t) \/ Sleep(t) \/ GiveUp(t) \/ Signal(t)
  BY <1>3 DEF Read, Ready, Sleep, GiveUp, Signal
<1>4. CASE Measure(t) \/ Span(t) \/ CopyOut(t)
  BY <1>4 DEF Measure, Span, CopyOut
<1>5. CASE ReadFault(t) \/ Done(t) \/ Reopen(t)
  BY <1>5 DEF ReadFault, Done, Reopen
<1> QED
  BY <1>1, <1>2, <1>3, <1>4, <1>5 DEF Step

LEMMA OverlapStays ==
    ASSUME NEW t \in Task, Step(t), ~Begin(t) PROVE overlap' = overlap
BY BufferStays DEF CopyIn, WriteFault, Terminate, Commit, Reset, Clear

LEMMA DisturbedGrows ==
    ASSUME NEW t \in Task, Step(t), NEW u \in disturbed PROVE u \in disturbed' \/ (u = t /\ Done(t))
<1> USE DEF reader
<1>1. CASE Write(t) \/ Begin(t) \/ CopyIn(t) \/ WriteFault(t) \/ Terminate(t) \/ Commit(t)
  BY <1>1 DEF Write, Begin, CopyIn, WriteFault, Terminate, Commit
<1>2. CASE WakeUp(t) \/ Search(t) \/ Obey(t)
  BY <1>2 DEF WakeUp, Search, Obey, SetPin, SetState
<1>3. CASE Read(t) \/ Ready(t) \/ Sleep(t) \/ GiveUp(t) \/ Signal(t)
  BY <1>3 DEF Read, Ready, Sleep, GiveUp, Signal
<1>4. CASE Measure(t) \/ Span(t) \/ CopyOut(t)
  BY <1>4 DEF Measure, Span, CopyOut
<1>5. CASE ReadFault(t) \/ Done(t) \/ Reopen(t) \/ Reset(t)
  BY <1>5 DEF ReadFault, Done, Reopen, Reset, Clear
<1> QED
  BY <1>1, <1>2, <1>3, <1>4, <1>5 DEF Step

\* A writer under the mutex keeps everybody else who takes it out.
LEMMA Excluded == ASSUME Typed, Mutex, lock = None
                  PROVE  /\ Has("write lock") => \A u \in Task : ~Writer(u)
                         /\ Has("read lock") => \A u \in Task : ~Reader(u)
BY NameAssumption DEF Mutex

LEMMA AloneStep == ASSUME Typed, Mutex, Alone, NEW t \in Task, Step(t) PROVE Alone'
<1>1. CASE Begin(t)
  <2>1. Has("write lock") => \A u \in Task : ~Writer(u)
    BY <1>1, Excluded DEF Begin, Take
  <2>2. overlap' <=> \E u \in Task : Writer(u)
    BY <1>1 DEF Begin, Writing, At, Writer
  <2>3. Has("write lock")' = Has("write lock")
    BY Entering DEF Has
  <2> QED
    BY <2>1, <2>2, <2>3, Entering DEF Alone
<1>2. CASE ~Begin(t)
  <2>1. \A u \in Task : Writer(u)' => Writer(u)
    BY <1>2, Entering
  <2> QED
    BY <1>2, <2>1, OverlapStays, Entering DEF Alone, Has
<1> QED
  BY <1>1, <1>2

LEMMA UndisturbedStep ==
    ASSUME Typed, Mutex, Undisturbed, NEW t \in Task, Step(t) PROVE Undisturbed'
<1> SUFFICES ASSUME NEW u \in Task, Safe(u)', NEW w \in Task, Writer(w)' PROVE FALSE
  BY DEF Undisturbed
<1>0. Both' = Both /\ (Both => Has("write lock") /\ Has("read lock"))
  BY Entering DEF Both, Has
<1>1. CASE Begin(t)
  <2>1. Reader(u)
    BY <1>1, Entering DEF Safe, Begin, Go, Typed, Reader
  <2>2. u \in disturbed'
    BY <1>1, <2>1 DEF Begin, Reading, At, Reader
  <2>3. Both
    BY <1>0, <2>2 DEF Safe
  <2>4. lock = None
    BY <1>0, <1>1, <2>3 DEF Begin, Take
  <2> QED
    BY <1>0, <2>1, <2>3, <2>4, Excluded
<1>2. CASE Measure(t)
  <2>1. Writer(w)
    BY <1>2, Entering DEF Measure, Go, Typed, Writer
  <2>2. CASE u = t
    <3>1. Both => lock = None
      BY <1>0, <1>2 DEF Measure, Take
    <3>2. ~Both
      BY <1>0, <2>1, <3>1, Excluded
    <3>3. t \in disturbed'
      BY <1>2, <2>1 DEF Measure, Writing, At, Writer
    <3> QED BY <1>0, <2>2, <3>2, <3>3 DEF Safe
  <2>3. CASE u # t
    <3>1. Reader(u)
      BY <2>3, Entering DEF Safe
    <3>2. u \in disturbed => u \in disturbed'
      BY <2>3, DisturbedGrows
    <3> QED BY <1>0, <2>1, <3>1, <3>2 DEF Safe, Undisturbed
  <2> QED BY <2>2, <2>3
<1>3. CASE ~Begin(t) /\ ~Measure(t)
  <2>1. Writer(w) /\ Reader(u)
    BY <1>3, Entering DEF Safe
  <2>2. ~(u = t /\ Done(t))
    BY DEF Done, Go, Typed, Safe, Reader
  <2>3. u \in disturbed => u \in disturbed'
    BY <2>2, DisturbedGrows
  <2> QED BY <1>0, <2>1, <2>3 DEF Safe, Undisturbed
<1> QED
  BY <1>1, <1>2, <1>3

LEMMA Features == Typed =>
    /\ Has("waits") => Has("write lock") /\ Has("read lock")
    /\ Has("counts") => Has("write lock") /\ ~Has("blind") /\ ~Has("greets")
    /\ Has("length") => ~Has("write lock") /\ ~Has("blind") /\ ~Has("counts")
BY FeatureAssumption DEF Typed, Has

LEMMA Reserved == /\ NUL \notin Text /\ Beyond \notin Text /\ Greeting \notin Text
                  /\ Greeting # NUL /\ Greeting # Beyond /\ None \notin Task
BY NameAssumption

LEMMA WriterSteps ==
    ASSUME Typed, NEW t \in Task, Step(t), Writer(t)
    PROVE  CopyIn(t) \/ WriteFault(t) \/ Terminate(t) \/ Commit(t)
<1> USE DEF Writer, Go
<1>1. ~Write(t) /\ ~Begin(t) /\ ~WakeUp(t) /\ ~Search(t)
  BY SearchPlace DEF Write, Begin, WakeUp
<1>2. ~Obey(t)
  BY DEF Obey, SetPin, SetState
<1>3. ~Read(t) /\ ~Ready(t) /\ ~Sleep(t) /\ ~GiveUp(t) /\ ~Signal(t) /\ ~Measure(t)
  BY DEF Read, Ready, Sleep, GiveUp, Signal, Measure
<1>4. ~Span(t) /\ ~CopyOut(t) /\ ~ReadFault(t) /\ ~Done(t) /\ ~Reopen(t) /\ ~Reset(t)
  BY DEF Span, CopyOut, ReadFault, Done, Reopen, Reset, Clear
<1> QED
  BY <1>1, <1>2, <1>3, <1>4 DEF Step

LEMMA ProgressStep ==
    ASSUME Typed, Working, Mutex, Alone, Progress, NEW t \in Task, Step(t) PROVE Progress'
<1> DEFINE Far(u) ==
      /\ pc[u] = "w_copy" => Prefix(text[u], Length[text[u]] - left[u])
      /\ pc[u] = "w_end" => \E n \in 0 .. Length[text[u]] :
            /\ Prefix(text[u], n)
            /\ n = Length[text[u]] \/ (Has("blind") /\ buffer[n + 1] = NUL)
      /\ pc[u] = "w_commit" => \E n \in 0 .. Length[text[u]] :
            /\ Prefix(text[u], n) /\ buffer[n + 1] = NUL
            /\ n = Length[text[u]] \/ Has("blind")
<1> SUFFICES ASSUME ~overlap', NEW u \in Task, Writer(u)' PROVE Far(u)'
  BY DEF Progress, Writer
<1>0. dev' = dev
  BY Entering
<1>1. CASE Begin(t)
  <2>1. \A w \in Task : ~Writer(w)
    BY <1>1 DEF Begin, Writing, At, Writer
  <2>2. u = t
    BY <2>1, Entering
  <2>3. pc'[u] = "w_copy" /\ pc[u] = "w_lock" /\ UNCHANGED <<left, text>>
    BY <1>1, <2>2 DEF Begin, Go, Typed
  <2>4. Length[text'[u]] - left'[u] = 0
    BY <2>3, LengthType DEF Working
  <2> QED
    BY <2>3, <2>4 DEF Prefix
<1>2. CASE ~Begin(t)
  <2>1. Writer(u) /\ ~overlap /\ \A w \in Task : Writer(w) => w = u
    BY <1>2, Entering, OverlapStays DEF Alone
  <2>2. Far(u)
    BY <2>1 DEF Progress
  <2>3. text[u] \in Text /\ Length[text[u]] \in Nat \ {0} /\ Length[text[u]] + 1 <= BUF_LEN
    BY <2>1, LengthType DEF Working
  <2> USE LengthType, BufferAssumption
  <2>4. CASE CopyIn(t)
    <3>1. t = u /\ pc[u] = "w_copy" /\ left[u] \in 1 .. Length[text[u]]
      BY <2>1, <2>4 DEF CopyIn, Writer, Working
    <3>2. text' = text /\ left'[u] = left[u] - 1
          /\ pc'[u] = (IF left[u] = 1 THEN "w_end" ELSE "w_copy")
      BY <2>4, <3>1 DEF CopyIn, Typed
    <3>3. \A i \in 1 .. Length[text[u]] - left[u] : buffer[i] = text[u]
      BY <2>2, <3>1 DEF Prefix
    <3>4. buffer' = [buffer EXCEPT ![Length[text[u]] - left[u] + 1] = text[u]]
      BY <2>4, <3>1 DEF CopyIn
    <3>5. \A i \in 1 .. Length[text[u]] - left[u] + 1 : buffer'[i] = text[u]
      <4> SUFFICES ASSUME NEW i \in 1 .. Length[text[u]] - left[u] + 1 PROVE buffer'[i] = text[u]
        OBVIOUS
      <4>1. i \in Cell /\ (i = Length[text[u]] - left[u] + 1 \/ i \in 1 .. Length[text[u]] - left[u])
        BY <2>3, <3>1 DEF Cell
      <4> QED BY <3>3, <3>4, <4>1 DEF Typed
    <3>6. CASE left[u] = 1
      <4>1. pc'[u] = "w_end" /\ Prefix(text[u], Length[text[u]])'
        BY <2>3, <3>2, <3>5, <3>6 DEF Prefix
      <4> QED
        BY <2>3, <3>2, <4>1
    <3>7. CASE left[u] # 1
      BY <2>3, <3>1, <3>2, <3>5, <3>7 DEF Prefix
    <3> QED BY <3>6, <3>7
  <2>5. CASE WriteFault(t)
    <3>1. t = u /\ pc[u] = "w_copy" /\ left[u] \in 1 .. Length[text[u]]
      BY <2>1, <2>5 DEF WriteFault, Writer, Working
    <3>2. Has("blind") /\ pc'[u] = "w_end" /\ text' = text
      BY <2>5, <3>1 DEF WriteFault, Go, Typed, Writer
    <3> DEFINE n == Length[text[u]] - left[u]
    <3>3. n \in 0 .. Length[text[u]] /\ n + 1 \in Cell /\ n + 1 \in n + 1 .. Length[text[u]]
      BY <2>3, <3>1 DEF Cell
    <3>4. buffer' = [i \in Cell |-> IF i \in n + 1 .. Length[text[u]] THEN NUL ELSE buffer[i]]
      BY <2>5, <3>1 DEF WriteFault
    <3>5. buffer'[n + 1] = NUL
      BY <3>3, <3>4
    <3>6. \A i \in 1 .. n : i \in Cell /\ buffer[i] = text[u] /\ i \notin n + 1 .. Length[text[u]]
      BY <2>2, <2>3, <3>1 DEF Prefix, Cell
    <3>7. \A i \in 1 .. n : buffer'[i] = text[u]
      BY <3>4, <3>6
    <3>8. Has("blind")'
      BY <1>0, <3>2 DEF Has
    <3> HIDE DEF n
    <3> QED BY <3>2, <3>3, <3>5, <3>7, <3>8 DEF Prefix
  <2>6. CASE Terminate(t)
    <3>1. t = u /\ pc[u] = "w_end" /\ pc'[u] = "w_commit" /\ text' = text
          /\ buffer' = [buffer EXCEPT ![Length[text[u]] + 1] = NUL]
      BY <2>1, <2>6 DEF Terminate, Writer, Go, Typed
    <3>2. PICK n \in 0 .. Length[text[u]] :
            /\ Prefix(text[u], n)
            /\ n = Length[text[u]] \/ (Has("blind") /\ buffer[n + 1] = NUL)
      BY <2>2, <3>1
    <3>3. Length[text[u]] + 1 \in Cell /\ n \in Nat /\ n + 1 \in Cell
      BY <2>3 DEF Cell
    <3>4. \A i \in 1 .. n : buffer'[i] = text[u]
      <4> SUFFICES ASSUME NEW i \in 1 .. n PROVE buffer'[i] = text[u]
        OBVIOUS
      <4>1. i \in Cell /\ i # Length[text[u]] + 1
        BY <2>3, <3>3 DEF Cell
      <4>2. buffer[i] = text[u]
        BY <3>2 DEF Prefix
      <4> QED BY <3>1, <4>1, <4>2 DEF Typed
    <3>5. buffer'[n + 1] = NUL
      BY <3>1, <3>2, <3>3 DEF Typed
    <3>6. n = Length[text[u]] \/ Has("blind")'
      BY <1>0, <3>2 DEF Has
    <3> QED BY <3>1, <3>4, <3>5, <3>6 DEF Prefix
  <2>7. CASE Commit(t)
    BY <2>1, <2>7, AfterWritePlace DEF Commit, Go, Typed, Writer
  <2>8. CASE Reset(t)
    <3>1. lock = None /\ Has("write lock")
      BY <2>8, Features DEF Reset, Clear
    <3> QED BY <2>1, <3>1, Excluded
  <2>9. CASE ~CopyIn(t) /\ ~WriteFault(t) /\ ~Terminate(t) /\ ~Commit(t) /\ ~Reset(t)
    <3>1. buffer' = buffer
      BY <2>9, BufferStays
    <3>2. u # t
      BY <2>1, <2>9, WriterSteps
    <3>3. pc'[u] = pc[u] /\ text'[u] = text[u] /\ left'[u] = left[u]
      BY <2>1, <3>2, OthersStay DEF Writer
    <3> QED BY <1>0, <2>2, <3>1, <3>3 DEF Prefix, Has
  <2> QED BY <2>4, <2>5, <2>6, <2>7, <2>8, <2>9
<1> QED
  BY <1>1, <1>2

\* No step but those of a write and the reset touches what is at rest.
LEMMA Resting ==
    ASSUME Typed, NEW t \in Task, Step(t), \A w \in Task : ~Writer(w)'
    PROVE  \/ Commit(t) \/ WriteFault(t) \/ Reset(t)
           \/ /\ UNCHANGED <<buffer, buffer_len, spoilt, write_count>>
              /\ \A w \in Task : ~Writer(w)
<1>1. ~Begin(t) /\ ~CopyIn(t) /\ ~Terminate(t)
  BY DEF Begin, CopyIn, Terminate, Go, Typed, Writer
<1>2. CASE ~Commit(t) /\ ~WriteFault(t) /\ ~Reset(t)
  <2>1. \A w \in Task \ {t} : ~Writer(w)
    BY Entering
  <2>2. ~Writer(t)
    BY <1>1, <1>2, WriterSteps
  <2> QED BY <1>1, <1>2, <2>1, <2>2, BufferStays
<1> QED BY <1>2

LEMMA AtRestStep ==
    ASSUME Typed, Working, Mutex, Alone, Progress, AtRest, NEW t \in Task, Step(t) PROVE AtRest'
<1> SUFFICES ASSUME \A w \in Task : ~Writer(w)', ~spoilt' \/ Both' PROVE Clean'
  BY DEF AtRest
<1>0. Both' = Both /\ (Both => Has("write lock")) /\ (Has("length")' <=> Has("length"))
  BY Entering DEF Both, Has
<1>1. CASE UNCHANGED <<buffer, buffer_len, spoilt>> /\ \A w \in Task : ~Writer(w)
  BY <1>0, <1>1 DEF AtRest, Clean, Prefix
<1>2. CASE Commit(t)
  <2>1. pc[t] = "w_commit" /\ Writer(t) /\ text[t] \in Text
    BY <1>2 DEF Commit, Go, Writer, Working
  <2>2. ~overlap
    BY <1>0, <1>2 DEF Commit, Alone
  <2>3. PICK n \in 0 .. Length[text[t]] :
           /\ Prefix(text[t], n) /\ buffer[n + 1] = NUL /\ (n = Length[text[t]] \/ Has("blind"))
    BY <2>1, <2>2 DEF Progress
  <2>4. buffer' = buffer /\ (Has("length") => buffer_len' = Length[text[t]])
    BY <1>2 DEF Commit
  <2>5. n \in 0 .. BUF_LEN - 1
    BY <2>1, LengthType
  <2>6. Has("length")' => buffer_len' <= n
    <3> SUFFICES ASSUME Has("length") PROVE buffer_len' <= n
      BY <1>0
    <3>1. n = Length[text[t]]
      BY <2>3, Features
    <3>2. Length[text[t]] \in Nat
      BY <2>1, LengthType
    <3> QED BY <2>4, <3>1, <3>2
  <2>7. \A i \in 1 .. n : buffer'[i] = text[t]
    BY <2>3, <2>4 DEF Prefix
  <2> QED BY <2>1, <2>3, <2>4, <2>5, <2>6, <2>7 DEF Clean, Prefix
<1>3. CASE WriteFault(t)
  <2>1. pc[t] = "w_copy" /\ Writer(t) /\ text[t] \in Text /\ left[t] \in 1 .. Length[text[t]]
    BY <1>3 DEF WriteFault, Writer, Working
  <2>2. ~Has("blind")
    BY <1>3 DEF WriteFault, Go, Typed, Writer
  <2>3. Has("write lock") /\ ~overlap
    BY <1>0, <1>3, <2>2 DEF WriteFault, Alone
  <2> DEFINE n == Length[text[t]] - left[t]
  <2>4. n \in 0 .. BUF_LEN - 1 /\ n + 1 \in Cell /\ n + 1 \in n + 1 .. Length[text[t]]
    BY <2>1, LengthType DEF Cell
  <2>5. \A i \in 1 .. n : i \in Cell /\ buffer[i] = text[t] /\ i \notin n + 1 .. Length[text[t]]
    <3>1. Prefix(text[t], n)
      BY <2>1, <2>3 DEF Progress
    <3>2. n \in Nat /\ n < BUF_LEN /\ BUF_LEN \in Nat
      BY <2>4, LengthType
    <3> HIDE DEF n
    <3> QED BY <3>1, <3>2 DEF Prefix, Cell
  <2>6. buffer' = [i \in Cell |-> IF i \in n + 1 .. Length[text[t]] THEN NUL ELSE buffer[i]]
    BY <1>3 DEF WriteFault
  <2>7. buffer'[n + 1] = NUL /\ \A i \in 1 .. n : buffer'[i] = text[t]
    BY <2>4, <2>5, <2>6
  <2>8. ~Has("length")'
    BY <1>0, <2>1, <2>3, Features
  <2> HIDE DEF n
  <2> QED BY <2>1, <2>4, <2>7, <2>8 DEF Clean, Prefix
<1>4. CASE Reset(t)
  <2>1. buffer' = [i \in Cell |-> NUL] /\ Has("counts")
    BY <1>4 DEF Reset, Clear
  <2>2. buffer'[0 + 1] = NUL /\ ~Has("length")' /\ 0 \in 0 .. BUF_LEN - 1
    <3>1. 1 \in Cell /\ 0 \in 0 .. BUF_LEN - 1
      BY LengthType DEF Cell
    <3>2. ~Has("length")'
      BY <1>0, <2>1, Features
    <3> QED BY <2>1, <3>1, <3>2
  <2>3. \A i \in 1 .. 0 : buffer'[i] = Greeting
    OBVIOUS
  <2> QED BY <2>2, <2>3 DEF Clean, Prefix
<1> QED
  BY <1>1, <1>2, <1>3, <1>4, Resting

LEMMA CountedStep ==
    ASSUME Typed, Working, Mutex, Alone, Progress, Counted, NEW t \in Task, Step(t) PROVE Counted'
<1> SUFFICES ASSUME Has("counts")', ~spoilt', \A w \in Task : ~Writer(w)'
             PROVE (write_count > 0 <=> buffer[1] # NUL)'
  BY DEF Counted
<1>0. Has("counts") /\ Has("write lock") /\ ~Has("blind")
  BY Entering, Features DEF Has
<1>1. CASE UNCHANGED <<buffer, buffer_len, spoilt, write_count>> /\ \A w \in Task : ~Writer(w)
  BY <1>0, <1>1 DEF Counted
<1>2. CASE Commit(t)
  <2>1. pc[t] = "w_commit" /\ Writer(t) /\ text[t] \in Text /\ ~overlap
    BY <1>0, <1>2 DEF Commit, Go, Writer, Working, Alone
  <2>2. PICK n \in 0 .. Length[text[t]] : Prefix(text[t], n) /\ n = Length[text[t]]
    BY <1>0, <2>1 DEF Progress
  <2>3. 1 \in 1 .. n
    BY <2>1, <2>2, LengthType
  <2>4. buffer[1] = text[t] /\ text[t] # NUL /\ buffer' = buffer
    BY <1>2, <2>1, <2>2, <2>3, Reserved DEF Prefix, Commit
  <2>5. write_count' > 0
    <3>1. write_count' = Least(write_count + 1, MAX_COUNT)
      BY <1>0, <1>2 DEF Commit
    <3>2. write_count \in Nat /\ MAX_COUNT \in Nat /\ MAX_COUNT > 0
      BY LengthType DEF Typed
    <3> QED BY <3>1, <3>2 DEF Least
  <2> QED BY <2>4, <2>5
<1>3. CASE WriteFault(t)
  BY <1>0, <1>3 DEF WriteFault
<1>4. CASE Reset(t)
  BY <1>4, LengthType DEF Reset, Clear, Cell
<1> QED
  BY <1>1, <1>2, <1>3, <1>4, Resting

LEMMA HandedStep == ASSUME Typed, Mutex, Handed, NEW t \in Task, Step(t) PROVE Handed'
<1> SUFFICES ASSUME Has("waits")', taken'
             PROVE  /\ data_available' = 0
                    /\ \A u \in Task : pc'[u] \in {"r_lock", "r_span", "r_copy", "r_done"}
                                        => u \in hasty'
  BY DEF Handed
<1>0. Has("waits") /\ Has("read lock")
  BY Entering, Features DEF Has
<1> USE DEF Typed, Go, data, reader
<1>1. CASE Done(t)
  <2>1. data_available' = 0
    BY <1>0, <1>1 DEF Done, TakenAway
  <2>2. ASSUME NEW u \in Task, pc'[u] \in {"r_lock", "r_span", "r_copy", "r_done"}
        PROVE  u \in hasty'
    <3>1. u # t /\ pc'[u] = pc[u] /\ lock = t
      BY <1>0, <1>1, <2>2 DEF Done, Mutex, Reader
    <3>2. pc[u] = "r_lock"
      BY <1>0, <2>2, <3>1 DEF Mutex, Reader
    <3> QED BY <1>0, <1>1, <3>1, <3>2 DEF Done, At
  <2> QED BY <2>1, <2>2
<1>2. CASE Commit(t)
  BY <1>2 DEF Commit
<1>3. ASSUME taken, UNCHANGED <<data_available, hasty>>,
             pc'[t] \in {"r_lock", "r_span", "r_copy", "r_done"} =>
                 pc[t] \in {"r_lock", "r_span", "r_copy", "r_done"}
      PROVE  /\ data_available' = 0
             /\ \A u \in Task : pc'[u] \in {"r_lock", "r_span", "r_copy", "r_done"} => u \in hasty'
  BY <1>0, <1>3, OthersStay DEF Handed
<1>4. CASE Write(t) \/ Begin(t) \/ CopyIn(t) \/ WriteFault(t) \/ Terminate(t)
  BY <1>3, <1>4 DEF Write, Begin, CopyIn, WriteFault, Terminate
<1>5. CASE WakeUp(t) \/ Obey(t)
  BY <1>3, <1>5 DEF WakeUp, Obey, SetPin, SetState
<1>6. CASE Search(t)
  BY <1>3, <1>6, SearchPlace DEF Search, LedPlaces
<1>7. CASE Read(t)
  <2>1. pc' = [pc EXCEPT ![t] = "r_wait"] /\ UNCHANGED <<taken, data_available, hasty>>
    BY <1>0, <1>7 DEF Read
  <2>2. pc'[t] \notin {"r_lock", "r_span", "r_copy", "r_done"}
    BY <2>1
  <2> QED BY <1>3, <2>1, <2>2
<1>8. CASE Ready(t)
  <2>1. taken /\ data_available = 1
    BY <1>8 DEF Ready
  <2>2. data_available = 0
    BY <1>0, <2>1, Zenon DEF Handed
  <2> QED BY <2>1, <2>2
<1>9. CASE Sleep(t) \/ GiveUp(t) \/ Measure(t)
  BY <1>3, <1>9 DEF Sleep, GiveUp, Measure
<1>10. CASE Signal(t)
  <2>1. taken /\ data_available' = data_available /\ hasty' = hasty \cup {t}
    BY <1>10 DEF Signal
  <2> QED BY <1>0, <2>1, OthersStay DEF Handed
<1>11. CASE Span(t) \/ CopyOut(t) \/ ReadFault(t)
  BY <1>3, <1>11 DEF Span, CopyOut, ReadFault
<1>12. CASE Reopen(t) \/ Reset(t)
  BY <1>3, <1>12 DEF Reopen, Reset, Clear
<1> QED
  BY <1>1, <1>2, <1>4, <1>5, <1>6, <1>7, <1>8, <1>9, <1>10, <1>11, <1>12 DEF Step

LEMMA LitStep == ASSUME Typed, Lit, NEW t \in Task, Step(t) PROVE Lit'
<1> DEFINE Shows(u, p, v, s) == /\ p[u] = "on_state" => v = 1
                                /\ p[u] = "off_state" => v = 0
                                /\ p[u] = "set_0" => s = 0
                                /\ p[u] = "set_1" => s = 1
<1> SUFFICES ASSUME ~together'
             PROVE \/ level' = led_state' /\ \A u \in Task : pc'[u] \notin LedPlaces
                   \/ \E u \in Task : /\ pc'[u] \in LedPlaces
                                      /\ \A w \in Task \ {u} : pc'[w] \notin LedPlaces
                                      /\ Shows(u, pc', level', led_state')
  BY DEF Lit
<1>1. \A u \in Task \ {t} : pc'[u] \in LedPlaces <=> pc[u] \in LedPlaces
  BY OthersStay DEF LedPlaces
<1>2. CASE Search(t)
  <2>1. pc[t] \notin LedPlaces
    BY <1>2, SearchPlace DEF LedPlaces
  <2>2. UNCHANGED <<level, led_state>>
    BY <1>2 DEF Search
  <2>3. CASE pc'[t] \in LedPlaces
    <3>1. \A u \in Task : pc[u] \notin LedPlaces
      BY <2>1, <2>3, <1>2, SearchPlace DEF At, LedPlaces
    <3>2. pc'[t] \notin {"on_state", "off_state", "set_0", "set_1"}
      BY <2>3, <1>2, SearchPlace DEF LedPlaces
    <3> QED BY <1>1, <2>3, <3>1, <3>2
  <2>4. CASE pc'[t] \notin LedPlaces
    <3>1. ~together
      BY <2>4, <1>2, SearchPlace DEF LedPlaces
    <3>2. \A u \in Task : pc'[u] \in LedPlaces <=> pc[u] \in LedPlaces
      BY <1>1, <2>1, <2>4
    <3>3. \A u \in Task : pc[u] \in LedPlaces => pc'[u] = pc[u]
      BY <2>1, OthersStay DEF LedPlaces
    <3> QED BY <2>2, <3>1, <3>2, <3>3 DEF Lit
  <2> QED BY <2>3, <2>4
<1>3. CASE Obey(t)
  <2>1. ~together /\ pc[t] \in LedPlaces
    BY <1>3 DEF Obey, SetPin, SetState, LedPlaces, Go
  <2>2. (\A u \in Task \ {t} : pc[u] \notin LedPlaces) /\ Shows(t, pc, level, led_state)
    BY <2>1 DEF Lit
  <2>3. \/ pc'[t] \notin LedPlaces /\ level' = led_state'
        \/ pc'[t] \in LedPlaces /\ Shows(t, pc', level', led_state')
    BY <1>3, <2>2 DEF Obey, SetPin, SetState, LedPlaces, Go, Typed
  <2> QED BY <1>1, <2>2, <2>3
<1>4. ASSUME UNCHANGED led, pc'[t] \notin LedPlaces, pc[t] \notin LedPlaces
      PROVE  \/ level' = led_state' /\ \A u \in Task : pc'[u] \notin LedPlaces
             \/ \E u \in Task : /\ pc'[u] \in LedPlaces
                                /\ \A w \in Task \ {u} : pc'[w] \notin LedPlaces
                                /\ Shows(u, pc', level', led_state')
  <2>1. \A u \in Task : pc[u] \in LedPlaces => pc'[u] = pc[u]
    BY <1>4, OthersStay DEF LedPlaces
  <2>2. ~together /\ UNCHANGED <<level, led_state>>
    BY <1>4 DEF led
  <2> QED BY <1>1, <1>4, <2>1, <2>2 DEF Lit
<1> USE DEF Typed, Go, LedPlaces
<1>5. CASE Write(t) \/ Begin(t) \/ CopyIn(t) \/ WriteFault(t) \/ Terminate(t)
  <2>1. CASE Write(t)
    BY <1>4, <2>1 DEF Write
  <2>2. CASE Begin(t)
    BY <1>4, <2>2 DEF Begin
  <2>3. CASE CopyIn(t)
    BY <1>4, <2>3 DEF CopyIn
  <2>4. CASE WriteFault(t)
    BY <1>4, <2>4 DEF WriteFault
  <2>5. CASE Terminate(t)
    BY <1>4, <2>5 DEF Terminate
  <2> QED BY <1>5, <2>1, <2>2, <2>3, <2>4, <2>5
<1>6. CASE Commit(t) \/ WakeUp(t)
  BY <1>4, <1>6, AfterWritePlace DEF Commit, WakeUp
<1>7. CASE Read(t) \/ Ready(t) \/ Sleep(t) \/ GiveUp(t) \/ Signal(t)
  BY <1>4, <1>7 DEF Read, Ready, Sleep, GiveUp, Signal
<1>8. CASE Measure(t) \/ Span(t) \/ CopyOut(t)
  <2>1. CASE Measure(t)
    BY <1>4, <2>1 DEF Measure
  <2>2. CASE Span(t)
    BY <1>4, <2>2 DEF Span
  <2>3. CASE CopyOut(t)
    BY <1>4, <2>3 DEF CopyOut
  <2> QED BY <1>8, <2>1, <2>2, <2>3
<1>9. CASE ReadFault(t) \/ Done(t) \/ Reopen(t) \/ Reset(t)
  BY <1>4, <1>9 DEF ReadFault, Done, Reopen, Reset, Clear
<1> QED
  BY <1>2, <1>3, <1>5, <1>6, <1>7, <1>8, <1>9 DEF Step

\* A terminated text is as long as its first cells agree.
LEMMA StrLenClean ==
    ASSUME NEW n \in 0 .. BUF_LEN - 1, NEW x \in Text \cup {Greeting}, Typed,
           Prefix(x, n), buffer[n + 1] = NUL
    PROVE  StrLen \in 0 .. n
<1> DEFINE P(m) == /\ \A i \in 1 .. m : buffer[i] # NUL
                   /\ m = BUF_LEN \/ buffer[m + 1] = NUL
<1> USE LengthType
<1>1. n \in 0 .. BUF_LEN /\ P(n)
  BY Reserved DEF Prefix
<1>2. StrLen \in 0 .. BUF_LEN /\ P(StrLen)
  BY <1>1 DEF StrLen
<1>3. \A m \in 0 .. BUF_LEN : P(m) => m <= n
  <2> SUFFICES ASSUME NEW m \in 0 .. BUF_LEN, P(m), ~(m <= n) PROVE FALSE
    OBVIOUS
  <2>1. n + 1 \in 1 .. m
    OBVIOUS
  <2> QED BY <2>1
<1>4. StrLen <= n
  BY <1>2, <1>3
<1> QED BY <1>2, <1>4

\* A reader's steps; only they change what it has, and only Done ends it.
LEMMA ReaderSteps ==
    ASSUME Typed, NEW t \in Task, Step(t), Reader(t)
    PROVE  Span(t) \/ CopyOut(t) \/ ReadFault(t) \/ Done(t)
<1> USE DEF Reader, Go
<1>1. ~Write(t) /\ ~Begin(t) /\ ~WakeUp(t) /\ ~Search(t)
  BY SearchPlace DEF Write, Begin, WakeUp
<1>2. ~Obey(t)
  BY DEF Obey, SetPin, SetState
<1>3. ~Read(t) /\ ~Ready(t) /\ ~Sleep(t) /\ ~GiveUp(t) /\ ~Signal(t) /\ ~Measure(t)
  BY DEF Read, Ready, Sleep, GiveUp, Signal, Measure
<1>4. ~CopyIn(t) /\ ~WriteFault(t) /\ ~Terminate(t) /\ ~Commit(t) /\ ~Reopen(t) /\ ~Reset(t)
  BY DEF CopyIn, WriteFault, Terminate, Commit, Reopen, Reset, Clear
<1> QED
  BY <1>1, <1>2, <1>3, <1>4 DEF Step

LEMMA GotStays ==
    ASSUME NEW t \in Task, Step(t), ~CopyOut(t), ~ReadFault(t), ~Done(t) PROVE got' = got
<1> USE DEF reader
<1>1. CASE Write(t) \/ Begin(t) \/ CopyIn(t) \/ WriteFault(t) \/ Terminate(t) \/ Commit(t)
  BY <1>1 DEF Write, Begin, CopyIn, WriteFault, Terminate, Commit
<1>2. CASE WakeUp(t) \/ Search(t) \/ Obey(t)
  BY <1>2 DEF WakeUp, Search, Obey, SetPin, SetState
<1>3. CASE Read(t) \/ Ready(t) \/ Sleep(t) \/ GiveUp(t) \/ Signal(t)
  BY <1>3 DEF Read, Ready, Sleep, GiveUp, Signal
<1>4. CASE Measure(t) \/ Span(t) \/ Reopen(t) \/ Reset(t)
  BY <1>4 DEF Measure, Span, Reopen, Reset, Clear
<1> QED
  BY <1>1, <1>2, <1>3, <1>4 DEF Step

LEMMA Leaving ==
    ASSUME Typed, NEW t \in Task, Step(t), ~Done(t), ~Reader(t)'
    PROVE  ~Reader(t) /\ got'[t] = got[t]
<1>1. ~CopyOut(t) /\ ~ReadFault(t) /\ ~Span(t)
  BY DEF CopyOut, ReadFault, Span, Go, Reader, Typed
<1> QED
  BY <1>1, ReaderSteps, GotStays

LEMMA CopiedStep ==
    ASSUME Typed, Mutex, Undisturbed, Undisturbed', AtRest, Copied, NEW t \in Task, Step(t)
    PROVE  Copied'
<1> DEFINE OneOf(u) == \E x \in Text \cup {Greeting} :
               /\ \A i \in 1 .. Len(got[u]) : got[u][i] = x
               /\ \A i \in 1 .. Ahead(u) : /\ off[u] + Len(got[u]) + i \in Cell
                                           /\ buffer[off[u] + Len(got[u]) + i] = x
           Good(u) == /\ Ahead(u) \in Nat /\ (pc[u] # "r_done" => Ahead(u) # 0)
                      /\ pc[u] = "r_span" => /\ Has("length") /\ off[u] < buffer_len
                                             /\ left[u] = Least(asked[u], buffer_len - off[u])
                      /\ OneOf(u)
<1>0. Both' = Both /\ (Both => Has("write lock") /\ Has("read lock"))
      /\ (Has("length")' <=> Has("length"))
  BY Entering DEF Both, Has
<1>1. ASSUME NEW u \in Task, ~Reader(u)' PROVE got'[u] = <<>>
  <2>1. CASE Done(t) /\ u = t
    BY <2>1 DEF Done, Typed
  <2>2. CASE ~(Done(t) /\ u = t)
    <3>1. ~Reader(u) /\ got'[u] = got[u]
      BY <1>1, <2>2, Leaving, OthersStay DEF Reader
    <3> QED BY <3>1 DEF Copied
  <2> QED BY <2>1, <2>2
<1>2. ASSUME NEW u \in Task \ {t}, Safe(u)' PROVE Good(u)'
  <2>1. Reader(u) /\ pc'[u] = pc[u] /\ UNCHANGED <<left[u], got[u], off[u], asked[u]>>
    BY <1>2, Entering, OthersStay DEF Safe, Reader
  <2>2. Safe(u)
    BY <1>0, <1>2, <2>1, DisturbedGrows DEF Safe
  <2>3. UNCHANGED <<buffer, buffer_len>>
    <3>1. ~Writer(t)
      BY <2>2 DEF Undisturbed
    <3>2. ~CopyIn(t) /\ ~WriteFault(t) /\ ~Terminate(t) /\ ~Commit(t)
      BY <3>1 DEF CopyIn, WriteFault, Terminate, Commit, Go, Writer
    <3>3. ~Reset(t)
      <4> SUFFICES ASSUME Reset(t) PROVE FALSE
        OBVIOUS
      <4>1. u \in disturbed' /\ lock = None
        BY <2>1 DEF Reset, Clear, Reading, At, Reader
      <4> QED BY <1>0, <1>2, <2>1, <4>1, Excluded DEF Safe
    <3> QED BY <3>2, <3>3, BufferStays
  <2>4. Good(u)
    BY <2>2 DEF Copied
  <2> QED BY <1>0, <2>1, <2>3, <2>4 DEF Ahead
<1>3. ASSUME Safe(t)' PROVE Good(t)'
  <2> USE DEF Typed, Go
  <2>1. CASE Measure(t)
    <3>1. ~Reader(t) /\ got[t] = <<>> /\ UNCHANGED <<got, off, asked, buffer, buffer_len>>
      BY <2>1 DEF Measure, Reader, Copied, data
    <3>2. \A w \in Task : ~Writer(w)
      <4>1. \A w \in Task : ~Writer(w)'
        BY <1>3 DEF Undisturbed
      <4> QED BY <2>1, <4>1, Entering DEF Measure, Writer
    <3>3. ~spoilt \/ Both
      BY <1>0, <1>3, <2>1 DEF Measure, Safe
    <3>4. PICK x \in Text \cup {Greeting}, n \in 0 .. BUF_LEN - 1 :
             Prefix(x, n) /\ buffer[n + 1] = NUL /\ (Has("length") => buffer_len <= n)
      BY <3>2, <3>3 DEF AtRest, Clean
    <3> DEFINE size == IF Has("length") THEN buffer_len ELSE StrLen
               m == Rest(t, size)
    <3>5. size \in 0 .. n
      <4>1. buffer_len \in Nat /\ n \in Nat
        OBVIOUS
      <4>2. CASE Has("length")
        BY <3>4, <4>1, <4>2
      <4>3. CASE ~Has("length")
        BY <3>4, <4>3, StrLenClean
      <4> QED BY <4>2, <4>3
    <3>6. left' = [left EXCEPT ![t] = m]
          /\ pc' = [pc EXCEPT ![t] = IF m = 0 THEN "r_done"
                                   ELSE IF Has("length") THEN "r_span" ELSE "r_copy"]
      BY <2>1 DEF Measure
    <3> HIDE DEF size
    <3>7. n \in Nat /\ BUF_LEN \in Nat /\ n < BUF_LEN /\ size \in Nat /\ size <= n
      BY <3>5, LengthType
    <3>8. /\ m \in Nat
          /\ m # 0 => /\ off[t] + m <= size /\ off[t] < size
                      /\ m = Least(asked[t], size - off[t])
      BY <3>7 DEF Rest, Least
    <3>9. left'[t] = m /\ (m = 0 => pc'[t] = "r_done")
          /\ (m # 0 => pc'[t] = (IF Has("length") THEN "r_span" ELSE "r_copy"))
      BY <3>6
    <3>10. Ahead(t)' = m /\ off[t] \in Nat
      BY <3>9 DEF Ahead
    <3> HIDE DEF m
    <3>11. \A i \in 1 .. m : off[t] + i \in Cell /\ off[t] + i \in 1 .. n
      BY <3>7, <3>8, <3>10 DEF Cell
    <3>12. OneOf(t)'
      <4>1. Len(got'[t]) = 0 /\ off'[t] = off[t]
        BY <3>1
      <4>2. \A i \in 1 .. m : off[t] + 0 + i = off[t] + i
        BY <3>8, <3>10
      <4>3. \A i \in 1 .. Ahead(t)' : /\ (off[t] + Len(got[t]) + i \in Cell)'
                                      /\ (buffer[off[t] + Len(got[t]) + i])' = x
        BY <3>1, <3>4, <3>10, <3>11, <4>1, <4>2 DEF Prefix, Cell
      <4>4. \A i \in 1 .. Len(got'[t]) : got'[t][i] = x
        BY <4>1
      <4> QED BY <4>3, <4>4
    <3>13. pc'[t] = "r_span" => /\ Has("length") /\ off[t] < buffer_len
                               /\ left'[t] = Least(asked[t], buffer_len - off[t])
      BY <3>8, <3>9 DEF size
    <3> QED BY <1>0, <3>1, <3>8, <3>9, <3>10, <3>12, <3>13 DEF Least
  <2>2. CASE ~Measure(t)
    <3>1. Reader(t) /\ (Span(t) \/ CopyOut(t) \/ ReadFault(t))
      <4>1. Reader(t)
        BY <1>3, <2>2, Entering DEF Safe
      <4>2. ~Done(t)
        BY <1>3 DEF Done, Safe, Reader
      <4> QED BY <4>1, <4>2, ReaderSteps
    <3>2. Safe(t) /\ UNCHANGED <<buffer, buffer_len, off, asked>>
      BY <1>0, <1>3, <3>1 DEF Safe, Span, CopyOut, ReadFault, data, reader
    <3>3. Good(t)
      BY <3>2 DEF Copied
    <3>4. CASE Span(t)
      <4>1. pc[t] = "r_span" /\ got' = got
        BY <3>4 DEF Span, reader
      <4>2. left[t] # 0 /\ left[t] = Least(asked[t], buffer_len - off[t]) /\ off[t] < buffer_len
        BY <3>3, <4>1 DEF Ahead
      <4>3. ~(off[t] > buffer_len)
        BY <4>2
      <4>4. left' = [left EXCEPT ![t] = left[t]] /\ pc'[t] = "r_copy"
        BY <3>4, <4>2, <4>3 DEF Span
      <4>5. Ahead(t)' = Ahead(t)
        BY <4>1, <4>4 DEF Ahead
      <4> QED BY <3>2, <3>3, <4>1, <4>4, <4>5
    <3>5. CASE CopyOut(t)
      <4>1. /\ pc[t] = "r_copy" /\ left'[t] = left[t] - 1
            /\ pc'[t] = IF left[t] = 1 THEN "r_done" ELSE "r_copy"
        BY <3>5 DEF CopyOut
      <4>2. left[t] \in Nat \ {0} /\ Ahead(t) = left[t] /\ Ahead(t)' = left[t] - 1
        BY <3>3, <4>1 DEF Ahead
      <4>3. PICK x \in Text \cup {Greeting} :
               /\ \A i \in 1 .. Len(got[t]) : got[t][i] = x
               /\ \A i \in 1 .. left[t] : /\ off[t] + Len(got[t]) + i \in Cell
                                          /\ buffer[off[t] + Len(got[t]) + i] = x
        BY <3>3, <4>2
      <4>4. 1 \in 1 .. left[t]
        BY <4>2
      <4>5. off[t] + Len(got[t]) + 1 \in Cell /\ buffer[off[t] + Len(got[t]) + 1] = x
        BY <4>3, <4>4
      <4>6. got'[t] = Append(got[t], x)
        BY <3>5, <4>5 DEF CopyOut
      <4>7. got[t] \in Seq(Value) /\ x \in Value /\ off[t] \in Nat
        BY DEF Value
      <4>8. Len(got'[t]) = Len(got[t]) + 1 /\ Len(got[t]) \in Nat
            /\ \A i \in 1 .. Len(got[t]) + 1 : got'[t][i] = x
        BY <4>3, <4>6, <4>7
      <4>9. \A i \in 1 .. left[t] - 1 : /\ off[t] + (Len(got[t]) + 1) + i \in Cell
                                       /\ buffer[off[t] + (Len(got[t]) + 1) + i] = x
        <5> SUFFICES ASSUME NEW i \in 1 .. left[t] - 1
                     PROVE  /\ off[t] + (Len(got[t]) + 1) + i \in Cell
                            /\ buffer[off[t] + (Len(got[t]) + 1) + i] = x
          OBVIOUS
        <5>1. i + 1 \in 1 .. left[t]
          BY <4>2
        <5>2. off[t] + (Len(got[t]) + 1) + i = off[t] + Len(got[t]) + (i + 1)
          BY <4>7, <4>8
        <5> QED BY <4>3, <5>1, <5>2
      <4>10. off'[t] = off[t] /\ buffer' = buffer /\ left[t] - 1 \in Nat
        BY <3>2, <4>2
      <4>11. OneOf(t)'
        <5>1. \A i \in 1 .. Ahead(t)' : /\ (off[t] + Len(got[t]) + i \in Cell)'
                                        /\ (buffer[off[t] + Len(got[t]) + i])' = x
          BY <4>2, <4>8, <4>9, <4>10 DEF Cell
        <5>2. \A i \in 1 .. Len(got'[t]) : got'[t][i] = x
          BY <4>8
        <5> QED BY <5>1, <5>2
      <4>12. pc'[t] # "r_span" /\ (pc'[t] # "r_done" => Ahead(t)' # 0) /\ Ahead(t)' \in Nat
        BY <4>1, <4>2, <4>10
      <4> QED BY <4>11, <4>12
    <3>6. CASE ReadFault(t)
      <4>1. pc'[t] = "r_done" /\ (got'[t] = <<>> \/ got'[t] = got[t])
        BY <3>6 DEF ReadFault
      <4>2. Ahead(t)' = 0
        BY <4>1 DEF Ahead
      <4>3. PICK x \in Text \cup {Greeting} : \A i \in 1 .. Len(got[t]) : got[t][i] = x
        BY <3>3
      <4>4. \A i \in 1 .. Len(got'[t]) : got'[t][i] = x
        BY <4>1, <4>3
      <4>5. OneOf(t)'
        <5>1. \A i \in 1 .. Ahead(t)' : FALSE
          BY <4>2
        <5> QED BY <4>4, <5>1
      <4> QED BY <4>1, <4>2, <4>5
    <3> QED BY <3>1, <3>4, <3>5, <3>6
  <2> QED BY <2>1, <2>2
<1> QED
  BY <1>1, <1>2, <1>3 DEF Copied

\* Where a sleeper waits with the text there, somebody is about to wake it.
LEMMA SleepersStep == ASSUME Typed, NoSleeperForgotten, NEW t \in Task, Step(t)
                      PROVE  NoSleeperForgotten'
<1> SUFFICES ASSUME data_available' = 1, NEW u \in Task, pc'[u] = "asleep"
             PROVE \E w \in Task : pc'[w] = "wake"
  BY DEF NoSleeperForgotten, At
<1> USE DEF Typed, Go, data
<1>1. CASE Sleep(t)
  BY <1>1 DEF Sleep
<1>2. CASE WakeUp(t)
  BY <1>2 DEF WakeUp
<1>3. CASE Commit(t)
  <2>1. CASE Has("waits")
    BY <1>3, <2>1 DEF Commit, AfterWrite
  <2>2. CASE ~Has("waits")
    <3>1. data_available = 1 /\ pc[t] = "w_commit"
      BY <1>3, <2>2 DEF Commit
    <3>2. u # t
      BY <1>3, AfterWritePlace DEF Commit
    <3>3. pc[u] = "asleep"
      BY <3>2, OthersStay
    <3>4. PICK w \in Task : pc[w] = "wake"
      BY <3>1, <3>3 DEF NoSleeperForgotten, At
    <3>5. pc'[w] = "wake"
      BY <3>1, <3>4, OthersStay
    <3> QED BY <3>5
  <2> QED BY <2>1, <2>2
<1>4. ASSUME data_available = 1, pc'[t] # "asleep", pc[t] # "wake"
      PROVE  \E w \in Task : pc'[w] = "wake"
  <2>1. pc[u] = "asleep"
    BY <1>4, OthersStay
  <2>2. PICK w \in Task : pc[w] = "wake"
    BY <1>4, <2>1 DEF NoSleeperForgotten, At
  <2>3. pc'[w] = "wake"
    BY <1>4, <2>2, OthersStay
  <2> QED BY <2>3
<1>5. CASE Write(t) \/ Begin(t) \/ CopyIn(t) \/ WriteFault(t) \/ Terminate(t)
  BY <1>4, <1>5 DEF Write, Begin, CopyIn, WriteFault, Terminate
<1>6. CASE Obey(t)
  BY <1>4, <1>6 DEF Obey, SetPin, SetState
<1>7. CASE Search(t)
  BY <1>4, <1>7, SearchPlace DEF Search
<1>8. CASE Read(t) \/ Ready(t) \/ GiveUp(t) \/ Signal(t)
  BY <1>4, <1>8 DEF Read, Ready, GiveUp, Signal
<1>9. CASE Measure(t) \/ Span(t) \/ CopyOut(t) \/ ReadFault(t)
  BY <1>4, <1>9 DEF Measure, Span, CopyOut, ReadFault
<1>10. CASE Done(t)
  BY <1>4, <1>10 DEF Done, TakenAway
<1>11. CASE Reopen(t) \/ Reset(t)
  BY <1>4, <1>11 DEF Reopen, Reset, Clear
<1> QED
  BY <1>1, <1>2, <1>3, <1>5, <1>6, <1>7, <1>8, <1>9, <1>10, <1>11 DEF Step
-----------------------------------------------------------------------------
LEMMA InitIInv == Init => IInv /\ NoSleeperForgotten
<1> SUFFICES ASSUME Init PROVE IInv /\ NoSleeperForgotten
  OBVIOUS
<1>1. /\ dev \in DOMAIN Device /\ lock = None /\ level = 0 /\ led_state = 0
      /\ data_available = 0 /\ write_count = 0 /\ disturbed = {} /\ hasty = {} /\ ~taken
      /\ pc = [t \in Task |-> "user"] /\ text = [t \in Task |-> NUL]
      /\ left = [t \in Task |-> 0] /\ asked = [t \in Task |-> 0]
      /\ got = [t \in Task |-> <<>>] /\ off = [t \in Task |-> 0] /\ overlap = FALSE
  BY DEF Init
<1>2. /\ buffer = [i \in Cell |-> IF Has("greets") /\ i = 1 THEN Greeting ELSE NUL]
      /\ buffer_len = IF Has("greets") THEN 1 ELSE 0
  BY DEF Init
<1>3. /\ 1 \in Cell /\ 2 \in Cell /\ 0 \in 0 .. BUF_LEN - 1 /\ 1 \in 0 .. BUF_LEN - 1
      /\ 0 \in 0 .. MAX_COUNT
  BY LengthType DEF Cell
<1>4. Typed
  <2>1. got \in [Task -> Seq(Value)]
    <3>1. <<>> \in Seq(Value)
      OBVIOUS
    <3> QED BY <1>1, <3>1
  <2>2. buffer \in [Cell -> Text \cup {NUL, Greeting}] /\ buffer_len \in Nat
    BY <1>2
  <2>3. pc \in [Task -> Places] /\ text \in [Task -> Text \cup {NUL}]
    BY <1>1 DEF Places
  <2>4. left = [t \in Task |-> left[t]]
    BY <1>1
  <2>5. asked \in [Task -> Nat] /\ off \in [Task -> Nat]
    BY <1>1
  <2> QED BY <1>1, <1>3, <2>1, <2>2, <2>3, <2>4, <2>5 DEF Typed
<1>5. \A t \in Task : pc[t] = "user" /\ got[t] = <<>>
  BY <1>1
<1>6. Working /\ Mutex /\ Alone /\ Undisturbed /\ Progress /\ Copied
  BY <1>1, <1>5 DEF Working, Mutex, Alone, Undisturbed, Progress, Copied, Safe, Writer, Reader
<1>7. Clean
  <2>1. CASE Has("greets")
    <3>1. buffer[1] = Greeting /\ buffer[1 + 1] = NUL /\ buffer_len = 1
      BY <1>2, <1>3, <2>1
    <3>2. Prefix(Greeting, 1)
      BY <3>1 DEF Prefix
    <3> QED BY <1>3, <3>1, <3>2 DEF Clean
  <2>2. CASE ~Has("greets")
    <3>1. buffer[0 + 1] = NUL /\ buffer_len = 0
      BY <1>2, <1>3, <2>2
    <3>2. Prefix(Greeting, 0)
      BY DEF Prefix
    <3> QED BY <1>3, <3>1, <3>2 DEF Clean
  <2> QED BY <2>1, <2>2
<1>8. AtRest /\ Handed
  BY <1>1, <1>7 DEF AtRest, Handed
<1>9. Counted
  <2>1. Has("counts") => ~Has("greets")
    BY <1>4, Features
  <2>2. Has("counts") => buffer[1] = NUL
    BY <1>2, <1>3, <2>1
  <2> QED BY <1>1, <2>2 DEF Counted
<1>10. Lit
  BY <1>1, <1>5 DEF Lit, LedPlaces
<1>11. NoSleeperForgotten
  BY <1>1 DEF NoSleeperForgotten
<1> QED
  BY <1>4, <1>6, <1>8, <1>9, <1>10, <1>11 DEF IInv

LEMMA Stutter == IInv /\ NoSleeperForgotten /\ UNCHANGED vars => (IInv /\ NoSleeperForgotten)'
<1> SUFFICES ASSUME IInv, NoSleeperForgotten, UNCHANGED vars PROVE (IInv /\ NoSleeperForgotten)'
  OBVIOUS
<1> USE DEF vars, data, led, reader
<1>1. (Typed /\ Working /\ Mutex /\ Alone /\ NoSleeperForgotten)'
  BY DEF IInv, Typed, Working, Mutex, Alone, NoSleeperForgotten, Writer, Reader, Has, At
<1>2. Undisturbed'
  BY DEF IInv, Undisturbed, Safe, Both, Writer, Reader
<1>3. Progress'
  <2>1. \A x, n : Prefix(x, n) => Prefix(x, n)'
    BY DEF Prefix
  <2> SUFFICES ASSUME ~overlap, NEW t \in Task
               PROVE ( /\ pc[t] = "w_copy" => Prefix(text[t], Length[text[t]] - left[t])
                       /\ pc[t] = "w_end" => \E n \in 0 .. Length[text[t]] :
                             /\ Prefix(text[t], n)
                             /\ n = Length[text[t]] \/ (Has("blind") /\ buffer[n + 1] = NUL)
                       /\ pc[t] = "w_commit" => \E n \in 0 .. Length[text[t]] :
                             /\ Prefix(text[t], n) /\ buffer[n + 1] = NUL
                             /\ n = Length[text[t]] \/ Has("blind") )'
    BY DEF Progress
  <2>2. (pc[t] = "w_copy" => Prefix(text[t], Length[text[t]] - left[t]))'
    BY <2>1 DEF IInv, Progress
  <2>3. (pc[t] = "w_end" => \E n \in 0 .. Length[text[t]] :
             /\ Prefix(text[t], n)
             /\ n = Length[text[t]] \/ (Has("blind") /\ buffer[n + 1] = NUL))'
    BY <2>1 DEF IInv, Progress, Has
  <2>4. (pc[t] = "w_commit" => \E n \in 0 .. Length[text[t]] :
             /\ Prefix(text[t], n) /\ buffer[n + 1] = NUL
             /\ n = Length[text[t]] \/ Has("blind"))'
    BY <2>1 DEF IInv, Progress, Has
  <2> QED BY <2>2, <2>3, <2>4
<1>4. (AtRest /\ Handed /\ Counted /\ Lit)'
  BY DEF IInv, AtRest, Clean, Prefix, Both, Handed, Counted, Lit, Writer, Has
<1>5. Copied'
  <2>1. (\A t \in Task : ~Reader(t) => got[t] = <<>>)'
    BY DEF IInv, Copied, Reader
  <2> SUFFICES ASSUME NEW t \in Task, Safe(t)'
               PROVE ( /\ Ahead(t) \in Nat /\ (pc[t] # "r_done" => Ahead(t) # 0)
                       /\ pc[t] = "r_span" => /\ Has("length") /\ off[t] < buffer_len
                                              /\ left[t] = Least(asked[t], buffer_len - off[t])
                       /\ \E x \in Text \cup {Greeting} :
                             /\ \A i \in 1 .. Len(got[t]) : got[t][i] = x
                             /\ \A i \in 1 .. Ahead(t) :
                                   /\ off[t] + Len(got[t]) + i \in Cell
                                   /\ buffer[off[t] + Len(got[t]) + i] = x )'
    BY <2>1 DEF Copied
  <2>2. Safe(t) /\ Ahead(t)' = Ahead(t)
    BY DEF Safe, Both, Reader, Ahead
  <2>3. (Ahead(t) \in Nat /\ (pc[t] # "r_done" => Ahead(t) # 0))'
    BY <2>2 DEF IInv, Copied
  <2>4. (pc[t] = "r_span" => /\ Has("length") /\ off[t] < buffer_len
                             /\ left[t] = Least(asked[t], buffer_len - off[t]))'
    BY <2>2 DEF IInv, Copied, Has
  <2>5. (\E x \in Text \cup {Greeting} :
            /\ \A i \in 1 .. Len(got[t]) : got[t][i] = x
            /\ \A i \in 1 .. Ahead(t) : /\ off[t] + Len(got[t]) + i \in Cell
                                        /\ buffer[off[t] + Len(got[t]) + i] = x)'
    BY <2>2 DEF IInv, Copied
  <2> QED BY <2>3, <2>4, <2>5
<1> QED
  BY <1>1, <1>2, <1>3, <1>4, <1>5 DEF IInv

LEMMA Inductive == IInv /\ NoSleeperForgotten /\ [Next]_vars => (IInv /\ NoSleeperForgotten)'
<1>1. ASSUME IInv, NoSleeperForgotten, NEW t \in Task, Step(t) PROVE (IInv /\ NoSleeperForgotten)'
  <2>1. Undisturbed'
    BY <1>1, UndisturbedStep DEF IInv
  <2> QED
    BY <1>1, <2>1, TypedStep, WorkingStep, MutexStep, AloneStep, ProgressStep, AtRestStep, CopiedStep,
       HandedStep, CountedStep, LitStep, SleepersStep DEF IInv
<1>2. Next => \E t \in Task : Step(t)
  BY DEF Next, Step
<1> QED
  BY <1>1, <1>2, Stutter

(* The invariant above holds for any users, texts and set of drivers.      *)
THEOREM Invariance == Spec => [](IInv /\ NoSleeperForgotten)
BY InitIInv, Inductive, PTL DEF Spec
-----------------------------------------------------------------------------
(* What a read() returns is of one text, however many users write, fault   *)
(* and reset at the time, in the drivers that lock both sides; in the      *)
(* others, when no write met it and none before it met or failed.          *)
THEOREM ReadsOneText == Spec => []OneText
<1>1. IInv => OneText
  <2> SUFFICES ASSUME IInv, NEW t \in Task, pc[t] = "r_done", t \notin disturbed \/ Both
               PROVE \E x \in Text \cup {Greeting} : \A i \in 1 .. Len(got[t]) : got[t][i] = x
    BY DEF OneText, At, Both
  <2>1. Safe(t)
    BY DEF Safe, Reader
  <2> QED
    BY <2>1 DEF IInv, Copied
<1> QED
  BY <1>1, Invariance, PTL

(* No user of the waiting device gets a text a second time, unless a       *)
(* signal or another reader let it past the wait.                          *)
THEOREM TextsAreFresh == Spec => []FreshText
<1>1. IInv => FreshText
  BY DEF IInv, Handed, FreshText, At
<1> QED
  BY <1>1, Invariance, PTL

(* The count and the text of the counting device agree whenever its mutex  *)
(* is free and the last write was a good one.                              *)
THEOREM CountAgrees == Spec => []CountMatchesText
<1>1. IInv => CountMatchesText
  <2> SUFFICES ASSUME IInv, Has("counts"), lock = None, ~spoilt
               PROVE write_count > 0 <=> buffer[1] # NUL
    BY DEF CountMatchesText
  <2>1. \A u \in Task : ~Writer(u)
    BY Features, Excluded DEF IInv
  <2> QED
    BY <2>1 DEF IInv, Counted
<1> QED
  BY <1>1, Invariance, PTL

(* A text wakes every reader that sleeps for it.                           *)
THEOREM SleepersAreWoken == Spec => []NoSleeperForgotten
BY Invariance, PTL

(* The LED's status is right whenever nobody is setting it and the last to *)
(* set it did so alone.                                                    *)
THEOREM LedStatusIsRight == Spec => []LedAgrees
<1>1. IInv => LedAgrees
  BY DEF IInv, Lit, LedAgrees, At
<1> QED
  BY <1>1, Invariance, PTL
-----------------------------------------------------------------------------
(* What a read() owes.  In the waiting device a reader that started at the *)
(* beginning of its file has copied the first cells of the text, and what  *)
(* it has and what it will copy are the text, or as much as it asked for.  *)
Owed == Has("waits") => \A t \in Task : pc[t] \in {"r_copy", "r_done"} /\ off[t] = 0 =>
           /\ StrLen \in 0 .. BUF_LEN /\ left[t] \in Nat
           /\ pc[t] = "r_copy" => left[t] # 0
           /\ left[t] = 0 \/ pc[t] = "r_copy" =>
                /\ Len(got[t]) + left[t] = Least(asked[t], StrLen)
                /\ \A i \in 1 .. Len(got[t]) : got[t][i] = buffer[i]

\* Under both locks nobody changes the buffer while another reads.
LEMMA ReaderKeepsBuffer ==
    ASSUME Typed, Mutex, Undisturbed, Both, NEW t \in Task, Step(t), NEW u \in Task, Reader(u)
    PROVE  UNCHANGED <<dev, buffer>>
<1>1. ~Writer(t) /\ lock # None
  BY Reserved DEF Undisturbed, Safe, Mutex, Both, Has
<1>2. ~CopyIn(t) /\ ~WriteFault(t) /\ ~Terminate(t) /\ ~Commit(t) /\ ~Reset(t)
  BY <1>1 DEF CopyIn, WriteFault, Terminate, Commit, Reset, Go, Writer
<1> QED
  BY <1>2, BufferStays, Entering

LEMMA OwedStep ==
    ASSUME Typed, Mutex, Undisturbed, AtRest, Copied, Owed, NEW t \in Task, Step(t) PROVE Owed'
<1> DEFINE Owes(u) == /\ StrLen \in 0 .. BUF_LEN /\ left[u] \in Nat
                      /\ pc[u] = "r_copy" => left[u] # 0
                      /\ left[u] = 0 \/ pc[u] = "r_copy" =>
                           /\ Len(got[u]) + left[u] = Least(asked[u], StrLen)
                           /\ \A i \in 1 .. Len(got[u]) : got[u][i] = buffer[i]
<1> SUFFICES ASSUME Has("waits")', NEW u \in Task, pc'[u] \in {"r_copy", "r_done"}, off'[u] = 0
             PROVE Owes(u)'
  BY DEF Owed
<1>1. dev' = dev /\ Has("waits") /\ Both /\ ~Has("length")
  BY Entering, Features DEF Has, Both
<1>2. ASSUME Reader(u) PROVE buffer' = buffer /\ StrLen' = StrLen /\ pc[u] # "r_span"
  <2>1. buffer' = buffer
    BY <1>1, <1>2, ReaderKeepsBuffer
  <2>2. pc[u] # "r_span"
    BY <1>1, <1>2 DEF Copied, Safe
  <2> QED BY <2>1, <2>2 DEF StrLen
<1>3. CASE u # t
  <2>1. pc'[u] = pc[u] /\ UNCHANGED <<left[u], got[u], off[u], asked[u]>>
    BY <1>3, OthersStay
  <2>2. Owes(u)
    BY <1>1, <2>1 DEF Owed
  <2>3. buffer' = buffer /\ StrLen' = StrLen
    BY <1>2, <2>1 DEF Reader
  <2> QED BY <2>1, <2>2, <2>3
<1>4. CASE u = t
  <2> USE DEF Typed, Go
  <2>1. CASE Measure(t)
    <3>1. ~Reader(t) /\ got[t] = <<>> /\ UNCHANGED <<got, off, asked, buffer>> /\ lock = None
      BY <1>1, <2>1, Features DEF Measure, Reader, Copied, data, Take
    <3>2. \A w \in Task : ~Writer(w)
      BY <1>1, <3>1, Excluded, Features
    <3>3. PICK x \in Text \cup {Greeting}, n \in 0 .. BUF_LEN - 1 : Prefix(x, n) /\ buffer[n + 1] = NUL
      BY <1>1, <3>2 DEF AtRest, Clean
    <3>4. StrLen \in 0 .. BUF_LEN /\ StrLen' = StrLen
      <4>1. StrLen \in 0 .. n
        BY <3>3, StrLenClean
      <4>2. n \in Nat /\ n <= BUF_LEN /\ BUF_LEN \in Nat
        BY LengthType
      <4>3. StrLen \in 0 .. BUF_LEN
        BY <4>1, <4>2
      <4> QED BY <3>1, <4>3 DEF StrLen
    <3> DEFINE m == Rest(t, StrLen)
    <3>5. left'[t] = m /\ pc'[t] = (IF m = 0 THEN "r_done" ELSE "r_copy")
      BY <1>1, <2>1 DEF Measure
    <3>6. off[t] = 0 /\ asked[t] \in Nat /\ Len(got'[t]) = 0 /\ asked'[t] = asked[t]
      BY <1>4, <3>1
    <3>7. m \in Nat /\ m = Least(asked[t], StrLen)
      BY <3>4, <3>6 DEF Rest, Least
    <3> HIDE DEF m
    <3>8. Len(got'[t]) + left'[t] = Least(asked'[t], StrLen')
      BY <3>4, <3>5, <3>6, <3>7
    <3>9. StrLen' \in 0 .. BUF_LEN
      BY <3>4
    <3>10. left'[t] \in Nat /\ (pc'[t] = "r_copy" => left'[t] # 0)
      BY <3>5, <3>7
    <3>11. \A i \in 1 .. Len(got'[t]) : got'[t][i] = buffer'[i]
      BY <3>6
    <3> QED BY <1>4, <3>8, <3>9, <3>10, <3>11
  <2>2. CASE ~Measure(t)
    <3>1. Reader(t)
      BY <1>4, <2>2, Entering DEF Reader
    <3>2. buffer' = buffer /\ StrLen' = StrLen /\ pc[t] \in {"r_copy", "r_done"}
      BY <1>2, <1>4, <3>1 DEF Reader
    <3>3. CopyOut(t) \/ ReadFault(t)
      <4>1. ~Span(t) /\ ~Done(t)
        BY <1>4, <3>2 DEF Span, Done
      <4> QED BY <3>1, <4>1, ReaderSteps
    <3>4. UNCHANGED <<off, asked>> /\ Owes(t)
      BY <1>1, <1>4, <3>2, <3>3 DEF Owed, CopyOut, ReadFault
    <3>5. CASE CopyOut(t)
      <4>1. pc[t] = "r_copy" /\ left'[t] = left[t] - 1 /\ (pc'[t] = "r_copy" => left[t] # 1)
        BY <3>5 DEF CopyOut
      <4>2. left[t] \in Nat \ {0} /\ StrLen \in Nat /\ StrLen <= BUF_LEN /\ asked[t] \in Nat
        BY <3>4, <4>1, LengthType
      <4>3. got[t] \in Seq(Value) /\ Len(got[t]) \in Nat /\ off[t] = 0
        BY <1>4, <3>4
      <4>4. Len(got[t]) + 1 \in Cell /\ off[t] + Len(got[t]) + 1 = Len(got[t]) + 1
        BY <3>4, <4>1, <4>2, <4>3, LengthType DEF Least, Cell
      <4> DEFINE v == buffer[Len(got[t]) + 1]
      <4>5. v \in Value /\ got'[t] = Append(got[t], v)
        <5>1. v \in Value
          BY <4>4 DEF Value
        <5>2. got'[t] = Append(got[t], v)
          BY <3>5, <4>4 DEF CopyOut
        <5> QED BY <5>1, <5>2
      <4>6. \A i \in 1 .. Len(got[t]) : got[t][i] = buffer[i]
        BY <3>4, <4>1
      <4>7. /\ Len(got'[t]) = Len(got[t]) + 1
            /\ \A i \in 1 .. Len(got[t]) : got'[t][i] = got[t][i]
            /\ got'[t][Len(got[t]) + 1] = v
        <5> HIDE DEF v
        <5> QED BY <4>3, <4>5
      <4>8. \A i \in 1 .. Len(got'[t]) : got'[t][i] = buffer[i]
        <5> SUFFICES ASSUME NEW i \in 1 .. Len(got[t]) + 1 PROVE got'[t][i] = buffer[i]
          BY <4>7
        <5>1. CASE i = Len(got[t]) + 1
          BY <4>7, <5>1
        <5>2. CASE i # Len(got[t]) + 1
          <6>1. i \in 1 .. Len(got[t])
            BY <4>3, <5>2
          <6> QED BY <4>6, <4>7, <6>1
        <5> QED BY <5>1, <5>2
      <4>9. Len(got'[t]) + left'[t] = Least(asked[t], StrLen)
        BY <3>4, <4>1, <4>2, <4>3, <4>7
      <4>10. left'[t] \in Nat /\ (pc'[t] = "r_copy" => left'[t] # 0)
        BY <4>1, <4>2
      <4>11. Len(got'[t]) + left'[t] = Least(asked'[t], StrLen')
        BY <3>2, <3>4, <4>9
      <4>12. \A i \in 1 .. Len(got'[t]) : got'[t][i] = buffer'[i]
        BY <3>2, <4>8
      <4> QED BY <1>4, <3>2, <3>4, <4>10, <4>11, <4>12
    <3>6. CASE ReadFault(t)
      <4>1. pc[t] = "r_copy" /\ pc'[t] = "r_done" /\ left' = left
        BY <3>6 DEF ReadFault
      <4> QED BY <1>4, <3>2, <3>4, <4>1
    <3> QED BY <3>3, <3>5, <3>6
  <2> QED BY <2>1, <2>2
<1> QED
  BY <1>3, <1>4

\* Only a read() that ends makes the flag fall, and it gives back what it owes.
LEMMA OwedIsGiven ==
    ASSUME Typed, Mutex, Undisturbed, Copied, Owed, NEW t \in Task, Step(t),
           data_available = 1, data_available' = 0
    PROVE  \E u \in At({"r_done"}) : \/ got[u] = TextNow \/ Len(got[u]) = asked[u]
                                     \/ off[u] > 0 \/ left[u] > 0
<1>1. Done(t)
  <2> SUFFICES ASSUME ~Done(t) PROVE data_available' = data_available \/ data_available' = 1
    OBVIOUS
  <2> USE DEF data
  <2>1. CASE Write(t) \/ Begin(t) \/ CopyIn(t) \/ WriteFault(t) \/ Terminate(t) \/ Commit(t)
    BY <2>1 DEF Write, Begin, CopyIn, WriteFault, Terminate, Commit
  <2>2. CASE WakeUp(t) \/ Search(t) \/ Obey(t)
    BY <2>2 DEF WakeUp, Search, Obey, SetPin, SetState
  <2>3. CASE Read(t) \/ Ready(t) \/ Sleep(t) \/ GiveUp(t) \/ Signal(t)
    BY <2>3 DEF Read, Ready, Sleep, GiveUp, Signal
  <2>4. CASE Measure(t) \/ Span(t) \/ CopyOut(t) \/ ReadFault(t) \/ Reopen(t) \/ Reset(t)
    BY <2>4 DEF Measure, Span, CopyOut, ReadFault, Reopen, Reset, Clear
  <2> QED BY <2>1, <2>2, <2>3, <2>4 DEF Step
<1>2. pc[t] = "r_done" /\ Has("waits")
  BY <1>1 DEF Done, Go, TakenAway
<1>3. SUFFICES ASSUME ~(off[t] > 0), ~(left[t] > 0), Len(got[t]) # asked[t]
               PROVE got[t] = TextNow
  BY <1>2 DEF At
<1>4. off[t] = 0
  BY <1>3 DEF Typed
<1>5. StrLen \in 0 .. BUF_LEN /\ left[t] \in Nat
  BY <1>2, <1>4 DEF Owed
<1>6. left[t] = 0
  BY <1>3, <1>5
<1>7. /\ Len(got[t]) + left[t] = Least(asked[t], StrLen)
      /\ \A i \in 1 .. Len(got[t]) : got[t][i] = buffer[i]
  BY <1>2, <1>4, <1>6 DEF Owed
<1>8. got[t] \in Seq(Value) /\ Len(got[t]) \in Nat /\ asked[t] \in Nat
  BY DEF Typed
<1>9. Len(got[t]) = StrLen
  BY <1>3, <1>5, <1>6, <1>7, <1>8 DEF Least
<1>10. TextNow = [i \in 1 .. StrLen |-> buffer[i]]
  BY <1>5 DEF TextNow
<1>11. got[t] = [i \in 1 .. Len(got[t]) |-> got[t][i]]
  BY <1>8
<1> QED
  BY <1>7, <1>9, <1>10, <1>11

(* No text of the waiting device is dropped: when data_available falls, a  *)
(* reader that returns has all of the text, or all it asked for, unless    *)
(* its file was past the beginning or its copy faulted.                    *)
THEOREM TextsAreNotDropped == Spec => NothingDropped
<1>1. Init => Owed
  BY DEF Init, Owed
<1>2. ASSUME IInv, Owed, NEW t \in Task, Step(t) PROVE Owed'
  BY <1>2, OwedStep DEF IInv
<1>3. Owed /\ UNCHANGED vars => Owed'
  <2> SUFFICES ASSUME Owed, UNCHANGED vars PROVE Owed'
    OBVIOUS
  <2>1. UNCHANGED <<dev, buffer, pc, left, got, off, asked>> /\ StrLen' = StrLen
    BY DEF vars, data, reader, StrLen
  <2>2. Has("waits")' <=> Has("waits")
    BY <2>1 DEF Has
  <2> QED BY <2>1, <2>2 DEF Owed, Least
<1>4. IInv /\ Owed /\ [Next]_vars => Owed'
  BY <1>2, <1>3 DEF Next, Step
<1>5. IInv /\ Owed /\ [Next]_vars =>
         [data_available = 1 /\ data_available' = 0 =>
            \E t \in At({"r_done"}) : \/ got[t] = TextNow \/ Len(got[t]) = asked[t]
                                      \/ off[t] > 0 \/ left[t] > 0]_vars
  <2> SUFFICES ASSUME IInv, Owed, Next, data_available = 1, data_available' = 0
               PROVE \E t \in At({"r_done"}) : \/ got[t] = TextNow \/ Len(got[t]) = asked[t]
                                               \/ off[t] > 0 \/ left[t] > 0
    BY DEF vars, data
  <2>1. PICK t \in Task : Step(t)
    BY DEF Next, Step
  <2> QED BY <2>1, OwedIsGiven DEF IInv
<1> QED
  BY <1>1, <1>4, <1>5, Invariance, PTL DEF Spec, NothingDropped
-----------------------------------------------------------------------------
(* How far things go.  A reader never holds more cells than the buffer has *)
(* and only copies from a place before its end, so that an offset grows by *)
(* one buffer at most once it is within it.                                *)
Room == /\ buffer_len \in 0 .. BUF_LEN - 1
        /\ \A t \in Task :
              /\ left[t] \in 0 .. BUF_LEN /\ asked[t] \in {0, 1, BUF_LEN}
              /\ Len(got[t]) <= BUF_LEN /\ off[t] <= 2 * BUF_LEN
              /\ pc[t] = "r_span" => got[t] = <<>>
              /\ pc[t] \in {"r_span", "r_copy"} => left[t] # 0 /\ off[t] < BUF_LEN
              /\ pc[t] = "r_copy" => Len(got[t]) + left[t] <= BUF_LEN
              /\ got[t] # <<>> => off[t] < BUF_LEN
Flags == {spoilt, overlap, taken, together} \subseteq BOOLEAN

LEMMA Smallest == ASSUME NEW S, S \subseteq Nat, S # {} PROVE \E n \in S : \A m \in S : n <= m
<1>1. PICK n \in S : \A m \in S : <<m, n>> \notin OpToRel(<, Nat)
  BY WFMin, NatLessThanWellFounded, Zenon
<1>2. \A m \in S : ~(m < n)
  BY <1>1, Zenon DEF OpToRel
<1> QED BY <1>2

\* The text ends at the first terminator or with the buffer.
LEMMA StrLenBound == StrLen \in 0 .. BUF_LEN
<1> DEFINE S == {m \in 0 .. BUF_LEN : m = BUF_LEN \/ buffer[m + 1] = NUL}
           P(m) == /\ \A i \in 1 .. m : buffer[i] # NUL
                   /\ m = BUF_LEN \/ buffer[m + 1] = NUL
<1>1. BUF_LEN \in S /\ S \subseteq Nat
  BY LengthType
<1>2. PICK n \in S : \A m \in S : n <= m
  <2> HIDE DEF S
  <2> QED BY <1>1, Smallest
<1>3. n \in 0 .. BUF_LEN /\ (n = BUF_LEN \/ buffer[n + 1] = NUL)
  OBVIOUS
<1>4. ASSUME NEW i \in 1 .. n PROVE buffer[i] # NUL
  <2> SUFFICES ASSUME buffer[i] = NUL PROVE FALSE
    OBVIOUS
  <2>1. i \in Nat /\ i - 1 \in 0 .. BUF_LEN /\ (i - 1) + 1 = i /\ i - 1 < n
    BY <1>3, LengthType
  <2>2. i - 1 \in S
    BY <2>1
  <2> QED BY <1>2, <1>3, <2>1, <2>2, LengthType
<1>5. P(n)
  BY <1>3, <1>4
<1> QED
  BY <1>3, <1>5 DEF StrLen

LEMMA RestBound ==
    ASSUME NEW t \in Task, off[t] \in Nat, asked[t] \in Nat, NEW size \in 0 .. BUF_LEN
    PROVE  /\ Rest(t, size) \in 0 .. BUF_LEN
           /\ Rest(t, size) # 0 => off[t] < BUF_LEN
BY LengthType DEF Rest, Least

LEMMA FlagsStep == ASSUME Flags, NEW t \in Task, Step(t) PROVE Flags'
<1> USE DEF Flags, led, reader
<1>1. CASE Write(t) \/ CopyIn(t) \/ Terminate(t) \/ WakeUp(t)
  BY <1>1 DEF Write, CopyIn, Terminate, WakeUp
<1>2. CASE Begin(t)
  BY <1>2 DEF Begin
<1>3. CASE WriteFault(t)
  BY <1>3 DEF WriteFault
<1>4. CASE Commit(t)
  BY <1>4 DEF Commit
<1>5. CASE Search(t)
  <2>1. together' \in BOOLEAN
    BY <1>5 DEF Search
  <2> QED BY <1>5, <2>1 DEF Search
<1>6. CASE Obey(t)
  BY <1>6 DEF Obey, SetPin, SetState
<1>7. CASE Read(t) \/ Ready(t) \/ Sleep(t) \/ GiveUp(t) \/ Signal(t)
  BY <1>7 DEF Read, Ready, Sleep, GiveUp, Signal
<1>8. CASE Measure(t) \/ Span(t) \/ CopyOut(t) \/ ReadFault(t)
  BY <1>8 DEF Measure, Span, CopyOut, ReadFault
<1>9. CASE Done(t)
  BY <1>9 DEF Done
<1>10. CASE Reopen(t) \/ Reset(t)
  BY <1>10 DEF Reopen, Reset, Clear
<1> QED
  BY <1>1, <1>2, <1>3, <1>4, <1>5, <1>6, <1>7, <1>8, <1>9, <1>10 DEF Step

LEMMA RoomStep ==
    ASSUME Typed, Working, Copied, Room, NEW t \in Task, Step(t) PROVE Room'
<1> DEFINE R(u) == /\ left[u] \in 0 .. BUF_LEN /\ asked[u] \in {0, 1, BUF_LEN}
                   /\ Len(got[u]) <= BUF_LEN /\ off[u] <= 2 * BUF_LEN
                   /\ pc[u] = "r_span" => got[u] = <<>>
                   /\ pc[u] \in {"r_span", "r_copy"} => left[u] # 0 /\ off[u] < BUF_LEN
                   /\ pc[u] = "r_copy" => Len(got[u]) + left[u] <= BUF_LEN
                   /\ got[u] # <<>> => off[u] < BUF_LEN
<1>1. ASSUME NEW u \in Task \ {t} PROVE R(u)'
  <2>1. /\ UNCHANGED <<left[u], asked[u], got[u], off[u]>>
        /\ pc'[u] \in {"r_span", "r_copy"} => pc'[u] = pc[u]
    BY OthersStay
  <2>2. R(u)
    BY DEF Room
  <2> QED BY <2>1, <2>2
<1>2. buffer_len' \in 0 .. BUF_LEN - 1
  <2>1. CASE CopyIn(t) \/ WriteFault(t) \/ Terminate(t) \/ Reset(t)
    BY <2>1 DEF CopyIn, WriteFault, Terminate, Reset, Clear, Room
  <2>2. CASE Commit(t)
    <3>1. text[t] \in Text
      BY <2>2 DEF Commit, Go, Working, Writer
    <3>2. Length[text[t]] \in 0 .. BUF_LEN - 1
      BY <3>1, LengthType
    <3> QED BY <2>2, <3>2 DEF Commit, Room
  <2> QED BY <2>1, <2>2, BufferStays DEF Room
<1> SUFFICES R(t)'
  BY <1>1, <1>2 DEF Room
<1>3. /\ R(t) /\ BUF_LEN \in Nat /\ BUF_LEN > 1
      /\ asked[t] \in Nat /\ off[t] \in Nat /\ got[t] \in Seq(Value) /\ Len(got[t]) \in Nat
  BY LengthType DEF Room, Typed
<1>4. ASSUME UNCHANGED <<asked, got, off>>, left'[t] \in 0 .. BUF_LEN,
             pc'[t] \notin {"r_span", "r_copy"}
      PROVE  R(t)'
  BY <1>3, <1>4
<1> USE DEF Typed, Go, reader
<1>5. CASE Write(t)
  <2>1. PICK x \in Text : left' = [left EXCEPT ![t] = Length[x]]
    BY <1>5 DEF Write
  <2>2. left'[t] \in 0 .. BUF_LEN
    BY <2>1, LengthType
  <2> QED BY <1>4, <1>5, <2>2 DEF Write
<1>6. CASE CopyIn(t)
  <2>1. left[t] \in 1 .. Length[text[t]] /\ left'[t] = left[t] - 1 /\ text[t] \in Text
    BY <1>6 DEF CopyIn, Working, Writer
  <2>2. left'[t] \in 0 .. BUF_LEN
    BY <2>1, LengthType
  <2> QED BY <1>4, <1>6, <2>2 DEF CopyIn
<1>7. CASE WriteFault(t)
  <2>1. left'[t] = 0 /\ 0 \in 0 .. BUF_LEN
    BY <1>3, <1>7 DEF WriteFault
  <2> QED BY <1>4, <1>7, <2>1 DEF WriteFault
<1>8. CASE Begin(t) \/ Terminate(t) \/ Commit(t) \/ WakeUp(t)
  <2>1. UNCHANGED <<left, asked, got, off>> /\ pc'[t] \notin {"r_span", "r_copy"}
    BY <1>8, AfterWritePlace DEF Begin, Terminate, Commit, WakeUp
  <2> QED BY <1>3, <1>4, <2>1
<1>9. CASE Search(t)
  <2>1. UNCHANGED <<left, asked, got, off>> /\ pc'[t] \notin {"r_span", "r_copy"}
    BY <1>9, SearchPlace DEF Search
  <2> QED BY <1>3, <1>4, <2>1
<1>10. CASE Obey(t)
  <2>1. UNCHANGED <<left, asked, got, off>> /\ pc'[t] \notin {"r_span", "r_copy"}
    BY <1>10 DEF Obey, SetPin, SetState
  <2> QED BY <1>3, <1>4, <2>1
<1>11. CASE Ready(t) \/ Sleep(t) \/ Signal(t)
  <2>1. UNCHANGED <<left, asked, got, off>> /\ pc'[t] \notin {"r_span", "r_copy"}
    BY <1>11 DEF Ready, Sleep, Signal
  <2> QED BY <1>3, <1>4, <2>1
<1>12. CASE Read(t) \/ GiveUp(t)
  <2>1. /\ UNCHANGED <<left, got, off>> /\ pc'[t] \notin {"r_span", "r_copy"}
        /\ asked'[t] \in {0, 1, BUF_LEN}
    BY <1>12 DEF Read, GiveUp
  <2> QED BY <1>3, <2>1
<1>13. CASE Measure(t)
  <2> DEFINE size == IF Has("length") THEN buffer_len ELSE StrLen
  <2>1. size \in 0 .. BUF_LEN
    BY <1>3, StrLenBound DEF Room
  <2> HIDE DEF size
  <2> DEFINE m == Rest(t, size)
  <2>2. /\ left'[t] = m /\ (m = 0 => pc'[t] = "r_done")
        /\ UNCHANGED <<asked, got, off>> /\ got[t] = <<>>
    BY <1>13 DEF Measure, size, Copied, Reader
  <2>3. m \in 0 .. BUF_LEN /\ (m # 0 => off[t] < BUF_LEN)
    BY <1>3, <2>1, RestBound
  <2> HIDE DEF m
  <2>4. Len(got'[t]) = 0 /\ left'[t] \in 0 .. BUF_LEN /\ Len(got'[t]) + left'[t] <= BUF_LEN
    BY <1>3, <2>2, <2>3
  <2> QED BY <1>3, <2>2, <2>3, <2>4
<1>14. CASE Span(t)
  <2>1. PICK n \in {left[t], IF off[t] > buffer_len THEN asked[t]
                             ELSE Least(asked[t], buffer_len - off[t])} :
           /\ Go(t, "r_span", IF n = 0 THEN "r_done" ELSE "r_copy")
           /\ left' = [left EXCEPT ![t] = n]
    BY <1>14 DEF Span
  <2>2. n \in 0 .. BUF_LEN
    BY <1>3, <2>1 DEF Room, Least
  <2>3. /\ left'[t] = n /\ (n = 0 => pc'[t] = "r_done") /\ pc'[t] # "r_span"
        /\ UNCHANGED <<asked, got, off>> /\ got[t] = <<>> /\ off[t] < BUF_LEN
    BY <1>3, <1>14, <2>1 DEF Span
  <2>4. Len(got'[t]) = 0 /\ Len(got'[t]) + left'[t] <= BUF_LEN
    BY <1>3, <2>2, <2>3
  <2> QED BY <1>3, <2>2, <2>3, <2>4
<1>15. CASE CopyOut(t)
  <2>1. PICK v \in Value : got'[t] = Append(got[t], v)
    <3> DEFINE i == off[t] + Len(got[t]) + 1
               w == IF i \in Cell THEN buffer[i] ELSE Beyond
    <3>1. w \in Value
      BY DEF Value
    <3>2. got'[t] = Append(got[t], w)
      BY <1>15 DEF CopyOut
    <3> QED BY <3>1, <3>2
  <2>2. /\ pc[t] = "r_copy" /\ left'[t] = left[t] - 1 /\ UNCHANGED <<asked, off>>
        /\ pc'[t] = IF left[t] = 1 THEN "r_done" ELSE "r_copy"
    BY <1>15 DEF CopyOut
  <2>3. Len(got'[t]) = Len(got[t]) + 1
    BY <1>3, <2>1
  <2>4. /\ left[t] \in 1 .. BUF_LEN /\ Len(got[t]) + left[t] <= BUF_LEN /\ off[t] < BUF_LEN
    BY <1>3, <2>2
  <2>5. /\ left'[t] \in 0 .. BUF_LEN /\ Len(got'[t]) + left'[t] <= BUF_LEN
        /\ Len(got'[t]) <= BUF_LEN
    BY <1>3, <2>2, <2>3, <2>4
  <2>6. pc'[t] = "r_copy" => left'[t] # 0
    BY <2>2, <2>4
  <2> QED BY <1>3, <2>2, <2>4, <2>5, <2>6
<1>16. CASE ReadFault(t)
  <2>1. /\ UNCHANGED <<left, asked, off>> /\ pc'[t] = "r_done"
        /\ got'[t] = <<>> \/ got'[t] = got[t]
    BY <1>16 DEF ReadFault
  <2>2. Len(got'[t]) <= BUF_LEN /\ (got'[t] # <<>> => got'[t] = got[t])
    BY <1>3, <2>1
  <2> QED BY <1>3, <2>1, <2>2
<1>17. CASE Done(t)
  <2>1. /\ pc'[t] = "user" /\ asked'[t] = 0 /\ left'[t] = 0 /\ got'[t] = <<>>
        /\ off'[t] = IF ~Has("status") THEN off[t] + Len(got[t])
                     ELSE IF left[t] = 0 THEN BUF_LEN ELSE off[t]
    BY <1>17 DEF Done
  <2>2. off[t] + Len(got[t]) <= 2 * BUF_LEN
    <3>1. CASE got[t] = <<>>
      BY <1>3, <3>1
    <3>2. CASE got[t] # <<>>
      BY <1>3, <3>2
    <3> QED BY <3>1, <3>2
  <2>3. off'[t] <= 2 * BUF_LEN
    BY <1>3, <2>1, <2>2
  <2> QED BY <1>3, <2>1, <2>3
<1>18. CASE Reopen(t)
  <2>1. UNCHANGED <<left, asked, got>> /\ pc'[t] = "user" /\ off'[t] = 0
    BY <1>18 DEF Reopen
  <2> QED BY <1>3, <2>1
<1>19. CASE Reset(t)
  <2>1. UNCHANGED <<left, asked, got, off>> /\ pc'[t] = "user"
    BY <1>19 DEF Reset, Clear
  <2> QED BY <1>3, <1>4, <2>1
<1> QED
  BY <1>5, <1>6, <1>7, <1>8, <1>9, <1>10, <1>11, <1>12, <1>13, <1>14, <1>15, <1>16, <1>17,
     <1>18, <1>19 DEF Step

(* Type correctness: whatever the users do, no read() of any of the        *)
(* drivers holds more cells than the buffer has, nor is its file ever      *)
(* further than two buffers.                                               *)
THEOREM TypeCorrect == Spec => []TypeOK
<1>1. Init => Room /\ Flags
  <2> SUFFICES ASSUME Init PROVE Room /\ Flags
    OBVIOUS
  <2>1. \A t \in Task : pc[t] = "user" /\ left[t] = 0 /\ asked[t] = 0 /\ got[t] = <<>> /\ off[t] = 0
    BY DEF Init
  <2>2. buffer_len \in 0 .. BUF_LEN - 1
    BY LengthType DEF Init
  <2>3. Len(<<>>) = 0 /\ 0 \in 0 .. BUF_LEN /\ 0 <= BUF_LEN /\ 0 <= 2 * BUF_LEN
    BY LengthType
  <2>4. Flags
    BY DEF Init, Flags
  <2> QED BY <2>1, <2>2, <2>3, <2>4 DEF Room
<1>2. ASSUME IInv, Room, Flags, NEW t \in Task, Step(t) PROVE (Room /\ Flags)'
  BY <1>2, RoomStep, FlagsStep DEF IInv
<1>3. Room /\ Flags /\ UNCHANGED vars => (Room /\ Flags)'
  BY DEF Room, Flags, vars, data, reader, led
<1>4. IInv /\ Room /\ Flags /\ [Next]_vars => (Room /\ Flags)'
  BY <1>2, <1>3 DEF Next, Step
<1>5. IInv /\ Room /\ Flags => TypeOK
  <2> SUFFICES ASSUME IInv, Room, Flags PROVE TypeOK
    OBVIOUS
  <2> USE DEF IInv, Typed
  <2>1. left \in [Task -> 0 .. BUF_LEN] /\ asked \in [Task -> {0, 1, BUF_LEN}]
    BY DEF Room
  <2>2. off \in [Task -> 0 .. 2 * BUF_LEN]
    BY LengthType DEF Room
  <2>3. \A t \in Task : got[t] \in Seq(Text \cup {NUL, Greeting, Beyond}) /\ Len(got[t]) <= BUF_LEN
    BY DEF Room, Value
  <2>4. pc \in [Task -> {"user", "w_lock", "w_copy", "w_end", "w_commit", "wake", "r_wait",
                         "asleep", "r_lock", "r_span", "r_copy", "r_done"}
                        \cup {Question[k] : k \in 1 .. 3} \cup LedPlaces]
    <3>1. Question[1] = "ledon?" /\ Question[2] = "ledoff?" /\ Question[3] = "toggle?"
      BY DEF Question
    <3>2. {"ledon?", "ledoff?", "toggle?"} \subseteq {Question[k] : k \in 1 .. 3}
      BY <3>1
    <3> QED BY <3>2 DEF Places, LedPlaces
  <2> QED BY <2>1, <2>2, <2>3, <2>4 DEF TypeOK, Room, Flags
<1> QED
  BY <1>1, <1>4, <1>5, Invariance, PTL DEF Spec
=============================================================================
