----------------------------- MODULE TextDevice -----------------------------
(***************************************************************************)
(* The drivers of ALL_IN_1 and bottom_half whose write() keeps a text in a *)
(* static buffer and whose read() gives it back: 008, 009, 011, 012, 013,  *)
(* 014, 17, 18 and own_work_queue/qw.c.  They are one program with a few   *)
(* features added or left out (module TextTables): locks, a wait queue, a  *)
(* counter, a stored length, a LED that obeys the text.                    *)
(*                                                                         *)
(* copy_from_user and copy_to_user may sleep and may fault, so a text goes *)
(* in and out cell by cell.  A text longer than the buffer is cut before   *)
(* anything else is done with it, and is the cut text from then on.        *)
(***************************************************************************)
EXTENDS Naturals, Sequences, SequencesExt

CONSTANTS Task,            \* users, each with a file of its own
          Device,          \* a function from drivers to their features
          Text, Length,    \* what is written, and how many cells it takes
          Command,         \* <<ledon, ledoff, toggle>>
          BUF_LEN,         \* cells of the buffer
          MAX_COUNT,       \* bound: write_count is followed up to here
          Greeting,        \* what probe puts into the buffer, one cell
          NUL, Beyond,     \* the terminator; what lies behind the buffer
          None             \* nobody

ASSUME BufferAssumption == /\ BUF_LEN \in Nat \ {0, 1} /\ MAX_COUNT \in Nat \ {0}
                           /\ Length \in [Text -> 1 .. BUF_LEN - 1]
                           /\ Command \in [1 .. 3 -> Text]
ASSUME NameAssumption == /\ {NUL, Beyond, Greeting} \cap Text = {}
                         /\ Greeting \notin {NUL, Beyond} /\ None \notin Task

\* Who waits, waits under the mutex; who counts, counts under it and begins empty.
ASSUME FeatureAssumption ==
    \A d \in DOMAIN Device :
       /\ "waits" \in Device[d] => {"write lock", "read lock"} \subseteq Device[d]
       /\ "counts" \in Device[d] => /\ "write lock" \in Device[d]
                                    /\ {"blind", "greets"} \cap Device[d] = {}
       /\ "length" \in Device[d] =>
             {"write lock", "read lock", "blind", "counts"} \cap Device[d] = {}

VARIABLES dev,             \* the driver under consideration
          buffer, buffer_len, data_available, write_count,
          lock,            \* the holder of its mutex
          level, led_state,
          pc, text,        \* a user's place, and the text it writes
          left,            \* cells still to copy, in or out
          asked, got, off, \* a reader's len, what it has copied, its file offset
          spoilt,          \* history: the buffer is not one successful write's
          overlap,         \* history: writers have met since the buffer was last left alone
          disturbed,       \* history: readers in whose time the buffer was changed
          taken,           \* history: a reader has got the text in the buffer
          hasty,           \* history: readers that a signal or another reader
                           \* has let past an empty device
          together         \* history: the last to set the LED was not alone at it

data == <<buffer, buffer_len, data_available, write_count>>
led == <<level, led_state, together>>
reader == <<asked, got, off, disturbed, hasty>>
vars == <<dev, data, lock, led, pc, text, left, reader, spoilt, overlap, taken>>

Has(feature) == feature \in Device[dev]
Cell == 1 .. BUF_LEN
Cells(x) == [i \in 1 .. Length[x] |-> x]
At(places) == {t \in Task : pc[t] \in places}
Go(t, from, to) == pc[t] = from /\ pc' = [pc EXCEPT ![t] = to]
Least(a, b) == IF a < b THEN a ELSE b

StrLen == CHOOSE n \in 0 .. BUF_LEN : /\ \A i \in 1 .. n : buffer[i] # NUL
                                      /\ n = BUF_LEN \/ buffer[n + 1] = NUL
TextNow == SubSeq(buffer, 1, StrLen)

Init == /\ dev \in DOMAIN Device
        /\ buffer = [i \in Cell |-> IF Has("greets") /\ i = 1 THEN Greeting ELSE NUL]
        /\ buffer_len = IF Has("greets") THEN 1 ELSE 0
        /\ data_available = 0 /\ write_count = 0 /\ lock = None
        /\ level = 0 /\ led_state = 0
        /\ pc = [t \in Task |-> "user"] /\ text = [t \in Task |-> NUL]
        /\ left = [t \in Task |-> 0] /\ asked = [t \in Task |-> 0]
        /\ got = [t \in Task |-> <<>>] /\ off = [t \in Task |-> 0]
        /\ spoilt = FALSE /\ overlap = FALSE /\ disturbed = {}
        /\ taken = FALSE /\ hasty = {} /\ together = FALSE

\* A handler that forgets the mutex.
TakeNothing(t, how) == UNCHANGED lock
\* mutex_lock, if the handler takes it; unlocking is part of its last step.
Take(t, how) == IF Has(how) THEN lock = None /\ lock' = t ELSE UNCHANGED lock
Leave(t) == lock' = IF lock = t THEN None ELSE lock
-----------------------------------------------------------------------------
(* write()                                                                 *)

Writing == At({"w_copy", "w_end", "w_commit"})
Reading == At({"r_span", "r_copy", "r_done"})

Write(t) == /\ Go(t, "user", "w_lock")
            /\ \E x \in Text : /\ text' = [text EXCEPT ![t] = x]
                               /\ left' = [left EXCEPT ![t] = Length[x]]
            /\ UNCHANGED <<dev, data, lock, led, reader, spoilt, overlap, taken>>

Begin(t) == /\ Go(t, "w_lock", "w_copy") /\ Take(t, "write lock")
            /\ overlap' = (Writing # {})
            /\ disturbed' = disturbed \cup Reading
            /\ UNCHANGED <<dev, data, led, text, left, asked, got, off, spoilt, taken, hasty>>

CopyIn(t) == /\ pc[t] = "w_copy"
             /\ buffer' = [buffer EXCEPT ![Length[text[t]] - left[t] + 1] = text[t]]
             /\ left' = [left EXCEPT ![t] = @ - 1]
             /\ pc' = [pc EXCEPT ![t] = IF left[t] = 1 THEN "w_end" ELSE "w_copy"]
             /\ UNCHANGED <<dev, buffer_len, data_available, write_count, lock, led,
                            text, reader, spoilt, overlap, taken>>

\* A copy_from_user that stops half way fills the rest with zeros; 014 does not
\* look at what it returns, the others give up.
WriteFault(t) ==
    /\ pc[t] = "w_copy"
    /\ buffer' = [i \in Cell |-> IF i \in Length[text[t]] - left[t] + 1 .. Length[text[t]]
                                 THEN NUL ELSE buffer[i]]
    /\ left' = [left EXCEPT ![t] = 0]
    /\ IF Has("blind") THEN Go(t, "w_copy", "w_end") /\ UNCHANGED <<lock, text, spoilt>>
                       ELSE /\ Go(t, "w_copy", "user") /\ Leave(t) /\ spoilt' = TRUE
                            /\ text' = [text EXCEPT ![t] = NUL]
    /\ UNCHANGED <<dev, buffer_len, data_available, write_count, led, reader,
                   overlap, taken>>

\* A write that leaves the old text's tail behind.
NoTerminate(t) == /\ Go(t, "w_end", "w_commit")
                  /\ UNCHANGED <<dev, data, lock, led, text, left, reader, spoilt, overlap, taken>>
\* buffer[len] = '\0'
Terminate(t) == /\ Go(t, "w_end", "w_commit")
                /\ buffer' = [buffer EXCEPT ![Length[text[t]] + 1] = NUL]
                /\ UNCHANGED <<dev, buffer_len, data_available, write_count, lock, led,
                               text, left, reader, spoilt, overlap, taken>>

\* What follows the copy, and the unlock.  014 then wakes its readers, which a
\* silent write would not, and 18 looks for its commands.
Question == <<"ledon?", "ledoff?", "toggle?">>
AfterSilent == IF Has("led") THEN Question[1] ELSE "user"
AfterWrite == IF Has("waits") THEN "wake" ELSE IF Has("led") THEN Question[1] ELSE "user"
Commit(t) ==
    /\ Go(t, "w_commit", AfterWrite)
    /\ buffer_len' = IF Has("length") THEN Length[text[t]] ELSE buffer_len
    /\ data_available' = IF Has("waits") THEN 1 ELSE data_available
    /\ write_count' = IF Has("counts") THEN Least(write_count + 1, MAX_COUNT) ELSE write_count
    /\ Leave(t)
    /\ spoilt' = overlap /\ taken' = FALSE
    /\ text' = [text EXCEPT ![t] = NUL]
    /\ UNCHANGED <<dev, buffer, led, left, reader, overlap>>

\* wake_up_interruptible
WakeUp(t) == /\ pc[t] = "wake"
             /\ pc' = [u \in Task |-> IF u = t THEN "user"
                                      ELSE IF pc[u] = "asleep" THEN "r_wait" ELSE pc[u]]
             /\ UNCHANGED <<dev, data, lock, led, text, left, reader, spoilt, overlap, taken>>
-----------------------------------------------------------------------------
(* The LED of 18.  A writer searches the buffer, which by then may hold    *)
(* another text or be in the making, for one command after the other, and  *)
(* obeys the first it finds; the toggle is a load, a store and a set whose *)
(* argument the compiler may load again.                                   *)

LedPlaces == {"on", "on_state", "off", "off_state", "store_0", "store_1", "set_0", "set_1"}
Found(x) == \E i \in 1 .. StrLen + 1 - Length[x] :
               \A j \in 1 .. Length[x] : buffer[i + j - 1] = x
Search(t) ==
    \E k \in 1 .. 3, found \in BOOLEAN :
       /\ pc[t] = Question[k]
       /\ Writing = {} => (found <=> Found(Command[k]))
       /\ pc' = [pc EXCEPT ![t] =
                   IF found THEN <<"on", "off", IF led_state = 1 THEN "store_0" ELSE "store_1">>[k]
                            ELSE <<"ledoff?", "toggle?", "user">>[k]]
       /\ together' = IF found THEN At(LedPlaces) # {} ELSE together
       /\ UNCHANGED <<dev, data, lock, level, led_state, text, left, reader, spoilt, overlap, taken>>

SetPin(t, from, to, values) ==
    /\ Go(t, from, to) /\ level' \in values
    /\ UNCHANGED <<dev, data, lock, led_state, together, text, left, reader, spoilt, overlap, taken>>
SetState(t, from, to, value) ==
    /\ Go(t, from, to) /\ led_state' = value
    /\ UNCHANGED <<dev, data, lock, level, together, text, left, reader, spoilt, overlap, taken>>
\* An "off" that forgets to record what it did.
ObeyHalf(t) == \/ SetPin(t, "on", "on_state", {1})   \/ SetState(t, "on_state", "user", 1)
               \/ SetPin(t, "off", "user", {0})
               \/ SetState(t, "store_0", "set_0", 0) \/ SetPin(t, "set_0", "user", {0, led_state})
               \/ SetState(t, "store_1", "set_1", 1) \/ SetPin(t, "set_1", "user", {1, led_state})
Obey(t) == \/ SetPin(t, "on", "on_state", {1})   \/ SetState(t, "on_state", "user", 1)
           \/ SetPin(t, "off", "off_state", {0}) \/ SetState(t, "off_state", "user", 0)
           \/ SetState(t, "store_0", "set_0", 0) \/ SetPin(t, "set_0", "user", {0, led_state})
           \/ SetState(t, "store_1", "set_1", 1) \/ SetPin(t, "set_1", "user", {1, led_state})
-----------------------------------------------------------------------------
(* read()                                                                  *)

Read(t) == /\ Go(t, "user", IF Has("waits") THEN "r_wait" ELSE "r_lock")
           /\ \E n \in {1, BUF_LEN} : asked' = [asked EXCEPT ![t] = n]
           /\ UNCHANGED <<dev, data, lock, led, text, left, got, off, disturbed, hasty,
                          spoilt, overlap, taken>>

\* wait_event_interruptible; an O_NONBLOCK read gives up instead of sleeping.
Ready(t) == /\ data_available = 1 /\ Go(t, "r_wait", "r_lock")
            /\ UNCHANGED <<dev, data, lock, led, text, left, reader, spoilt, overlap, taken>>
Sleep(t) == /\ data_available = 0 /\ Go(t, "r_wait", "asleep")
            /\ UNCHANGED <<dev, data, lock, led, text, left, reader, spoilt, overlap, taken>>
GiveUp(t) == /\ data_available = 0 /\ Go(t, "r_wait", "user")
             /\ asked' = [asked EXCEPT ![t] = 0]
             /\ UNCHANGED <<dev, data, lock, led, text, left, got, off, disturbed, hasty,
                            spoilt, overlap, taken>>
\* A signal ends the wait, and its result is not looked at.
Signal(t) == /\ Go(t, "asleep", "r_lock") /\ hasty' = hasty \cup {t}
             /\ UNCHANGED <<dev, data, lock, led, text, left, asked, got, off, disturbed,
                            spoilt, overlap, taken>>

\* The test of the offset and the number of cells to copy.
Rest(t, size) == IF off[t] >= size THEN 0 ELSE Least(asked[t], size - off[t])
Measure(t) ==
    LET n == Rest(t, IF Has("length") THEN buffer_len ELSE StrLen)
    IN  /\ Go(t, "r_lock", IF n = 0 THEN "r_done" ELSE IF Has("length") THEN "r_span" ELSE "r_copy")
        /\ Take(t, "read lock")
        /\ left' = [left EXCEPT ![t] = n]
        /\ disturbed' = IF spoilt \/ Writing # {} THEN disturbed \cup {t} ELSE disturbed
        /\ UNCHANGED <<dev, data, led, text, asked, got, off, hasty, spoilt, overlap, taken>>

\* 17 names buffer_len twice: the difference may be of another length, and is
\* as good as infinite when it is negative.
Span(t) ==
    \E n \in {left[t], IF off[t] > buffer_len THEN asked[t] ELSE Least(asked[t], buffer_len - off[t])} :
       /\ Go(t, "r_span", IF n = 0 THEN "r_done" ELSE "r_copy")
       /\ left' = [left EXCEPT ![t] = n]
       /\ UNCHANGED <<dev, data, lock, led, text, reader, spoilt, overlap, taken>>

CopyOut(t) ==
    LET i == off[t] + Len(got[t]) + 1
    IN  /\ pc[t] = "r_copy"
        /\ got' = [got EXCEPT ![t] = Append(@, IF i \in Cell THEN buffer[i] ELSE Beyond)]
        /\ left' = [left EXCEPT ![t] = @ - 1]
        /\ pc' = [pc EXCEPT ![t] = IF left[t] = 1 THEN "r_done" ELSE "r_copy"]
        /\ UNCHANGED <<dev, data, lock, led, text, asked, off, disturbed, hasty,
                       spoilt, overlap, taken>>
\* simple_read_from_buffer keeps what was copied; 17 and 18 report a fault.
ReadFault(t) ==
    /\ Go(t, "r_copy", "r_done")
    /\ got' = IF Has("length") \/ Has("status") THEN [got EXCEPT ![t] = <<>>] ELSE got
    /\ UNCHANGED <<dev, data, lock, led, text, left, asked, off, disturbed, hasty,
                   spoilt, overlap, taken>>

\* A read that leaves the text for the next one, and one that takes it.
LeftThere == data_available
TakenAway == IF Has("waits") THEN 0 ELSE data_available
\* The offset (18 moves it past everything), the flag, the unlock.
Done(t) ==
    /\ Go(t, "r_done", "user") /\ Leave(t)
    /\ off' = [off EXCEPT ![t] = IF ~Has("status") THEN @ + Len(got[t])
                                 ELSE IF left[t] = 0 THEN BUF_LEN ELSE @]
    /\ data_available' = TakenAway
    /\ taken' = (Has("waits") /\ (taken \/ got[t] # <<>>))
    /\ hasty' = (hasty \ {t}) \cup (IF Has("waits") THEN At({"r_lock"}) ELSE {})
    /\ disturbed' = disturbed \ {t}
    /\ asked' = [asked EXCEPT ![t] = 0] /\ left' = [left EXCEPT ![t] = 0]
    /\ got' = [got EXCEPT ![t] = <<>>]
    /\ UNCHANGED <<dev, buffer, buffer_len, write_count, led, text, spoilt, overlap>>

\* close() and open(): the offset starts again.
Reopen(t) == /\ pc[t] = "user" /\ off[t] # 0 /\ off' = [off EXCEPT ![t] = 0]
             /\ UNCHANGED <<dev, data, lock, led, pc, text, left, asked, got, disturbed, hasty,
                            spoilt, overlap, taken>>

\* IOCTL_RESET_BUFFER: what it does, and what it does under the mutex.
Clear(t) == /\ Has("counts") /\ pc[t] = "user"
            /\ buffer' = [i \in Cell |-> NUL] /\ write_count' = 0
            /\ spoilt' = FALSE /\ disturbed' = disturbed \cup Reading
            /\ UNCHANGED <<dev, buffer_len, data_available, lock, led, pc, text, left,
                           asked, got, off, hasty, overlap, taken>>
Reset(t) == lock = None /\ Clear(t)
-----------------------------------------------------------------------------
Next == \E t \in Task :
           \/ Write(t) \/ Begin(t) \/ CopyIn(t) \/ WriteFault(t) \/ Terminate(t) \/ Commit(t)
           \/ WakeUp(t) \/ Search(t) \/ Obey(t)
           \/ Read(t) \/ Ready(t) \/ Sleep(t) \/ GiveUp(t) \/ Signal(t) \/ Measure(t) \/ Span(t)
           \/ CopyOut(t) \/ ReadFault(t) \/ Done(t) \/ Reopen(t) \/ Reset(t)
Spec == Init /\ [][Next]_vars

(* Every variable keeps its type.                                          *)
TypeOK ==
    /\ dev \in DOMAIN Device /\ lock \in Task \cup {None}
    /\ buffer \in [Cell -> Text \cup {NUL, Greeting}] /\ buffer_len \in 0 .. BUF_LEN - 1
    /\ data_available \in {0, 1} /\ write_count \in 0 .. MAX_COUNT
    /\ level \in {0, 1} /\ led_state \in {0, 1}
    /\ pc \in [Task -> {"user", "w_lock", "w_copy", "w_end", "w_commit", "wake", "r_wait",
                        "asleep", "r_lock", "r_span", "r_copy", "r_done"}
                       \cup {Question[k] : k \in 1 .. 3} \cup LedPlaces]
    /\ text \in [Task -> Text \cup {NUL}]
    /\ left \in [Task -> 0 .. BUF_LEN] /\ asked \in [Task -> {0, 1, BUF_LEN}]
    /\ \A t \in Task : got[t] \in Seq(Text \cup {NUL, Greeting, Beyond}) /\ Len(got[t]) <= BUF_LEN
    /\ off \in [Task -> 0 .. 2 * BUF_LEN]
    /\ disturbed \subseteq Task /\ hasty \subseteq Task
    /\ {spoilt, overlap, taken, together} \subseteq BOOLEAN

(* What one read() returns is of one text, and never a cell behind it: in  *)
(* 014, which locks both sides, always; in the others when no write() met  *)
(* it and the buffer was not left by writes that met or failed.            *)
OneText == \A t \in At({"r_done"}) :
              \/ t \in disturbed /\ ~({"write lock", "read lock"} \subseteq Device[dev])
              \/ \E x \in Text \cup {Greeting} : \A i \in 1 .. Len(got[t]) : got[t][i] = x

(* 014 gives a text to one reader.  Another gets it again only if a signal *)
(* ended its wait or if it had passed the wait before the first one came   *)
(* back: data_available is not looked at again under the mutex.            *)
FreshText == \A t \in At({"r_done"}) : Has("waits") /\ taken /\ got[t] # <<>> => t \in hasty

(* A text leaves 014 only with a reader that got all of it, or as much as  *)
(* it asked for, or whose file was past the beginning, or that faulted: no *)
(* text is dropped because a read and a write met.                         *)
NothingDropped == [][data_available = 1 /\ data_available' = 0 =>
                        \E t \in At({"r_done"}) : \/ got[t] = TextNow \/ Len(got[t]) = asked[t]
                                                  \/ off[t] > 0 \/ left[t] > 0]_vars

(* While the mutex of 011 is free, write_count tells whether there is a    *)
(* text: the reset and the write change the two together.                  *)
CountMatchesText == Has("counts") /\ lock = None /\ ~spoilt =>
                       (write_count > 0 <=> buffer[1] # NUL)

(* No reader of 014 sleeps on a text that nobody will wake it for.         *)
NoSleeperForgotten == data_available = 1 /\ At({"asleep"}) # {} => At({"wake"}) # {}

(* led_state is what the pin of 18 shows whenever nobody is setting it and *)
(* the last to set it was alone: two writers that met may leave the status *)
(* wrong, one after the other never does, whatever the texts.              *)
LedAgrees == At(LedPlaces) = {} /\ ~together => level = led_state
=============================================================================
