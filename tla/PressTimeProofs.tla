--------------------------- MODULE PressTimeProofs ---------------------------
(***************************************************************************)
(* Theorems about the two drivers that judge presses by jiffies, for every *)
(* word size, delay and number of writers.  Only differences of times are  *)
(* known, and those modulo the word: the invariants say how the history    *)
(* variables, which count ticks without a wrap, and the words the drivers  *)
(* store go together.                                                      *)
(***************************************************************************)
EXTENDS MCPressTime, TLAPS

-----------------------------------------------------------------------------
(* Arithmetic of a word.                                                   *)

HALF == WORD \div 2

LEMMA Halves == HALF \in Nat \ {0} /\ WORD \in Nat \ {0} /\ WORD = 2 * HALF
<1>1. WORD \in Nat /\ WORD % 2 = 0 /\ HALF \in Nat /\ HALF >= 1
  BY WordAssumption DEF HALF
<1>2. WORD = (2 * (WORD \div 2)) + (WORD % 2)
  BY <1>1
<1> QED BY <1>1, <1>2 DEF HALF

\* Equal as words.
Same(a, b) == (a - b) % WORD = 0

LEMMA Remainder == ASSUME NEW x \in Int
                   PROVE  /\ x \div WORD \in Int
                          /\ x % WORD \in 0 .. WORD - 1
                          /\ x = (WORD * (x \div WORD)) + (x % WORD)
<1>1. WORD \in Nat /\ WORD > 0
  BY Halves
<1>2. x \div WORD \in Int /\ x % WORD \in 0 .. WORD - 1
  BY <1>1
<1>3. x = (WORD * (x \div WORD)) + (x % WORD)
  BY <1>1
<1> QED BY <1>2, <1>3

\* Division with a remainder has one answer.
LEMMA OneRemainder ==
  ASSUME NEW q \in Int, NEW s \in Int, NEW r \in 0 .. WORD - 1, NEW d \in 0 .. WORD - 1,
         (WORD * q) + r = (WORD * s) + d
  PROVE  r = d
<1>1. WORD \in Nat /\ WORD * (q - s) = d - r
  BY Halves
<1>2. CASE q > s
  <2>1. WORD * (q - s - 1) >= 0
    BY <1>1, <1>2
  <2> QED BY <1>1, <2>1
<1>3. CASE q < s
  <2>1. WORD * (s - q - 1) >= 0
    BY <1>1, <1>3
  <2> QED BY <1>1, <2>1
<1> QED BY <1>1, <1>2, <1>3

\* Numbers are equal as words when whole words lie between them.
LEMMA SameTurns == ASSUME NEW a \in Int, NEW b \in Int
                   PROVE  Same(a, b) <=> \E k \in Int : a - b = WORD * k
<1>1. ASSUME Same(a, b) PROVE \E k \in Int : a - b = WORD * k
  <2>1. a - b = (WORD * ((a - b) \div WORD)) + ((a - b) % WORD) /\ (a - b) \div WORD \in Int
    BY Remainder
  <2>2. a - b = WORD * ((a - b) \div WORD)
    BY <1>1, <2>1, Halves DEF Same
  <2> QED BY <2>1, <2>2
<1>2. ASSUME NEW k \in Int, a - b = WORD * k PROVE Same(a, b)
  <2>1. WORD * k \in Int /\ 0 \in 0 .. WORD - 1 /\ (WORD * k) + 0 = WORD * k
    BY Halves
  <2>2. (WORD * k) % WORD = 0
    BY <2>1, Remainder, OneRemainder
  <2> QED BY <1>2, <2>2 DEF Same
<1> QED BY <1>1, <1>2

LEMMA SameAdds == ASSUME NEW a \in Int, NEW b \in Int, NEW c \in Int, NEW d \in Int,
                         Same(a, b), Same(c, d)
                  PROVE  Same(a + c, b + d)
<1>1. PICK k \in Int : a - b = WORD * k
  BY SameTurns
<1>2. PICK l \in Int : c - d = WORD * l
  BY SameTurns
<1>3. (a + c) - (b + d) = WORD * (k + l) /\ k + l \in Int
  BY <1>1, <1>2, Halves
<1>4. a + c \in Int /\ b + d \in Int
  OBVIOUS
<1> QED BY <1>3, <1>4, SameTurns

LEMMA SameTakes == ASSUME NEW a \in Int, NEW b \in Int, NEW c \in Int, NEW d \in Int,
                         Same(a, b), Same(c, d)
                  PROVE  Same(a - c, b - d)
<1>1. PICK k \in Int : a - b = WORD * k
  BY SameTurns
<1>2. PICK l \in Int : c - d = WORD * l
  BY SameTurns
<1>3. (a - c) - (b - d) = WORD * (k - l) /\ k - l \in Int
  BY <1>1, <1>2, Halves
<1>4. a - c \in Int /\ b - d \in Int
  OBVIOUS
<1> QED BY <1>3, <1>4, SameTurns

LEMMA SameChains == ASSUME NEW a \in Int, NEW b \in Int, NEW c \in Int, Same(a, b), Same(b, c)
                    PROVE  Same(a, c)
<1>1. PICK k \in Int : a - b = WORD * k
  BY SameTurns
<1>2. PICK l \in Int : b - c = WORD * l
  BY SameTurns
<1>3. a - c = WORD * (k + l) /\ k + l \in Int
  BY <1>1, <1>2, Halves
<1> QED BY <1>3, SameTurns

LEMMA SameAsRemainder == ASSUME NEW x \in Int PROVE Same(x % WORD, x)
<1>1. x % WORD \in Int /\ -(x \div WORD) \in Int
  BY Halves, Remainder
<1>2. ASSUME NEW q \in Int, NEW r \in Int, x = (WORD * q) + r
      PROVE  r - x = WORD * (-q)
  BY Halves, <1>2
<1>3. (x % WORD) - x = WORD * (-(x \div WORD))
  BY <1>1, <1>2, Remainder
<1> QED BY <1>1, <1>3, SameTurns

LEMMA SameBack == ASSUME NEW a \in Int, NEW b \in Int, Same(a, b) PROVE Same(b, a)
<1>1. PICK k \in Int : a - b = WORD * k
  BY SameTurns
<1>2. b - a = WORD * (-k) /\ -k \in Int
  BY <1>1, Halves
<1> QED BY <1>2, SameTurns

LEMMA SameSelf == ASSUME NEW x \in Int PROVE Same(x, x)
<1>1. x - x = WORD * 0
  BY Halves
<1> QED BY <1>1, SameTurns

\* A number within a word is its own remainder.
LEMMA SameWithin == ASSUME NEW x \in Int, NEW d \in 0 .. WORD - 1, Same(x, d)
                    PROVE  x % WORD = d
<1>1. PICK k \in Int : x - d = WORD * k
  BY Halves, SameTurns
<1>2. (WORD * (x \div WORD)) + (x % WORD) = (WORD * k) + d
  BY <1>1, Remainder, Halves
<1> QED BY <1>2, Remainder, OneRemainder
\* The comparisons of jiffies.h, on times less than half a word apart.
LEMMA Ahead == ASSUME NEW x \in Int, NEW d \in 1 .. HALF, Same(x, d)
               PROVE  x % WORD \in 1 .. HALF
<1>1. d \in 0 .. WORD - 1
  BY Halves
<1> QED BY <1>1, SameWithin

LEMMA NotAhead == ASSUME NEW x \in Int, NEW d \in Int, Same(x, d), d <= 0, -HALF < d
                  PROVE  x % WORD \notin 1 .. HALF
<1>1. CASE d = 0
  <2>1. d \in 0 .. WORD - 1
    BY <1>1, Halves
  <2> QED BY <1>1, <2>1, SameWithin
<1>2. CASE d < 0
  <2>1. d + WORD \in 0 .. WORD - 1 /\ d + WORD > HALF
    BY <1>2, Halves
  <2>2. (d + WORD) - d = WORD * 1
    BY Halves
  <2>3. Same(d + WORD, d)
    BY <2>1, <2>2, SameTurns
  <2>4. Same(x, d + WORD)
    <3>1. PICK k \in Int : x - d = WORD * k
      BY SameTurns
    <3>2. x - (d + WORD) = WORD * (k - 1) /\ k - 1 \in Int
      BY <3>1, Halves
    <3> QED BY <2>1, <3>2, SameTurns
  <2>5. x % WORD = d + WORD
    BY <2>1, <2>4, SameWithin
  <2> QED BY <2>1, <2>5, Halves
<1> QED BY <1>1, <1>2
-----------------------------------------------------------------------------
(* The button device.                                                      *)

\* At boot jiffies is a number of ticks short of the 0 that last_press starts from.
Behind == IF pressed THEN 0 ELSE boot

\* A writer knows how long it has been inside, jiffies and last_press are since
\* ticks apart, and unless writers have met the one inside came in after the
\* last press was accepted.
Timed == /\ TypeOK
         /\ since < Far => Same(jiffies - last_press, since - Behind)
         /\ \A t \in Task : pc[t] # "user" =>
               /\ Same(jiffies - now[t], age[t])
               /\ ~crossed \/ ~pressed => since >= age[t]
         /\ ~crossed => \A t, u \in Task : pc[t] # "user" /\ pc[u] # "user" => t = u

LEMMA FarApart == Far \in Nat /\ Far = 2 * WORD + STALL
BY Halves, WordAssumption DEF Far

LEMMA Motion == ASSUME NEW x \in Int PROVE Same((x + 1) % WORD, x + 1) /\ (x + 1) % WORD \in 0 .. WORD - 1
BY SameAsRemainder, Remainder

LEMMA BootFacts == \A b \in Boot : b \in 1 .. WORD /\ b \in Nat /\ b + debounce <= WORD
BY Halves, WordAssumption

LEMMA TimedInit == Init => Timed
<1> SUFFICES ASSUME Init PROVE Timed
  OBVIOUS
<1> USE DEF Init
<1>1. TypeOK
  <2>1. WORD - boot \in 0 .. WORD - 1 /\ 0 \in 0 .. WORD - 1
    BY Halves, BootFacts
  <2>2. 0 \in 0 .. STALL /\ 0 \in 0 .. Far /\ 0 \in 0 .. COUNTS - 1
    BY FarApart, WordAssumption
  <2> QED BY <2>1, <2>2 DEF TypeOK, Place
<1>2. Same(jiffies - last_press, since - Behind)
  <2>1. (WORD - boot - 0) - (0 - boot) = WORD * 1
    BY Halves, BootFacts
  <2>2. WORD - boot - 0 \in Int /\ 0 - boot \in Int
    BY Halves, BootFacts
  <2>3. Same(WORD - boot - 0, 0 - boot)
    BY <2>1, <2>2, SameTurns
  <2> QED BY <2>3 DEF Behind
<1>3. \A t \in Task : pc[t] = "user"
  OBVIOUS
<1> QED BY <1>1, <1>2, <1>3 DEF Timed

LEMMA TickTimed == Timed /\ Tick => Timed'
<1> SUFFICES ASSUME Timed, Tick PROVE Timed'
  OBVIOUS
<1>1. /\ jiffies \in 0 .. WORD - 1 /\ last_press \in 0 .. WORD - 1
      /\ pc \in [Task -> Place]
      /\ now \in [Task -> 0 .. WORD - 1] /\ age \in [Task -> 0 .. STALL]
      /\ since \in 0 .. Far /\ pressed \in BOOLEAN /\ crossed \in BOOLEAN /\ boot \in Nat
  BY BootFacts DEF Timed, TypeOK
<1>2. /\ \A t \in Task : pc[t] # "user" => age[t] < STALL
      /\ jiffies' = (jiffies + 1) % WORD
      /\ age' = [t \in Task |-> IF pc[t] = "user" THEN 0 ELSE age[t] + 1]
      /\ since' = IF since < Far THEN since + 1 ELSE Far
      /\ last_press' = last_press /\ pc' = pc /\ now' = now /\ boot' = boot
      /\ press_count' = press_count /\ count' = count
      /\ pressed' = pressed /\ crossed' = crossed
  BY DEF Tick, counting
<1>3. Same(jiffies', jiffies + 1) /\ jiffies' \in 0 .. WORD - 1 /\ jiffies + 1 \in Int /\ jiffies' \in Int
  BY <1>1, <1>2, Halves, Motion
<1>4. TypeOK'
  <2>1. age' \in [Task -> 0 .. STALL]
    BY <1>1, <1>2, WordAssumption
  <2>2. since' \in 0 .. Far
    BY <1>1, <1>2, FarApart
  <2>3. UNCHANGED <<boot, last_press, counting, pc, now, pressed, crossed>>
    BY <1>2 DEF counting
  <2> QED BY <1>1, <1>3, <2>1, <2>2, <2>3 DEF Timed, TypeOK, counting
<1>5. ASSUME since' < Far PROVE Same(jiffies' - last_press', since' - Behind')
  <2>1. since < Far /\ since' = since + 1 /\ Behind' = Behind /\ Behind \in Int
    BY <1>1, <1>2, <1>5, FarApart, WordAssumption DEF Behind
  <2>2. Same(jiffies - last_press, since - Behind)
    BY <2>1 DEF Timed
  <2>3. Same(jiffies' - last_press, (jiffies + 1) - last_press)
    BY <1>1, <1>3, Halves, SameSelf, SameTakes
  <2>4. Same((jiffies - last_press) + 1, (since - Behind) + 1)
    <3>1. jiffies - last_press \in Int /\ since - Behind \in Int /\ 1 \in Int
      BY <1>1, <2>1, Halves, FarApart
    <3> QED BY <2>2, <3>1, SameSelf, SameAdds
  <2> QED BY <1>1, <1>2, <1>3, <2>1, <2>3, <2>4, Halves, FarApart, SameChains
<1>6. ASSUME NEW t \in Task, pc'[t] # "user"
      PROVE  /\ Same(jiffies' - now'[t], age'[t])
             /\ ~crossed' \/ ~pressed' => since' >= age'[t]
  <2>1. age'[t] = age[t] + 1 /\ pc[t] # "user" /\ age[t] \in 0 .. STALL /\ age[t] < STALL
        /\ now[t] \in 0 .. WORD - 1
    BY <1>1, <1>2, <1>6
  <2>2. Same(jiffies - now[t], age[t]) /\ (~crossed \/ ~pressed => since >= age[t])
    BY <2>1 DEF Timed
  <2>3. Same(jiffies' - now[t], (jiffies + 1) - now[t])
    <3>1. now[t] \in Int /\ Same(now[t], now[t])
      BY <2>1, SameSelf
    <3> QED BY <1>3, <3>1, SameTakes
  <2>4. Same((jiffies - now[t]) + 1, age[t] + 1)
    <3>1. jiffies - now[t] \in Int /\ age[t] \in Int /\ 1 \in Int
      BY <1>1, <2>1, Halves, WordAssumption
    <3> QED BY <2>2, <3>1, SameSelf, SameAdds
  <2>5. Same(jiffies' - now[t], age[t] + 1)
    BY <1>1, <1>3, <2>1, <2>3, <2>4, Halves, WordAssumption, SameChains
  <2>6. ~crossed' \/ ~pressed' => since' >= age[t] + 1
    BY <1>1, <1>2, <2>1, <2>2, FarApart, WordAssumption, Halves
  <2> QED BY <1>2, <2>1, <2>5, <2>6
<1>7. ~crossed' => \A t, u \in Task : pc'[t] # "user" /\ pc'[u] # "user" => t = u
  BY <1>2 DEF Timed
<1> QED BY <1>4, <1>5, <1>6, <1>7 DEF Timed

LEMMA WriteTimed == ASSUME Timed, NEW w \in Task, Write(w) PROVE Timed'
<1>1. /\ jiffies \in 0 .. WORD - 1 /\ TypeOK /\ since \in 0 .. Far
      /\ now \in [Task -> 0 .. WORD - 1] /\ age \in [Task -> 0 .. STALL]
      /\ pc \in [Task -> Place] /\ crossed \in BOOLEAN
  BY DEF Timed, TypeOK
<1>2. /\ pc[w] = "user" /\ pc' = [pc EXCEPT ![w] = "check"]
      /\ now' = [now EXCEPT ![w] = jiffies] /\ age' = [age EXCEPT ![w] = 0]
      /\ crossed' = (crossed \/ \E u \in Task : pc[u] # "user")
      /\ UNCHANGED <<boot, jiffies, last_press, press_count, count, since, pressed>>
  BY DEF Write, counting
<1>3. TypeOK'
  BY <1>1, <1>2, WordAssumption DEF TypeOK, Place
<1>4. since' < Far => Same(jiffies' - last_press', since' - Behind')
  BY <1>2 DEF Timed, Behind
<1>5. ASSUME NEW t \in Task, pc'[t] # "user"
      PROVE  /\ Same(jiffies' - now'[t], age'[t])
             /\ ~crossed' \/ ~pressed' => since' >= age'[t]
  <2>1. CASE t = w
    <3>1. jiffies - jiffies = 0 /\ 0 \in Int
      BY <1>1, Halves
    <3>2. now'[t] = jiffies /\ age'[t] = 0
      BY <1>1, <1>2, <2>1
    <3>3. since >= 0
      BY <1>1, FarApart
    <3> QED BY <1>2, <3>1, <3>2, <3>3, SameSelf
  <2>2. CASE t # w
    <3>1. pc[t] # "user" /\ now'[t] = now[t] /\ age'[t] = age[t]
      BY <1>1, <1>2, <1>5, <2>2
    <3>2. Same(jiffies - now[t], age[t]) /\ (~crossed \/ ~pressed => since >= age[t])
      BY <3>1 DEF Timed
    <3>3. ~crossed' => ~crossed
      BY <1>2
    <3> QED BY <1>2, <3>1, <3>2, <3>3
  <2> QED BY <2>1, <2>2
<1>6. ~crossed' => \A t, u \in Task : pc'[t] # "user" /\ pc'[u] # "user" => t = u
  BY <1>1, <1>2
<1> QED BY <1>3, <1>4, <1>5, <1>6 DEF Timed

LEMMA LeaveTimed == ASSUME Timed, NEW w \in Task, Return(w) \/ Check(w) PROVE Timed'
<1>1. /\ UNCHANGED <<boot, jiffies, last_press, press_count, count, now, age, since, pressed, crossed>>
      /\ \A t \in Task : pc'[t] # "user" => pc[t] # "user"
      /\ pc' \in [Task -> Place]
  BY DEF Timed, TypeOK, Return, Check, Place, history, counting
<1>2. TypeOK'
  BY <1>1 DEF Timed, TypeOK
<1>3. since' < Far => Same(jiffies' - last_press', since' - Behind')
  BY <1>1 DEF Timed, Behind
<1>4. ASSUME NEW t \in Task, pc'[t] # "user"
      PROVE  /\ Same(jiffies' - now'[t], age'[t])
             /\ ~crossed' \/ ~pressed' => since' >= age'[t]
  BY <1>1, <1>4 DEF Timed
<1>5. ~crossed' => \A t, u \in Task : pc'[t] # "user" /\ pc'[u] # "user" => t = u
  BY <1>1 DEF Timed
<1> QED BY <1>2, <1>3, <1>4, <1>5 DEF Timed

LEMMA AcceptTimed == ASSUME Timed, NEW w \in Task, Accept(w) PROVE Timed'
<1>1. /\ now \in [Task -> 0 .. WORD - 1] /\ age \in [Task -> 0 .. STALL]
      /\ pc \in [Task -> Place] /\ crossed \in BOOLEAN
      /\ jiffies \in 0 .. WORD - 1
  BY DEF Timed, TypeOK
<1>2. /\ pc[w] = "accept" /\ pc' = [pc EXCEPT ![w] = "count"]
      /\ last_press' = now[w] /\ since' = age[w] /\ pressed' = TRUE
      /\ count' = [count EXCEPT ![w] = press_count]
      /\ UNCHANGED <<boot, jiffies, press_count, now, age, crossed>>
  BY DEF Accept
<1>3. TypeOK'
  <2>1. last_press' \in 0 .. WORD - 1 /\ since' \in 0 .. Far /\ pressed' \in BOOLEAN
    BY <1>1, <1>2, FarApart, WordAssumption, Halves
  <2>2. pc' \in [Task -> Place]
    BY <1>1, <1>2 DEF Place
  <2>3. press_count \in 0 .. COUNTS - 1 /\ count \in [Task -> 0 .. COUNTS - 1] /\ boot \in Boot
    BY DEF Timed, TypeOK
  <2>4. count' \in [Task -> 0 .. COUNTS - 1]
    BY <1>2, <2>3
  <2> QED BY <1>1, <1>2, <2>1, <2>2, <2>3, <2>4 DEF TypeOK
<1>4. Same(jiffies' - last_press', since' - Behind')
  <2>1. age[w] - 0 = age[w]
    BY <1>1, WordAssumption
  <2>2. Same(jiffies - now[w], age[w])
    BY <1>2 DEF Timed
  <2> QED BY <1>2, <2>1, <2>2 DEF Behind
<1>5. ASSUME NEW t \in Task, pc'[t] # "user"
      PROVE  pc[t] # "user"
  BY <1>1, <1>2, <1>5
<1>6. ASSUME NEW t \in Task, pc'[t] # "user"
      PROVE  /\ Same(jiffies' - now'[t], age'[t])
             /\ ~crossed' \/ ~pressed' => since' >= age'[t]
  <2>1. pc[t] # "user" /\ Same(jiffies - now[t], age[t])
    BY <1>5, <1>6 DEF Timed
  <2>2. ~crossed => t = w
    BY <1>2, <2>1 DEF Timed
  <2>3. age[w] \in Int
    BY <1>1, WordAssumption
  <2> QED BY <1>2, <2>1, <2>2, <2>3
<1>7. ~crossed' => \A t, u \in Task : pc'[t] # "user" /\ pc'[u] # "user" => t = u
  BY <1>2, <1>5 DEF Timed
<1> QED BY <1>3, <1>4, <1>6, <1>7 DEF Timed

LEMMA CountTimed == ASSUME Timed, NEW w \in Task, Count(w) PROVE Timed'
<1>1. /\ UNCHANGED <<boot, jiffies, last_press, now, age, since, pressed, crossed>>
      /\ \A t \in Task : pc'[t] # "user" => pc[t] # "user"
      /\ pc' \in [Task -> Place]
  BY DEF Timed, TypeOK, Count, Place, history
<1>2. press_count' \in 0 .. COUNTS - 1 /\ count' \in [Task -> 0 .. COUNTS - 1]
  <2>1. COUNTS \in Nat \ {0} /\ count \in [Task -> 0 .. COUNTS - 1]
    BY WordAssumption DEF Timed, TypeOK
  <2>2. count[w] + 1 \in Int /\ 0 \in 0 .. COUNTS - 1
    BY <2>1
  <2>3. press_count' = (count[w] + 1) % COUNTS /\ count' = [count EXCEPT ![w] = 0]
    BY DEF Count
  <2> QED BY <2>1, <2>2, <2>3
<1>3. TypeOK'
  BY <1>1, <1>2 DEF Timed, TypeOK
<1>4. since' < Far => Same(jiffies' - last_press', since' - Behind')
  BY <1>1 DEF Timed, Behind
<1>5. ASSUME NEW t \in Task, pc'[t] # "user"
      PROVE  /\ Same(jiffies' - now'[t], age'[t])
             /\ ~crossed' \/ ~pressed' => since' >= age'[t]
  BY <1>1, <1>5 DEF Timed
<1>6. ~crossed' => \A t, u \in Task : pc'[t] # "user" /\ pc'[u] # "user" => t = u
  BY <1>1 DEF Timed
<1> QED BY <1>3, <1>4, <1>5, <1>6 DEF Timed

LEMMA TimedPreserved == Timed /\ [Next]_vars => Timed'
<1>1. Timed /\ UNCHANGED vars => Timed'
  BY DEF Timed, TypeOK, vars, counting, history, Behind
<1> QED BY <1>1, TickTimed, WriteTimed, LeaveTimed, AcceptTimed, CountTimed DEF Next

\* What the test of time_before looks at is how much of the debounce time is
\* still to go.
LEMMA Judgement ==
  ASSUME Timed, NEW t \in Task, Check(t), since < Far
  PROVE  /\ ((last_press + debounce) % WORD) - now[t] \in Int
         /\ Same(((last_press + debounce) % WORD) - now[t], debounce + Behind - Gap(t))
<1>1. /\ now[t] \in 0 .. WORD - 1 /\ age[t] \in 0 .. STALL /\ jiffies \in 0 .. WORD - 1
      /\ last_press \in 0 .. WORD - 1 /\ since \in 0 .. Far /\ Behind \in Nat /\ debounce \in Nat
  BY WordAssumption, BootFacts DEF Timed, TypeOK, Behind
<1>2. /\ now[t] \in Int /\ age[t] \in Int /\ jiffies \in Int /\ last_press \in Int
      /\ since \in Int /\ Behind \in Int /\ debounce \in Int
  BY <1>1, Halves, FarApart, WordAssumption
<1>3. /\ Same(jiffies - last_press, since - Behind)
      /\ Same(jiffies - now[t], age[t])
  BY DEF Timed, Check
<1>4. Same((jiffies - now[t]) - (jiffies - last_press), age[t] - (since - Behind))
  <2>1. /\ jiffies - last_press \in Int /\ since - Behind \in Int /\ jiffies - now[t] \in Int
    BY <1>2
  <2> QED BY <1>2, <1>3, <2>1, SameTakes
<1>5. /\ (jiffies - now[t]) - (jiffies - last_press) = last_press - now[t]
      /\ age[t] - (since - Behind) = Behind - Gap(t)
      /\ Gap(t) \in Int
  BY <1>2 DEF Gap
<1>6. Same((last_press - now[t]) + debounce, (Behind - Gap(t)) + debounce)
  <2>1. last_press - now[t] \in Int /\ Behind - Gap(t) \in Int
    BY <1>2, <1>5
  <2> QED BY <1>2, <1>4, <1>5, <2>1, SameSelf, SameAdds
<1> DEFINE sum == (last_press + debounce) % WORD
<1>7. sum \in Int /\ Same(sum, last_press + debounce) /\ last_press + debounce \in Int
  BY <1>2, Halves, Remainder, SameAsRemainder
<1> HIDE DEF sum
<1>8. Same(sum - now[t], (last_press + debounce) - now[t])
  BY <1>2, <1>7, SameSelf, SameTakes
<1>9. /\ (last_press + debounce) - now[t] = (last_press - now[t]) + debounce
      /\ (Behind - Gap(t)) + debounce = debounce + Behind - Gap(t)
  BY <1>2, <1>5
<1>10. /\ sum - now[t] \in Int /\ (last_press + debounce) - now[t] \in Int
       /\ debounce + Behind - Gap(t) \in Int
  BY <1>2, <1>5, <1>7
<1>11. Same(sum - now[t], debounce + Behind - Gap(t))
  BY <1>6, <1>8, <1>9, <1>10, SameChains
<1> QED BY <1>10, <1>11 DEF sum

\* A press judged before the counter stopped at Far.
LEMMA JudgedNear ==
  ASSUME Timed, NEW t \in Task, Check(t), since < Far, since >= age[t]
  PROVE  LET rest == debounce + Behind - Gap(t)
         IN  /\ 0 < rest /\ rest <= HALF => pc'[t] = "ignored"
             /\ -HALF < rest /\ rest <= 0 => pc'[t] = "accept"
             /\ HALF < rest => pc'[t] = "accept"
<1> DEFINE left == ((last_press + debounce) % WORD) - now[t]
           rest == debounce + Behind - Gap(t)
<1>1. left \in Int /\ Same(left, rest)
  BY Judgement
<1>2. /\ Behind \in Nat /\ debounce \in Nat /\ debounce + Behind <= WORD
      /\ Gap(t) \in Int /\ Gap(t) >= 0
  BY WordAssumption, Halves, BootFacts, FarApart DEF Timed, TypeOK, Gap, Behind, HALF
<1>3. rest \in Int /\ rest <= WORD
  BY <1>2, Halves
<1>4. pc'[t] = IF left % WORD \in 1 .. HALF THEN "ignored" ELSE "accept"
  BY DEF Timed, TypeOK, Check, time_before, HALF
<1> HIDE DEF left, rest
<1>5. ASSUME 0 < rest, rest <= HALF PROVE pc'[t] = "ignored"
  <2>1. rest \in 1 .. HALF
    BY <1>3, <1>5, Halves
  <2> QED BY <1>1, <1>4, <2>1, Ahead
<1>6. ASSUME -HALF < rest, rest <= 0 PROVE pc'[t] = "accept"
  BY <1>1, <1>3, <1>4, <1>6, NotAhead
<1>7. ASSUME HALF < rest PROVE pc'[t] = "accept"
  <2>1. rest - WORD \in Int /\ rest - WORD <= 0 /\ -HALF < rest - WORD
    BY <1>3, <1>7, Halves
  <2>2. rest - (rest - WORD) = WORD * 1
    BY <1>3, Halves
  <2>3. Same(rest, rest - WORD)
    BY <1>3, <2>1, <2>2, SameTurns
  <2>4. Same(left, rest - WORD)
    BY <1>1, <1>3, <2>1, <2>3, SameChains
  <2> QED BY <1>1, <1>4, <2>1, <2>4, NotAhead
<1> QED BY <1>5, <1>6, <1>7 DEF rest

\* One judged when it has: the last press, or boot, is two words away.
LEMMA JudgedFar ==
  ASSUME Timed, NEW t \in Task, ~(since < Far)
  PROVE  Gap(t) >= 2 * WORD
BY FarApart, Halves, WordAssumption DEF Timed, TypeOK, Gap

\* Only Check decides about a press.
LEMMA JudgedByCheck ==
  ASSUME Timed, [Next]_vars, NEW t \in Task, NEW as \in {"accept", "ignored"}, Judged(t, as)
  PROVE  Check(t) /\ (~crossed \/ ~pressed => since >= age[t])
<1>1. pc[t] = "check" /\ pc'[t] = as /\ pc \in [Task -> Place]
  BY DEF Judged, Timed, TypeOK
<1>2. Check(t)
  <2>1. CASE Tick \/ UNCHANGED vars
    BY <1>1, <2>1 DEF Tick, vars
  <2>2. ASSUME NEW u \in Task, Write(u) \/ Return(u) \/ Accept(u) \/ Count(u) PROVE FALSE
    BY <1>1, <2>2 DEF Write, Return, Accept, Count, Place
  <2>3. ASSUME NEW u \in Task, Check(u) PROVE Check(t)
    BY <1>1, <2>3 DEF Check
  <2> QED BY <2>1, <2>2, <2>3 DEF Next
<1> QED BY <1>1, <1>2 DEF Timed

LEMMA StepsApart ==
  ASSUME Timed, [Next]_vars, NEW t \in Task
  PROVE  /\ Judged(t, "accept") /\ pressed /\ ~crossed => Gap(t) >= debounce
         /\ Judged(t, "ignored") /\ pressed /\ ~crossed =>
              Gap(t) < debounce \/ Gap(t) >= WORD \div 2 + debounce
         /\ Judged(t, "accept") /\ ~pressed => Gap(t) < DeafFrom \/ Gap(t) >= DeafUntil
         /\ Judged(t, "ignored") /\ ~pressed =>
              /\ DeafFrom <= Gap(t)
              /\ Gap(t) < DeafUntil \/ Gap(t) >= DeafUntil + WORD \div 2
<1>1. /\ Gap(t) \in Int /\ debounce \in Nat /\ boot \in Nat /\ pressed \in BOOLEAN
      /\ WORD = 2 * HALF /\ HALF \in Nat /\ HALF = WORD \div 2
      /\ debounce <= HALF /\ boot + debounce <= WORD
  BY Halves, FarApart, WordAssumption, BootFacts DEF Timed, TypeOK, Gap, HALF
<1>2. /\ DeafUntil = boot + debounce
      /\ DeafFrom = IF boot + debounce > HALF THEN boot + debounce - HALF ELSE 0
  BY DEF DeafFrom, DeafUntil, HALF
<1>3. CASE ~(since < Far)
  <2>1. Gap(t) >= 2 * WORD
    BY <1>3, JudgedFar
  <2> QED BY <1>1, <1>2, <2>1
<1>4. CASE since < Far
  <2>1. ASSUME Check(t), since >= age[t]
        PROVE  /\ 0 < debounce + Behind - Gap(t) /\ debounce + Behind - Gap(t) <= HALF
                    => pc'[t] = "ignored"
               /\ -HALF < debounce + Behind - Gap(t) /\ debounce + Behind - Gap(t) <= 0
                    => pc'[t] = "accept"
               /\ HALF < debounce + Behind - Gap(t) => pc'[t] = "accept"
               /\ Gap(t) >= 0
    <3>1. Gap(t) >= 0
      BY <2>1, FarApart, WordAssumption DEF Timed, TypeOK, Gap
    <3> QED BY <1>4, <2>1, <3>1, JudgedNear
  <2>2. ASSUME Judged(t, "accept"), pressed, ~crossed PROVE Gap(t) >= debounce
    <3>1. Check(t) /\ since >= age[t] /\ Behind = 0 /\ pc'[t] # "ignored"
      BY <2>2, JudgedByCheck DEF Judged, Behind
    <3>2. ~(0 < debounce + 0 - Gap(t) /\ debounce + 0 - Gap(t) <= HALF) /\ Gap(t) >= 0
      BY <2>1, <3>1
    <3> QED BY <1>1, <3>2
  <2>3. ASSUME Judged(t, "ignored"), pressed, ~crossed
        PROVE  Gap(t) < debounce \/ Gap(t) >= WORD \div 2 + debounce
    <3>1. Check(t) /\ since >= age[t] /\ Behind = 0 /\ pc'[t] # "accept"
      BY <2>3, JudgedByCheck DEF Judged, Behind
    <3>2. ~(-HALF < debounce + 0 - Gap(t) /\ debounce + 0 - Gap(t) <= 0)
      BY <2>1, <3>1
    <3> QED BY <1>1, <3>2
  <2>4. ASSUME Judged(t, "accept"), ~pressed
        PROVE  Gap(t) < DeafFrom \/ Gap(t) >= DeafUntil
    <3>1. Check(t) /\ since >= age[t] /\ Behind = boot /\ pc'[t] # "ignored"
      BY <2>4, JudgedByCheck DEF Judged, Behind
    <3>2. ~(0 < debounce + boot - Gap(t) /\ debounce + boot - Gap(t) <= HALF) /\ Gap(t) >= 0
      BY <2>1, <3>1
    <3> QED BY <1>1, <1>2, <3>2
  <2>5. ASSUME Judged(t, "ignored"), ~pressed
        PROVE  /\ DeafFrom <= Gap(t)
               /\ Gap(t) < DeafUntil \/ Gap(t) >= DeafUntil + WORD \div 2
    <3>1. Check(t) /\ since >= age[t] /\ Behind = boot /\ pc'[t] # "accept"
      BY <2>5, JudgedByCheck DEF Judged, Behind
    <3>2. /\ ~(-HALF < debounce + boot - Gap(t) /\ debounce + boot - Gap(t) <= 0)
          /\ ~(HALF < debounce + boot - Gap(t)) /\ Gap(t) >= 0
      BY <2>1, <3>1
    <3> QED BY <1>1, <1>2, <3>2
  <2> QED BY <2>2, <2>3, <2>4, <2>5
<1> QED BY <1>3, <1>4
-----------------------------------------------------------------------------
(* The keyboard handler and its work.                                      *)

\* How long ago a stamp was taken, as far as a word tells.
Age(x) == (jiffies - x) % WORD

\* Between its stamp and the end of the work it queued, an interrupt's stamp is
\* no older than the interrupt: stamps are only ever taken anew.
StampFresh == /\ irq = "last" => Age(press_time) <= entered
              /\ pending => Age(press_time) <= queued
              /\ worker \in {"test", "has jiffies", "has press_time"} =>
                    Age(press_time) <= running
              /\ worker \in {"has jiffies", "has press_time"} => Age(read) <= running

WInv == W!TypeOK /\ StampFresh /\ ReportsOnlyWhenLate

LEMMA Bounds == /\ LONG_PRESS \in Nat /\ LATENCY \in Nat
                /\ LATENCY + LONG_PRESS < HALF
BY LatencyAssumption DEF W!TimeAssumption, HALF

\* A stamp ages by a tick in a tick, and is new when it is taken.
LEMMA Ageing ==
  ASSUME NEW j \in 0 .. WORD - 1, NEW x \in 0 .. WORD - 1
  PROVE  /\ (j - x) % WORD \in Nat
         /\ Same(j - x, (j - x) % WORD)
         /\ (((j + 1) % WORD) - x) % WORD <= ((j - x) % WORD) + 1
         /\ (j - j) % WORD = 0
<1>1. j \in Int /\ x \in Int /\ j - x \in Int /\ j + 1 \in Int /\ WORD \in Nat \ {0}
  BY Halves
<1> DEFINE a == (j - x) % WORD
           k == (j + 1) % WORD
<1>2. a \in 0 .. WORD - 1 /\ k \in 0 .. WORD - 1
  <2>1. \A y \in Int : y % WORD \in 0 .. WORD - 1
    BY Remainder
  <2> QED BY <1>1, <2>1
<1>3. Same(a, j - x) /\ Same(k, j + 1)
  BY <1>1, SameAsRemainder
<1> HIDE DEF a, k
<1>4. a \in Int /\ k \in Int /\ a + 1 \in Int /\ k - x \in Int
  BY <1>1, <1>2
<1>5. Same(j - x, a)
  BY <1>1, <1>3, <1>4, SameBack
<1>6. Same(k - x, a + 1)
  <2>1. Same(k - x, (j + 1) - x) /\ (j + 1) - x = (j - x) + 1 /\ (j - x) + 1 \in Int
    BY <1>1, <1>3, <1>4, SameSelf, SameTakes
  <2>2. Same((j - x) + 1, a + 1)
    <3>1. 1 \in Int /\ Same(1, 1)
      BY SameSelf
    <3> QED BY <1>1, <1>4, <1>5, <3>1, SameAdds
  <2> QED BY <1>4, <2>1, <2>2, SameChains
<1>7. (k - x) % WORD <= a + 1
  <2>1. CASE a + 1 < WORD
    <3>1. a + 1 \in 0 .. WORD - 1
      BY <1>1, <1>2, <2>1
    <3>2. (k - x) % WORD = a + 1
      BY <1>4, <1>6, <3>1, SameWithin
    <3> QED BY <1>4, <3>2
  <2>2. CASE a + 1 >= WORD
    BY <1>1, <1>2, <1>4, <2>2, Remainder
  <2> QED BY <1>1, <1>4, <2>1, <2>2
<1>8. (j - j) % WORD = 0
  <2>1. j - j = 0 /\ 0 \in 0 .. WORD - 1 /\ Same(0, 0)
    BY <1>1, SameSelf
  <2> QED BY <2>1, SameWithin
<1> QED BY <1>2, <1>5, <1>7, <1>8 DEF a, k

LEMMA WInit == W!Init => WInv
<1> SUFFICES ASSUME W!Init PROVE WInv
  OBVIOUS
<1> USE DEF W!Init
<1>1. jiffies \in 0 .. WORD - 1 /\ 0 \in 0 .. WORD - 1 /\ 0 \in 0 .. LATENCY
  BY Halves, BootFacts, WordAssumption, Bounds
<1>2. W!TypeOK
  BY <1>1 DEF W!TypeOK
<1> QED BY <1>2 DEF WInv, StampFresh, ReportsOnlyWhenLate, W!ReportsOnlyWhenLate

\* The type invariant in two halves, numbers and places.
Times == /\ jiffies \in 0 .. WORD - 1 /\ press_time \in 0 .. WORD - 1 /\ read \in 0 .. WORD - 1
         /\ entered \in 0 .. LATENCY /\ queued \in 0 .. LATENCY /\ running \in 0 .. LATENCY
Places == /\ key_pressed \in {0, 1} /\ irq \in {"idle", "flagged", "last"} /\ pending \in BOOLEAN
          /\ worker \in {"idle", "test", "has jiffies", "has press_time", "report"}

LEMMA WTypes == (W!TypeOK <=> Times /\ Places) /\ (W!TypeOK' <=> Times' /\ Places')
BY DEF W!TypeOK, Times, Places

LEMMA WTick == WInv /\ W!Tick => WInv'
<1> SUFFICES ASSUME WInv, W!Tick PROVE WInv'
  OBVIOUS
<1>1. Times /\ Places
  BY WTypes DEF WInv
<1>2. /\ irq # "idle" => entered < LATENCY
      /\ pending => queued < LATENCY
      /\ worker # "idle" => running < LATENCY
      /\ jiffies' = (jiffies + 1) % WORD
      /\ entered' = IF irq # "idle" THEN entered + 1 ELSE 0
      /\ queued' = IF pending THEN queued + 1 ELSE 0
      /\ running' = IF worker # "idle" THEN running + 1 ELSE 0
      /\ UNCHANGED <<press_time, key_pressed, irq, pending, worker, read>>
  BY DEF W!Tick, W!Older, W!stamp
<1>3. jiffies' \in 0 .. WORD - 1
  <2>1. jiffies + 1 \in Int
    BY <1>1, Halves DEF Times
  <2> QED BY <1>2, <2>1, Remainder
<1>4. Times' /\ Places'
  <2>1. entered' \in 0 .. LATENCY /\ queued' \in 0 .. LATENCY /\ running' \in 0 .. LATENCY
    BY <1>1, <1>2, Bounds DEF Times
  <2> QED BY <1>1, <1>2, <1>3, <2>1 DEF Times, Places
<1>5. /\ Age(press_time) \in Nat /\ Age(press_time)' \in Nat
      /\ Age(press_time)' <= Age(press_time) + 1
      /\ Age(read) \in Nat /\ Age(read)' \in Nat /\ Age(read)' <= Age(read) + 1
  <2>1. /\ jiffies \in 0 .. WORD - 1 /\ press_time \in 0 .. WORD - 1 /\ read \in 0 .. WORD - 1
        /\ press_time' = press_time /\ read' = read
    BY <1>1, <1>2 DEF Times, Places
  <2> QED BY <1>2, <1>3, <2>1, Ageing DEF Age
<1>6. /\ irq = "last" => Age(press_time) <= entered
      /\ pending => Age(press_time) <= queued
      /\ worker \in {"test", "has jiffies", "has press_time"} => Age(press_time) <= running
      /\ worker \in {"has jiffies", "has press_time"} => Age(read) <= running
  BY DEF WInv, StampFresh
<1>7. StampFresh'
  <2>1. ASSUME irq' = "last" PROVE Age(press_time)' <= entered'
    <3>1. Age(press_time) <= entered /\ entered' = entered + 1
      BY <1>2, <1>6, <2>1
    <3>2. entered \in Int
      BY <1>1, Bounds DEF Times
    <3> QED BY <1>5, <3>1, <3>2
  <2>2. ASSUME pending' PROVE Age(press_time)' <= queued'
    <3>1. Age(press_time) <= queued /\ queued' = queued + 1
      BY <1>2, <1>6, <2>2
    <3>2. queued \in Int
      BY <1>1, Bounds DEF Times
    <3> QED BY <1>5, <3>1, <3>2
  <2>3. ASSUME worker' \in {"test", "has jiffies", "has press_time"} PROVE Age(press_time)' <= running'
    <3>1. Age(press_time) <= running /\ running' = running + 1
      BY <1>2, <1>6, <2>3
    <3>2. running \in Int
      BY <1>1, Bounds DEF Times
    <3> QED BY <1>5, <3>1, <3>2
  <2>4. ASSUME worker' \in {"has jiffies", "has press_time"} PROVE Age(read)' <= running'
    <3>1. Age(read) <= running /\ running' = running + 1
      BY <1>2, <1>6, <2>4
    <3>2. running \in Int
      BY <1>1, Bounds DEF Times
    <3> QED BY <1>5, <3>1, <3>2
  <2> QED BY <2>1, <2>2, <2>3, <2>4 DEF StampFresh
<1>8. ReportsOnlyWhenLate'
  <2>1. worker = "report" => running > LONG_PRESS
    BY DEF WInv, ReportsOnlyWhenLate, W!ReportsOnlyWhenLate
  <2>2. worker' = "report" => running' > LONG_PRESS
    BY <1>1, <1>2, <2>1, Bounds DEF Times
  <2> QED BY <2>2 DEF ReportsOnlyWhenLate, W!ReportsOnlyWhenLate
<1> QED BY <1>4, <1>7, <1>8, WTypes DEF WInv

\* A step of the handler: the clock stands still, and the worker.
LEMMA WIsr == WInv /\ W!Isr => WInv'
<1> SUFFICES ASSUME WInv, W!Isr PROVE WInv'
  OBVIOUS
<1>1. Times /\ Places
  BY WTypes DEF WInv
<1>2. /\ irq = "last" => Age(press_time) <= entered
      /\ pending => Age(press_time) <= queued
      /\ worker \in {"test", "has jiffies", "has press_time"} => Age(press_time) <= running
      /\ worker \in {"has jiffies", "has press_time"} => Age(read) <= running
      /\ worker = "report" => running > LONG_PRESS
  BY DEF WInv, StampFresh, ReportsOnlyWhenLate, W!ReportsOnlyWhenLate
<1> SUFFICES /\ Times' /\ Places' /\ StampFresh' /\ UNCHANGED <<worker, running>>
  BY <1>2, WTypes DEF WInv, ReportsOnlyWhenLate, W!ReportsOnlyWhenLate
<1>3. CASE W!Flag
  <2>1. /\ irq' = "flagged" /\ entered' = 0 /\ key_pressed' = 1
        /\ UNCHANGED <<jiffies, press_time, pending, worker, read, queued, running>>
    BY <1>3 DEF W!Flag, W!work
  <2>2. Times' /\ Places'
    <3>1. entered' \in 0 .. LATENCY
      BY <2>1, Bounds
    <3> QED BY <1>1, <2>1, <3>1 DEF Times, Places
  <2>3. Age(press_time)' = Age(press_time) /\ Age(read)' = Age(read)
    BY <2>1 DEF Age
  <2> QED BY <1>2, <2>1, <2>2, <2>3 DEF StampFresh
<1>4. CASE W!Stamp("flagged", "last")
  <2>1. /\ irq' = "last" /\ press_time' = jiffies
        /\ UNCHANGED <<jiffies, key_pressed, entered, pending, worker, read, queued, running>>
    BY <1>4 DEF W!Stamp, W!work
  <2>2. Times' /\ Places'
    BY <1>1, <2>1 DEF Times, Places
  <2>3. Age(press_time)' = 0 /\ Age(read)' = Age(read)
    BY <1>1, <2>1, Ageing DEF Age, Times
  <2>4. entered' >= 0 /\ queued' >= 0 /\ running' >= 0
    BY <1>1, <2>1, Bounds DEF Times
  <2> QED BY <1>2, <2>1, <2>2, <2>3, <2>4 DEF StampFresh
<1>5. CASE W!queue_work("last", "idle")
  <2>1. /\ irq = "last" /\ irq' = "idle" /\ pending' = TRUE
        /\ queued' = IF pending THEN queued ELSE entered
        /\ UNCHANGED <<jiffies, press_time, key_pressed, entered, worker, read, running>>
    BY <1>5 DEF W!queue_work, W!stamp
  <2>2. Times' /\ Places'
    BY <1>1, <2>1 DEF Times, Places
  <2>3. Age(press_time)' = Age(press_time) /\ Age(read)' = Age(read)
    BY <2>1 DEF Age
  <2> QED BY <1>2, <2>1, <2>2, <2>3 DEF StampFresh
<1> QED BY <1>3, <1>4, <1>5 DEF W!Isr

\* The worker reports only what its two readings, each no older than itself,
\* put more than LONG_PRESS apart.
LEMMA Verdict ==
  ASSUME WInv, NEW t \in 0 .. WORD - 1, NEW p \in 0 .. WORD - 1,
         NEW old \in Nat, NEW new \in Nat, old <= running,
         Same(jiffies - p, old), Same(jiffies - t, new), new <= running,
         W!time_after(t, p + LONG_PRESS)
  PROVE  running > LONG_PRESS
<1>1. /\ jiffies \in Int /\ t \in Int /\ p \in Int /\ running \in 0 .. LATENCY
      /\ LONG_PRESS \in Int
  BY Halves, WTypes, Bounds DEF WInv, Times
<1>2. Same((jiffies - p) - (jiffies - t), old - new)
  <2>1. jiffies - p \in Int /\ jiffies - t \in Int /\ old \in Int /\ new \in Int
    BY <1>1
  <2> QED BY <2>1, SameTakes
<1>3. Same(t - p, old - new) /\ t - p \in Int /\ old - new \in Int
  <2>1. (jiffies - p) - (jiffies - t) = t - p
    BY <1>1
  <2> QED BY <1>1, <1>2, <2>1
<1>4. Same((t - p) - LONG_PRESS, (old - new) - LONG_PRESS)
  BY <1>1, <1>3, SameSelf, SameTakes
<1> DEFINE x == t - (p + LONG_PRESS)
           d == (old - new) - LONG_PRESS
<1>5. x \in Int /\ d \in Int /\ x = (t - p) - LONG_PRESS
  BY <1>1, <1>3
<1>6. x % WORD \in 1 .. HALF
  BY Halves DEF W!time_after, HALF
<1>7. Same(x, d)
  BY <1>4, <1>5
<1>8. -HALF < d
  BY <1>1, Bounds, Halves
<1> HIDE DEF x
<1>9. ~(d <= 0)
  BY <1>5, <1>6, <1>7, <1>8, NotAhead
<1> QED BY <1>1, <1>9

LEMMA WWork == WInv /\ (W!Start \/ W!Test \/ W!Compare \/ W!Report) => WInv'
<1> SUFFICES ASSUME WInv, W!Start \/ W!Test \/ W!Compare \/ W!Report PROVE WInv'
  OBVIOUS
<1>1. Times /\ Places
  BY WTypes DEF WInv
<1>2. /\ irq = "last" => Age(press_time) <= entered
      /\ pending => Age(press_time) <= queued
      /\ worker \in {"test", "has jiffies", "has press_time"} => Age(press_time) <= running
      /\ worker \in {"has jiffies", "has press_time"} => Age(read) <= running
      /\ worker = "report" => running > LONG_PRESS
  BY DEF WInv, StampFresh, ReportsOnlyWhenLate, W!ReportsOnlyWhenLate
<1>3. UNCHANGED <<jiffies, press_time, key_pressed, irq, entered>>
  BY DEF W!Start, W!Test, W!Compare, W!Report, W!stamp
<1>4. Age(press_time)' = Age(press_time)
  BY <1>3 DEF Age
<1>5. 0 \in 0 .. WORD - 1 /\ 0 \in 0 .. LATENCY
  BY Halves, Bounds
<1> SUFFICES Times' /\ Places' /\ StampFresh' /\ (worker' = "report" => running' > LONG_PRESS)
  BY WTypes DEF WInv, ReportsOnlyWhenLate, W!ReportsOnlyWhenLate
<1>6. CASE W!Start
  <2>1. /\ pending /\ pending' = FALSE /\ worker' = "test" /\ running' = queued /\ queued' = 0
        /\ read' = read
    BY <1>6 DEF W!Start
  <2>2. Times' /\ Places'
    BY <1>1, <1>3, <1>5, <2>1 DEF Times, Places
  <2> QED BY <1>2, <1>3, <1>4, <2>1, <2>2 DEF StampFresh
<1>7. CASE W!Test
  <2>1. /\ worker = "test" /\ UNCHANGED <<pending, queued, running>>
        /\ \/ worker' = "idle" /\ read' = 0
           \/ worker' = "has jiffies" /\ read' = jiffies
           \/ worker' = "has press_time" /\ read' = press_time
    BY <1>7 DEF W!Test
  <2>2. Times' /\ Places'
    BY <1>1, <1>3, <1>5, <2>1 DEF Times, Places
  <2>3. worker' \in {"has jiffies", "has press_time"} => Age(read)' <= running
    <3>1. CASE worker' = "has jiffies"
      <4>1. Age(read)' = 0
        BY <1>1, <1>3, <2>1, <3>1, Ageing DEF Age, Times
      <4>2. running >= 0
        BY <1>1, Bounds DEF Times
      <4> QED BY <4>1, <4>2
    <3>2. CASE worker' = "has press_time"
      <4>1. Age(read)' = Age(press_time)
        BY <1>3, <2>1, <3>2 DEF Age
      <4> QED BY <1>2, <2>1, <4>1
    <3> QED BY <3>1, <3>2
  <2> QED BY <1>2, <1>3, <1>4, <2>1, <2>2, <2>3 DEF StampFresh
<1>8. CASE W!Compare
  <2>1. PICK t \in 0 .. WORD - 1, p \in 0 .. WORD - 1 :
          /\ \/ worker = "has jiffies" /\ t = read /\ p = press_time
             \/ worker = "has press_time" /\ t = jiffies /\ p = read
          /\ worker' = IF W!time_after(t, p + LONG_PRESS) THEN "report" ELSE "idle"
          /\ read' = 0
          /\ UNCHANGED <<pending, queued, running>>
    BY <1>8 DEF W!Compare
  <2>2. Times' /\ Places'
    BY <1>1, <1>3, <1>5, <2>1 DEF Times, Places
  <2>3. StampFresh'
    BY <1>2, <1>3, <1>4, <2>1 DEF StampFresh
  <2>4. /\ Age(p) \in Nat /\ Age(t) \in Nat
        /\ Same(jiffies - p, Age(p)) /\ Same(jiffies - t, Age(t))
        /\ Age(jiffies) = 0
    BY <1>1, Ageing DEF Age, Times
  <2>5. Age(p) <= running /\ Age(t) <= running
    <3>1. CASE worker = "has jiffies" /\ t = read /\ p = press_time
      BY <1>2, <3>1
    <3>2. CASE worker = "has press_time" /\ t = jiffies /\ p = read
      <4>1. Age(p) <= running
        BY <1>2, <3>2
      <4>2. Age(t) = 0
        BY <2>4, <3>2
      <4>3. running >= 0
        BY <1>1, Bounds DEF Times
      <4> QED BY <4>1, <4>2, <4>3
    <3> QED BY <2>1, <3>1, <3>2
  <2>6. W!time_after(t, p + LONG_PRESS) => running > LONG_PRESS
    BY <2>4, <2>5, Verdict
  <2> QED BY <2>1, <2>2, <2>3, <2>6
<1>9. CASE W!Report
  <2>1. worker' = "idle" /\ UNCHANGED <<pending, read, queued, running>>
    BY <1>9 DEF W!Report
  <2>2. Times' /\ Places'
    BY <1>1, <1>3, <2>1 DEF Times, Places
  <2> QED BY <1>2, <1>3, <1>4, <2>1, <2>2 DEF StampFresh
<1> QED BY <1>6, <1>7, <1>8, <1>9
-----------------------------------------------------------------------------
\* The driver that is not loaded is not in its handlers.
IInv == /\ loaded \in {"tiny_gpiobtn", "app_workqueue"}
        /\ loaded = "tiny_gpiobtn" => Timed /\ worker = "idle"
        /\ loaded = "app_workqueue" => WInv /\ \A t \in Task : pc[t] = "user"

LEMMA InitIInv == MCInit => IInv
BY TimedInit, WInit DEF MCInit, IInv, Init, W!Init

LEMMA NextIInv == IInv /\ [MCNext]_<<loaded, vars, workq>> => IInv'
<1> SUFFICES ASSUME IInv, [MCNext]_<<loaded, vars, workq>> PROVE IInv'
  OBVIOUS
<1>1. CASE loaded = "tiny_gpiobtn" /\ Next /\ UNCHANGED <<loaded, workq>>
  <2>1. Timed' /\ worker' = worker /\ loaded' = loaded
    BY <1>1, TimedPreserved DEF IInv, workq
  <2> QED BY <1>1, <2>1 DEF IInv
<1>2. CASE loaded = "app_workqueue" /\ W!Next /\ UNCHANGED <<loaded, gpiobtn>>
  <2>1. WInv' /\ pc' = pc /\ loaded' = loaded
    BY <1>2, WTick, WIsr, WWork DEF IInv, W!Next, gpiobtn
  <2> QED BY <1>2, <2>1 DEF IInv
<1>3. CASE UNCHANGED <<loaded, vars, workq>>
  <2>1. Timed => Timed'
    BY <1>3, TimedPreserved
  <2>2. WInv => WInv'
    BY <1>3 DEF WInv, W!TypeOK, StampFresh, Age, ReportsOnlyWhenLate, W!ReportsOnlyWhenLate,
                vars, workq
  <2>3. UNCHANGED <<loaded, worker, pc>>
    BY <1>3 DEF vars, workq
  <2> QED BY <2>1, <2>2, <2>3 DEF IInv
<1> QED BY <1>1, <1>2, <1>3 DEF MCNext

LEMMA Invariant == MCSpec => []IInv
BY InitIInv, NextIInv, PTL DEF MCSpec

\* Every variable of the driver that is loaded keeps its type: times are words,
\* and the works' ages stay within the latency.
THEOREM TypeCorrect == MCSpec => [](IF loaded = "tiny_gpiobtn" THEN TypeOK ELSE W!TypeOK)
<1>1. IInv => IF loaded = "tiny_gpiobtn" THEN TypeOK ELSE W!TypeOK
  BY DEF IInv, Timed, WInv
<1> QED BY <1>1, Invariant, PTL

\* ReportsOnlyWhenLate of the run, for every latency short of half a word: a
\* long press is reported by a worker that is later than LONG_PRESS.
THEOREM LatenessIsReported == MCSpec => []ReportsOnlyWhenLate
<1>1. IInv => ReportsOnlyWhenLate
  BY DEF IInv, WInv, ReportsOnlyWhenLate, W!ReportsOnlyWhenLate
<1> QED BY <1>1, Invariant, PTL

LEMMA StepJudges ==
  ASSUME IInv, [MCNext]_<<loaded, vars, workq>>, NEW t \in Task
  PROVE  /\ Judged(t, "accept") /\ pressed /\ ~crossed => Gap(t) >= debounce
         /\ Judged(t, "ignored") /\ pressed /\ ~crossed =>
              Gap(t) < debounce \/ Gap(t) >= WORD \div 2 + debounce
         /\ Judged(t, "accept") /\ ~pressed => Gap(t) < DeafFrom \/ Gap(t) >= DeafUntil
         /\ Judged(t, "ignored") /\ ~pressed =>
              /\ DeafFrom <= Gap(t)
              /\ Gap(t) < DeafUntil \/ Gap(t) >= DeafUntil + WORD \div 2
<1>1. CASE loaded = "tiny_gpiobtn"
  <2>1. Timed /\ [Next]_vars
    BY <1>1 DEF IInv, MCNext
  <2> QED BY <2>1, StepsApart
<1>2. CASE loaded = "app_workqueue"
  BY <1>2 DEF IInv, Judged
<1> QED BY <1>1, <1>2 DEF IInv

\* AcceptedApart of the run, for every debounce time, word size and number of
\* writers: as long as two of them have not met in the handler, accepted presses
\* are debounce ticks apart.
THEOREM PressesApart == MCSpec => AcceptedApart
<1>1. IInv /\ [MCNext]_<<loaded, vars, workq>> =>
        [\A t \in Task : Judged(t, "accept") /\ pressed /\ ~crossed => Gap(t) >= debounce]_vars
  BY StepJudges
<1> QED BY <1>1, Invariant, PTL DEF MCSpec, AcceptedApart

\* IgnoredWhenClose of the run: a press is ignored for the one before it only,
\* or half a word later.
THEOREM IgnoredOnlyWhenClose == MCSpec => IgnoredWhenClose
<1>1. IInv /\ [MCNext]_<<loaded, vars, workq>> =>
        [\A t \in Task : Judged(t, "ignored") /\ pressed /\ ~crossed =>
            Gap(t) < debounce \/ Gap(t) >= WORD \div 2 + debounce]_vars
  BY StepJudges
<1> QED BY <1>1, Invariant, PTL DEF MCSpec, IgnoredWhenClose

\* DeafAtBoot of the run, for every word and every place in it that jiffies starts
\* from, 32-bit and 64-bit builds alike, and however the writers meet: until a
\* press is accepted presses are ignored from half a word before to the end of the
\* window after the wrap, from boot when that is later, and accepted otherwise.
THEOREM DeafAroundTheWrap == MCSpec => DeafAtBoot
<1>1. IInv /\ [MCNext]_<<loaded, vars, workq>> =>
        [\A t \in Task : ~pressed =>
           /\ Judged(t, "accept") => Gap(t) < DeafFrom \/ Gap(t) >= DeafUntil
           /\ Judged(t, "ignored") =>
                DeafFrom <= Gap(t) /\ (Gap(t) < DeafUntil \/ Gap(t) >= DeafUntil + WORD \div 2)]_vars
  BY StepJudges
<1> QED BY <1>1, Invariant, PTL DEF MCSpec, DeafAtBoot
=============================================================================
