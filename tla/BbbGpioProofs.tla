---------------------------- MODULE BbbGpioProofs ----------------------------
(***************************************************************************)
(* The GPIO platform driver, for any number of users: a failed probe and a *)
(* remove leave nothing, no handler touches a line that is not the         *)
(* driver's, a line given back is dark and the references are counted,     *)
(* each up to the exceptions its property names.                           *)
(***************************************************************************)
EXTENDS BbbGpio, TLAPS, FiniteSetTheorems

\* The places of the driver core at which it has each of its resources.
WithDevice == {"dark", "bound", "m_device"}
WithClass == WithDevice \cup {"device", "m_class", "e_class"}
WithCdev == WithClass \cup {"class", "m_cdev", "e_cdev"}
WithRegion == WithCdev \cup {"cdev", "m_region", "e_region"}
WithLed == WithRegion \cup {"region", "button", "e_led", "m_dark", "m_led"}
WithButton == (WithLed \ {"button"}) \cup {"e_button", "m_button"}
Core == WithLed \cup {"unbound", "usr3", "e_button", "m_button"}

Typed == /\ core \in Core /\ held \subseteq Led \cup {"button", "region", "cdev", "class", "device"}
         /\ led_gpio \in Led \cup {NULL, ERR} /\ button_gpio \in {"button", NULL, ERR}
         /\ level \in [Led -> {0, 1}]
         /\ pc \in [Task -> {"closed", "open", "get", "invert", "set", "peek"}]
         /\ desc \in [Task -> Led \cup {"button", NULL}] /\ val \in [Task -> {0, 1}]
         /\ old \subseteq Task /\ \A t \in old : pc[t] # "closed"

\* What the driver has is what its place in probe or remove says.
HeldByPlace == /\ "device" \in held <=> core \in WithDevice
               /\ "class" \in held <=> core \in WithClass
               /\ "cdev" \in held <=> core \in WithCdev
               /\ "region" \in held <=> core \in WithRegion
               /\ "button" \in held <=> core \in WithButton /\ button_gpio = "button"
               /\ \A l \in Led : l \in held <=> core \in WithLed /\ led_gpio = l

\* A file that has not outlived the device finds it live, and its handler has
\* the descriptors the driver has.
Current == \A t \in Task \ old :
              /\ pc[t] # "closed" => core \in WithCdev
              /\ pc[t] \in {"set", "get"} => desc[t] = led_gpio
              /\ pc[t] \in {"set", "get", "invert"} => led_gpio \in Led
              /\ pc[t] = "peek" => desc[t] = "button" /\ button_gpio = "button"

\* A writer's value goes to a line of the LED, whoever has it.
Aimed == \A t \in Task : /\ pc[t] \in {"set", "get"} => desc[t] \in Led
                         /\ pc[t] = "peek" => desc[t] = "button"

\* Unless a file that outlived the device has driven a line, what is lit is
\* held, and remove has turned it off before it gives it back.
Dark == ~stray => /\ \A l \in Led : level[l] = 1 => l \in held
                  /\ core = "m_led" /\ led_gpio \in Led => level[led_gpio] = 0

\* A reference for every file and one for the driver, while they are its own;
\* never more than that.
Counted == /\ refs \in Nat \cup {Saturated}
           /\ refs \in Nat => refs <= Cardinality(Files) + 1
           /\ "cdev" \in held /\ ~reused => refs = Cardinality(Files) + 1

IInv == Typed /\ HeldByPlace /\ Current /\ Aimed /\ Dark /\ Counted
-----------------------------------------------------------------------------
LEMMA InitIInv == Init => IInv
<1> SUFFICES ASSUME Init PROVE IInv
  OBVIOUS
<1>1. Typed /\ HeldByPlace /\ Current /\ Aimed /\ Dark
  BY NameAssumption DEF Init, Typed, Core, WithDevice, WithClass, WithCdev, WithRegion,
     WithLed, WithButton, HeldByPlace, Current, Aimed, Dark, Led
<1>2. Files = {}
  BY DEF Init, Files
<1>3. Counted
  BY <1>2, FS_EmptySet DEF Init, Counted
<1> QED
  BY <1>1, <1>3 DEF IInv

Undoing == {"e_class", "e_cdev", "e_region", "e_led", "e_button",
            "m_device", "m_class", "m_cdev", "m_region", "m_dark", "m_led", "m_button"}
LEMMA NextPlace ==
    /\ After["e_class"] = "e_cdev" /\ After["e_cdev"] = "e_region"
    /\ After["e_region"] = "e_led" /\ After["e_led"] = "e_button"
    /\ After["e_button"] = "unbound"
    /\ After["m_device"] = "m_class" /\ After["m_class"] = "m_cdev"
    /\ After["m_cdev"] = "m_region" /\ After["m_region"] = "m_dark"
    /\ After["m_dark"] = "m_led" /\ After["m_led"] = "m_button"
    /\ After["m_button"] = "unbound"
BY DEF After

LEMMA TypedStep == Typed /\ Aimed /\ [Next]_vars => Typed'
<1> SUFFICES ASSUME Typed, Aimed, [Next]_vars PROVE Typed'
  OBVIOUS
<1>0. /\ \A d, v : v \in {0, 1} /\ Drive(d, v) => level' \in [Led -> {0, 1}]
      /\ UNCHANGED level => level' \in [Led -> {0, 1}]
  BY DEF Drive, Typed
<1> USE NameAssumption, NextPlace DEF Typed, Core, WithDevice, WithClass, WithCdev,
        WithRegion, WithLed, WithButton, Led, users
<1>1. CASE GetLed \/ GetUsr3
  BY <1>0, <1>1 DEF GetLed, GetUsr3
<1>2. CASE GetButton \/ AllocRegion \/ AddCdev \/ CreateClass \/ CreateDevice
  BY <1>2 DEF GetButton, AllocRegion, AddCdev, CreateClass, CreateDevice, Register
<1>3. CASE Darken \/ Unbind
  BY <1>0, <1>3 DEF Darken, Unbind
<1>4. ASSUME NEW places \in SUBSET Undoing, NEW gone, Undo(places, gone) PROVE core' \in Core
  BY <1>4 DEF Undo, Undoing
<1>5. CASE DestroyDevice \/ DestroyClass \/ FreeRegion \/ PutButton
  <2>1. core' \in Core
    BY <1>4, <1>5 DEF DestroyDevice, DestroyClass, FreeRegion, PutButton, Undoing
  <2> QED
    BY <1>5, <2>1 DEF DestroyDevice, DestroyClass, FreeRegion, PutButton, Undo
<1>6. CASE DarkenLed \/ PutLed \/ DelCdev
  <2>1. core' \in Core
    BY <1>4, <1>6 DEF DarkenLed, PutLed, DelCdev, Undoing
  <2>2. held' \subseteq held /\ UNCHANGED <<led_gpio, button_gpio, pc, desc, val>>
    BY <1>6 DEF DarkenLed, PutLed, DelCdev, Undo
  <2>3. level' \in [Led -> {0, 1}]
    BY <1>0, <1>6 DEF DarkenLed, PutLed, DelCdev
  <2>4. old' = old \/ old' = Files
    BY <1>6 DEF DarkenLed, PutLed, DelCdev
  <2> QED
    BY <2>1, <2>2, <2>3, <2>4 DEF Files
<1>7. CASE Reload
  BY <1>7 DEF Reload
<1>8. ASSUME NEW t \in Task, Open(t) \/ Close(t) \/ Read(t) \/ Peek(t) \/ Write(t) PROVE Typed'
  <2>1. CASE Open(t)
    BY <2>1 DEF Open, Go, driver
  <2>2. CASE Close(t)
    BY <2>2 DEF Close, Go, driver
  <2>3. CASE Read(t)
    <3>1. button_gpio = "button"
      BY <2>3 DEF Read
    <3> QED
      BY <2>3, <3>1 DEF Read, Go, Uses, driver
  <2>5. CASE Peek(t)
    BY <2>5 DEF Peek, Go, Uses, driver
  <2>4. CASE Write(t)
    BY <2>4 DEF Write, Go, Uses, driver
  <2> QED
    BY <1>8, <2>1, <2>2, <2>3, <2>4, <2>5
<1>9. ASSUME NEW t \in Task, GetValue(t) PROVE Typed'
  <2>1. desc[t] \in Led
    BY <1>9 DEF GetValue, Go, Aimed
  <2>2. 1 - level[desc[t]] \in {0, 1}
    BY <2>1
  <2> QED
    BY <1>9, <2>2 DEF GetValue, Go, Uses, driver
<1>10. ASSUME NEW t \in Task, SetValue(t) PROVE Typed'
  BY <1>0, <1>10 DEF SetValue, Go, Uses, driver
<1>11. CASE UNCHANGED vars
  BY <1>11 DEF vars, driver
<1> QED
  BY <1>1, <1>2, <1>3, <1>4, <1>5, <1>6, <1>7, <1>8, <1>9, <1>10, <1>11
     DEF Next, Probe, Remove, User

LEMMA AimedStep == Typed /\ Aimed /\ [Next]_vars => Aimed'
<1> SUFFICES ASSUME Typed, Aimed, [Next]_vars PROVE Aimed'
  OBVIOUS
<1> USE NameAssumption DEF Aimed
<1>1. ASSUME UNCHANGED users PROVE Aimed'
  BY <1>1 DEF users
<1>2. ASSUME Probe \/ Remove \/ Reload PROVE UNCHANGED users
  <2>1. CASE Probe
    BY <2>1 DEF Probe, GetLed, GetUsr3, GetButton, AllocRegion, AddCdev, CreateClass,
            CreateDevice, Darken, Register
  <2>2. CASE Remove
    BY <2>2 DEF Remove, Unbind, DestroyDevice, DestroyClass, DelCdev, FreeRegion,
            DarkenLed, PutLed, PutButton, Undo
  <2> QED
    BY <1>2, <2>1, <2>2 DEF Reload
<1>3. ASSUME NEW t \in Task, Open(t) \/ Close(t) \/ GetValue(t) \/ SetValue(t) \/ Peek(t)
      PROVE  Aimed'
  BY <1>3 DEF Open, Close, GetValue, SetValue, Peek, Go, Uses, Typed
<1>4. ASSUME NEW t \in Task, Read(t) PROVE Aimed'
  <2>1. button_gpio = "button"
    BY <1>4 DEF Read, Typed
  <2> QED
    BY <1>4, <2>1 DEF Read, Go, Uses, Typed
<1>5. ASSUME NEW t \in Task, Write(t) PROVE Aimed'
  <2>1. led_gpio \in Led
    BY <1>5 DEF Write, Typed
  <2> QED
    BY <1>5, <2>1 DEF Write, Go, Uses, Typed
<1> QED
  BY <1>1, <1>2, <1>3, <1>4, <1>5 DEF Next, User, vars

LEMMA HeldStep == Typed /\ HeldByPlace /\ [Next]_vars => HeldByPlace'
<1> SUFFICES ASSUME Typed, HeldByPlace, [Next]_vars PROVE HeldByPlace'
  OBVIOUS
<1>1. ASSUME UNCHANGED driver PROVE HeldByPlace'
  BY <1>1 DEF driver, HeldByPlace
<1>2. ASSUME NEW t \in Task, User(t) PROVE UNCHANGED driver
  BY <1>2 DEF User, Open, Close, Write, GetValue, SetValue, Read, Peek
<1> USE NameAssumption, NextPlace DEF Typed, HeldByPlace, Core, WithDevice, WithClass, WithCdev,
        WithRegion, WithLed, WithButton, Led
<1>3. CASE GetLed
  BY <1>3 DEF GetLed
<1>4. CASE GetUsr3
  <2>1. core = "usr3" /\ core' = "button" /\ UNCHANGED button_gpio
    BY <1>4 DEF GetUsr3
  <2>2. CASE led_gpio' = "usr3" /\ held' = held \cup {"usr3"}
    BY <2>1, <2>2
  <2>3. CASE led_gpio' = NULL /\ held' = held
    BY <2>1, <2>3
  <2> QED BY <1>4, <2>2, <2>3 DEF GetUsr3
<1>5. CASE GetButton
  BY <1>5 DEF GetButton
<1>6. CASE AllocRegion
  BY <1>6 DEF AllocRegion, Register
<1>7. CASE AddCdev
  BY <1>7 DEF AddCdev, Register
<1>8. CASE CreateClass
  BY <1>8 DEF CreateClass, Register
<1>9. CASE CreateDevice
  BY <1>9 DEF CreateDevice, Register
<1>10. CASE Darken \/ Unbind
  BY <1>10 DEF Darken, Unbind
<1>11. CASE DestroyDevice
  BY <1>11 DEF DestroyDevice, Undo
<1>12. CASE DestroyClass
  BY <1>12 DEF DestroyClass, Undo
<1>13. CASE DelCdev
  BY <1>13 DEF DelCdev, Undo
<1>14. CASE FreeRegion
  BY <1>14 DEF FreeRegion, Undo
<1>15. CASE DarkenLed
  BY <1>15 DEF DarkenLed, Undo
<1>16. CASE PutLed
  BY <1>16 DEF PutLed, Undo
<1>17. CASE PutButton
  BY <1>17 DEF PutButton, Undo
<1>18. CASE Reload
  BY <1>18 DEF Reload
<1> QED
  BY <1>1, <1>2, <1>3, <1>4, <1>5, <1>6, <1>7, <1>8, <1>9, <1>10, <1>11, <1>12, <1>13, <1>14,
     <1>15, <1>16, <1>17, <1>18 DEF Next, Probe, Remove, vars, driver

\* Only DelCdev takes the driver out of WithCdev; it makes every file an old one.
LEMMA CurrentStep == Typed /\ HeldByPlace /\ Current /\ [Next]_vars => Current'
<1> SUFFICES ASSUME Typed, HeldByPlace, Current, [Next]_vars PROVE Current'
  OBVIOUS
<1>1. ASSUME UNCHANGED <<users, old, led_gpio, button_gpio>>, core \in WithCdev => core' \in WithCdev
      PROVE  Current'
  BY <1>1 DEF Current, users
<1>2. ASSUME UNCHANGED <<users, old>>, core \notin WithCdev PROVE Current'
  <2>1. \A t \in Task \ old : pc[t] = "closed"
    BY <1>2 DEF Current
  <2> QED
    BY <1>2, <2>1 DEF Current, users
<1>3. CASE GetLed \/ GetUsr3 \/ GetButton
  BY <1>2, <1>3 DEF GetLed, GetUsr3, GetButton, WithCdev, WithClass, WithDevice
<1>4. CASE AllocRegion \/ AddCdev \/ CreateClass \/ CreateDevice \/ Darken \/ Unbind
  BY <1>1, <1>4 DEF AllocRegion, AddCdev, CreateClass, CreateDevice, Darken, Unbind, Register,
      WithCdev, WithClass, WithDevice
<1>5. CASE DestroyDevice \/ DestroyClass \/ FreeRegion \/ DarkenLed \/ PutLed \/ PutButton
  BY <1>1, <1>5, NextPlace DEF DestroyDevice, DestroyClass, FreeRegion, DarkenLed, PutLed,
      PutButton, Undo, WithCdev, WithClass, WithDevice
<1>6. CASE DelCdev
  BY <1>6 DEF DelCdev, Undo, Files, Current, users
<1>7. CASE Reload
  BY <1>7 DEF Reload, Files, Current, users
<1>8. ASSUME NEW t \in Task, User(t) PROVE Current'
  <2> USE DEF Current, Typed, Go
  <2>1. UNCHANGED driver
    BY <1>8 DEF User, Open, Close, Write, GetValue, SetValue, Read, Peek
  <2>2. CASE Open(t)
    BY <2>1, <2>2 DEF Open, HeldByPlace, driver
  <2>3. CASE Close(t)
    BY <2>1, <2>3 DEF Close, driver
  <2>4. CASE Write(t)
    <3>1. led_gpio \in Led
      BY <2>4 DEF Write
    <3> QED BY <2>1, <2>4, <3>1 DEF Write, Uses, driver
  <2>5. CASE Read(t)
    <3>1. button_gpio = "button"
      BY <2>5 DEF Read
    <3> QED BY <2>1, <2>5, <3>1 DEF Read, Uses, driver
  <2>6. CASE GetValue(t) \/ SetValue(t) \/ Peek(t)
    BY <2>1, <2>6 DEF GetValue, SetValue, Peek, Uses, driver
  <2> QED
    BY <1>8, <2>2, <2>3, <2>4, <2>5, <2>6 DEF User
<1>9. CASE UNCHANGED vars
  BY <1>9 DEF vars, users, driver, Current
<1> QED
  BY <1>3, <1>4, <1>5, <1>6, <1>7, <1>8, <1>9 DEF Next, Probe, Remove

LEMMA DarkStep == Typed /\ HeldByPlace /\ Current /\ Dark /\ [Next]_vars => Dark'
<1> SUFFICES ASSUME Typed, HeldByPlace, Current, Dark, [Next]_vars, ~stray'
             PROVE /\ \A l \in Led : level'[l] = 1 => l \in held'
                   /\ core' = "m_led" /\ led_gpio' \in Led => level'[led_gpio'] = 0
  BY DEF Dark
<1> USE NameAssumption
<1>1. ~stray /\ \A l \in Led : level[l] = 1 => l \in held
  <2>1. stray => stray'
    BY DEF Next, Probe, Remove, User, vars, GetLed, GetUsr3, GetButton, AllocRegion, AddCdev,
       CreateClass, CreateDevice, Darken, Register, Unbind, DestroyDevice, DestroyClass, DelCdev,
       FreeRegion, DarkenLed, PutLed, PutButton, Undo, Reload, Open, Close, Write, GetValue,
       SetValue, Read, Peek
  <2> QED
    BY <2>1 DEF Dark
<1>3. CASE GetLed \/ GetUsr3
  BY <1>1, <1>3 DEF GetLed, GetUsr3, Drive, Led, Typed
<1>4. CASE GetButton \/ AllocRegion \/ AddCdev \/ CreateClass \/ CreateDevice \/ Unbind
  BY <1>1, <1>4 DEF GetButton, AllocRegion, AddCdev, CreateClass, CreateDevice, Unbind, Register
<1>5. CASE Darken
  BY <1>1, <1>5 DEF Darken, Drive, Led, Typed
<1>6. CASE DestroyDevice \/ DestroyClass \/ DelCdev \/ FreeRegion
  BY <1>1, <1>6, NextPlace DEF DestroyDevice, DestroyClass, DelCdev, FreeRegion, Undo, Led
<1>7. CASE PutButton
  <2>1. button_gpio \notin Led /\ level' = level /\ held' = held \ {button_gpio} /\ core' # "m_led"
    BY <1>7, NextPlace DEF PutButton, Undo, Typed, Led
  <2> QED BY <1>1, <2>1
<1>8. CASE DarkenLed
  BY <1>1, <1>8 DEF DarkenLed, Undo, Drive, Led, Typed
<1>9. CASE PutLed
  <2>1. level' = level /\ held' = held \ {led_gpio} /\ core' # "m_led"
    BY <1>9, NextPlace DEF PutLed, Undo
  <2>2. led_gpio \in Led => level[led_gpio] = 0
    BY <1>1, <1>9 DEF PutLed, Undo, Dark, Typed
  <2> QED BY <1>1, <2>1, <2>2
<1>10. CASE Reload
  BY <1>1, <1>10 DEF Reload
<1>11. ASSUME NEW t \in Task, SetValue(t)
       PROVE  /\ \A l \in Led : level'[l] = 1 => l \in held'
              /\ core' = "m_led" /\ led_gpio' \in Led => level'[led_gpio'] = 0
  <2>1. t \notin old
    BY <1>11 DEF SetValue
  <2>2. core \in WithCdev /\ led_gpio \in Led /\ (pc[t] = "set" => desc[t] = led_gpio)
    BY <1>11, <2>1 DEF SetValue, Go, Current
  <2>3. led_gpio \in held /\ core # "m_led"
    BY <2>2 DEF HeldByPlace, WithLed, WithRegion, WithCdev, WithClass, WithDevice
  <2>4. Drive(led_gpio, val[t]) /\ UNCHANGED driver
    BY <1>11, <2>2 DEF SetValue, Go
  <2> QED
    BY <1>1, <2>2, <2>3, <2>4 DEF Drive, driver, Typed
<1>12. ASSUME NEW t \in Task, Open(t) \/ Close(t) \/ Write(t) \/ GetValue(t) \/ Read(t) \/ Peek(t)
       PROVE  UNCHANGED <<driver, level>>
  BY <1>12 DEF Open, Close, Write, GetValue, Read, Peek
<1>13. ASSUME UNCHANGED <<driver, level>>
       PROVE  /\ \A l \in Led : level'[l] = 1 => l \in held'
              /\ core' = "m_led" /\ led_gpio' \in Led => level'[led_gpio'] = 0
  BY <1>1, <1>13 DEF Dark, driver
<1> QED
  BY <1>3, <1>4, <1>5, <1>6, <1>7, <1>8, <1>9, <1>10, <1>11, <1>12, <1>13
     DEF Next, Probe, Remove, User, vars, driver

LEMMA CountedStep == Typed /\ HeldByPlace /\ Counted /\ [Next]_vars => Counted'
<1> SUFFICES ASSUME Typed, HeldByPlace, Counted, [Next]_vars PROVE Counted'
  OBVIOUS
<1>1. Cardinality(Files) \in Nat /\ IsFiniteSet(Files)
  <2>1. Files \subseteq Task
    BY DEF Files
  <2> QED
    BY <2>1, TaskAssumption, FS_Subset, FS_CardinalityType
<1> USE NameAssumption DEF Counted
<1>2. ASSUME UNCHANGED <<refs, reused, pc>>, "cdev" \in held' => "cdev" \in held PROVE Counted'
  BY <1>2 DEF Files
<1>3. CASE GetLed \/ GetUsr3 \/ GetButton
  BY <1>2, <1>3 DEF GetLed, GetUsr3, GetButton, users
<1>4. CASE AllocRegion \/ CreateClass \/ CreateDevice \/ Darken \/ Unbind
  BY <1>2, <1>4 DEF AllocRegion, CreateClass, CreateDevice, Darken, Unbind, Register, users
<1>5. CASE DestroyDevice \/ DestroyClass \/ FreeRegion \/ DarkenLed \/ PutLed \/ PutButton
  BY <1>2, <1>5 DEF DestroyDevice, DestroyClass, FreeRegion, DarkenLed, PutLed, PutButton,
     Undo, users
<1>6. CASE AddCdev
  <2>1. Files' = Files /\ refs' = 1 /\ (~reused' => Files = {})
    BY <1>6 DEF AddCdev, Register, Files, users
  <2> QED
    BY <1>1, <2>1, FS_EmptySet
<1>7. CASE DelCdev
  <2>1. Files' = Files /\ refs' = Put(refs) /\ "cdev" \notin held'
    BY <1>7 DEF DelCdev, Undo, Files, users
  <2> QED
    BY <1>1, <2>1 DEF Put
<1>8. CASE Reload
  <2>1. Files' = {} /\ Files = {} /\ refs' = 0 /\ held' = held /\ "cdev" \notin held
    BY <1>8 DEF Reload, Files, users, HeldByPlace, WithCdev, WithClass, WithDevice
  <2> QED
    BY <2>1, FS_EmptySet
<1>9. ASSUME NEW t \in Task, Open(t) PROVE Counted'
  <2>1. Files' = Files \cup {t} /\ t \notin Files
    BY <1>9 DEF Open, Go, Files, Typed
  <2>2. Cardinality(Files') = Cardinality(Files) + 1
    BY <1>1, <2>1, FS_AddElement
  <2>3. refs' = Get(refs) /\ UNCHANGED <<held, reused>>
    BY <1>9 DEF Open, driver
  <2> QED
    BY <1>1, <2>2, <2>3 DEF Get
<1>10. ASSUME NEW t \in Task, Close(t) PROVE Counted'
  <2>1. Files' = Files \ {t} /\ t \in Files
    BY <1>10 DEF Close, Go, Files, Typed
  <2>2. Cardinality(Files') = Cardinality(Files) - 1
    BY <1>1, <2>1, FS_RemoveElement
  <2>3. refs' = Put(refs) /\ UNCHANGED <<held, reused>>
    BY <1>10 DEF Close, driver
  <2>4. Cardinality(Files') \in Nat
    BY <1>1, <2>1, FS_RemoveElement, FS_CardinalityType
  <2> QED
    BY <1>1, <2>2, <2>3, <2>4 DEF Put
<1>11. ASSUME NEW t \in Task, Write(t) \/ GetValue(t) \/ SetValue(t) \/ Read(t) \/ Peek(t)
       PROVE  Counted'
  <2>1. Files' = Files
    BY <1>11 DEF Write, GetValue, SetValue, Read, Peek, Go, Files, Typed
  <2>2. UNCHANGED <<refs, reused, held>>
    BY <1>11 DEF Write, GetValue, SetValue, Read, Peek, driver
  <2> QED
    BY <2>1, <2>2
<1>12. CASE UNCHANGED vars
  BY <1>2, <1>12 DEF vars, users, driver
<1> QED
  BY <1>3, <1>4, <1>5, <1>6, <1>7, <1>8, <1>9, <1>10, <1>11, <1>12 DEF Next, Probe, Remove, User

LEMMA Inductive == IInv /\ [Next]_vars => IInv'
BY TypedStep, HeldStep, CurrentStep, AimedStep, DarkStep, CountedStep DEF IInv

(* The invariant above holds whatever probe, remove and the users do.       *)
THEOREM Invariance == Spec => []IInv
BY InitIInv, Inductive, PTL DEF Spec

Flags == reused \in BOOLEAN /\ stray \in BOOLEAN

LEMMA FlagsStep == Flags /\ [Next]_vars => Flags'
<1> SUFFICES ASSUME Flags, [Next]_vars PROVE Flags'
  OBVIOUS
<1> USE DEF Flags
<1>1. CASE Probe
  BY <1>1, Zenon DEF Probe, GetLed, GetUsr3, GetButton, AllocRegion, AddCdev, CreateClass,
     CreateDevice, Darken, Register
<1>2. CASE Remove
  BY <1>2, Zenon DEF Remove, Unbind, DestroyDevice, DestroyClass, DelCdev, FreeRegion,
     DarkenLed, PutLed, PutButton, Undo
<1>3. CASE Reload
  BY <1>3, Zenon DEF Reload
<1>4. ASSUME NEW t \in Task, User(t) PROVE Flags'
  BY <1>4, Zenon DEF User, Open, Close, Write, GetValue, SetValue, Read, Peek
<1>5. CASE UNCHANGED vars
  BY <1>5, Zenon DEF vars
<1> QED
  BY <1>1, <1>2, <1>3, <1>4, <1>5 DEF Next
-----------------------------------------------------------------------------
(* Every variable keeps its type; there are never more references than     *)
(* users and the driver can hold.                                          *)
THEOREM TypeCorrect == Spec => []TypeOK
<1>1. Init => Flags
  BY Zenon DEF Init, Flags
<1>2. ASSUME IInv, Flags PROVE TypeOK
  <2> USE <1>2 DEF IInv, Typed
  <2>1. core \in {"unbound", "usr3", "button", "region", "cdev", "class", "device", "dark", "bound"}
                \cup DOMAIN After
    BY DEF Core, WithLed, WithRegion, WithCdev, WithClass, WithDevice, After
  <2>2. old \subseteq Files /\ Files \subseteq Task
    BY DEF Files
  <2>3. Cardinality(Files) <= Cardinality(Task) /\ Cardinality(Files) \in Nat
        /\ Cardinality(Task) \in Nat
    BY <2>2, TaskAssumption, FS_Subset, FS_CardinalityType
  <2>4. refs \in 0 .. Cardinality(Task) + 1 \cup {Saturated}
    BY <2>3 DEF Counted
  <2> QED
    BY <2>1, <2>2, <2>4 DEF TypeOK, Flags
<1> QED
  BY <1>1, <1>2, FlagsStep, Invariance, PTL DEF Spec

(* A probe that failed, and a remove that is through, have given back all  *)
(* they got.                                                               *)
THEOREM EverythingGivenBack == Spec => []NothingLeft
<1>1. IInv => NothingLeft
  BY DEF IInv, Typed, HeldByPlace, NothingLeft, WithDevice, WithClass, WithCdev, WithRegion,
     WithLed, WithButton
<1> QED
  BY <1>1, Invariance, PTL

(* However many users and however often the device is bound anew, a        *)
(* handler whose file has not outlived its device uses the driver's lines. *)
THEOREM LinesAreHeld == Spec => []NoReleasedLine
<1>1. ASSUME IInv, NEW t \in Task \ old
      PROVE  /\ pc[t] \in {"set", "get", "peek"} => desc[t] \in held
             /\ pc[t] = "invert" => led_gpio \in held
  <2>1. pc[t] \in {"set", "get", "peek", "invert"} => core \in WithLed /\ core \in WithButton
    BY <1>1 DEF IInv, Current, WithLed, WithButton, WithRegion, WithCdev, WithClass, WithDevice
  <2> QED
    BY <1>1, <2>1 DEF IInv, Current, HeldByPlace
<1>2. IInv => NoReleasedLine
  BY <1>1 DEF NoReleasedLine
<1> QED
  BY <1>2, Invariance, PTL

(* Remove turns the LED off for good: no writer can light it again before  *)
(* it is given back, as long as its file did not outlive the device.       *)
THEOREM ReleasedIsDark == Spec => []LitOnlyIfHeld
<1>1. IInv => LitOnlyIfHeld
  BY DEF IInv, Dark, LitOnlyIfHeld
<1> QED
  BY <1>1, Invariance, PTL

(* The device stays open to everybody until its cdev is deleted, unless    *)
(* the static cdev was initialised under an open file.                     *)
THEOREM ReferencesMatch == Spec => []RefsCounted
<1>1. IInv => RefsCounted
  BY DEF IInv, Counted, RefsCounted
<1> QED
  BY <1>1, Invariance, PTL
=============================================================================
