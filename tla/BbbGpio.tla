------------------------------- MODULE BbbGpio -------------------------------
(***************************************************************************)
(* ALL_IN_1/19_20_21 gpio/gpio_driver.c: a platform driver with one        *)
(* character device over a LED and a button.                               *)
(*                                                                         *)
(* The driver core runs probe and remove one at a time.  An open file pins *)
(* the module but not the binding: the device can be unbound through sysfs *)
(* with files open, and bound again, while their handlers run on.  The     *)
(* handlers share led_gpio and button_gpio with probe and remove, without  *)
(* a lock, and gpio_cdev is static: the next probe initialises it anew.    *)
(***************************************************************************)
EXTENDS Naturals, FiniteSets

CONSTANTS Task,               \* users, one open file each at most
          NULL, ERR,          \* no descriptor; the pointer a failed gpiod_get returns
          Saturated           \* a reference count that has been put below 0

ASSUME TaskAssumption == IsFiniteSet(Task)
ASSUME NameAssumption == /\ NULL # ERR /\ {NULL, ERR} \cap {"led", "usr3", "button"} = {}
                         /\ Saturated \notin Nat

VARIABLES core,        \* the driver core's place
          held,        \* what the driver has requested or registered
          led_gpio, button_gpio,
          level,       \* of the two lines a LED may be on
          refs,        \* references to gpio_cdev
          reused,      \* history: cdev_init ran on it while files referred to it
          pc, desc, val,  \* a user's place; the descriptor and value its handler is using
          old,         \* users whose file was opened before the last cdev_del
          stray        \* history: one of those has driven a line, or a failing probe
                       \* has given one back lit

driver == <<core, held, led_gpio, button_gpio>>
users == <<pc, desc, val>>
vars == <<driver, level, refs, reused, users, old, stray>>

Led == {"led", "usr3"}

Init == /\ core = "unbound" /\ held = {}
        /\ led_gpio = NULL /\ button_gpio = NULL
        /\ level = [l \in Led |-> 0]
        /\ refs = 0 /\ reused = FALSE
        /\ pc = [t \in Task |-> "closed"]
        /\ desc = [t \in Task |-> NULL] /\ val = [t \in Task |-> 0]
        /\ old = {} /\ stray = FALSE

Files == {t \in Task : pc[t] # "closed"}
Drive(d, v) == level' = IF d \in Led THEN [level EXCEPT ![d] = v] ELSE level

\* kobject_get_unless_zero and kobject_put.
Get(n) == IF n = Saturated THEN Saturated ELSE n + 1
Put(n) == IF n \in {0, Saturated} THEN Saturated ELSE n - 1
-----------------------------------------------------------------------------
(* bbb_gpio_probe                                                          *)

\* gpiod_get(dev, "led", GPIOD_OUT_LOW)
GetLed == /\ core = "unbound"
          /\ \/ led_gpio' = "led" /\ held' = held \cup {"led"} /\ Drive("led", 0)
                /\ core' = "button"
             \/ led_gpio' = ERR /\ core' = "usr3" /\ UNCHANGED <<held, level>>
          /\ UNCHANGED <<button_gpio, refs, reused, users, old, stray>>

GetUsr3 == /\ core = "usr3"
           /\ core' = "button"
           /\ \/ led_gpio' = "usr3" /\ held' = held \cup {"usr3"} /\ Drive("usr3", 0)
              \/ led_gpio' = NULL /\ UNCHANGED <<held, level>>
           /\ UNCHANGED <<button_gpio, refs, reused, users, old, stray>>

GetButton == /\ core = "button"
             /\ core' = "region"
             /\ \/ button_gpio' = "button" /\ held' = held \cup {"button"}
                \/ button_gpio' = NULL /\ UNCHANGED held
             /\ UNCHANGED <<led_gpio, level, refs, reused, users, old, stray>>

\* A registration of probe, the step that follows it and the one a failure
\* unwinds from.
Register(r, next, undo) ==
    /\ \/ core' = next /\ held' = held \cup {r}
       \/ core' = undo /\ UNCHANGED held
    /\ UNCHANGED <<led_gpio, button_gpio, level, users, old, stray>>

AllocRegion == core = "region" /\ Register("region", "cdev", "e_led") /\ UNCHANGED <<refs, reused>>

\* cdev_init, whoever still refers to gpio_cdev, and cdev_add.
AddCdev == /\ core = "cdev" /\ Register("cdev", "class", "e_region")
           /\ refs' = 1
           /\ reused' = (Files # {})

CreateClass == core = "class" /\ Register("class", "device", "e_cdev") /\ UNCHANGED <<refs, reused>>
CreateDevice == core = "device" /\ Register("device", "dark", "e_class") /\ UNCHANGED <<refs, reused>>

Darken == /\ core = "dark"
          /\ core' = "bound"
          /\ Drive(led_gpio, 0)
          /\ UNCHANGED <<held, led_gpio, button_gpio, refs, reused, users, old, stray>>
-----------------------------------------------------------------------------
(* The error labels of probe, and bbb_gpio_remove.                         *)

\* err_class that jumps over the cdev.
AfterSkippingCdev ==
    [e_class |-> "e_region", e_cdev |-> "e_region", e_region |-> "e_led",
     e_led |-> "e_button", e_button |-> "unbound",
     m_device |-> "m_class", m_class |-> "m_cdev", m_cdev |-> "m_region",
     m_region |-> "m_dark", m_dark |-> "m_led", m_led |-> "m_button", m_button |-> "unbound"]
\* The lines given back before the device is taken down.
AfterPinsFirst ==
    [e_class |-> "e_cdev", e_cdev |-> "e_region", e_region |-> "e_led",
     e_led |-> "e_button", e_button |-> "unbound",
     m_device |-> "m_dark", m_dark |-> "m_led", m_led |-> "m_button", m_button |-> "m_class",
     m_class |-> "m_cdev", m_cdev |-> "m_region", m_region |-> "unbound"]
\* A remove that does not turn the LED off.
AfterStaysLit ==
    [e_class |-> "e_cdev", e_cdev |-> "e_region", e_region |-> "e_led",
     e_led |-> "e_button", e_button |-> "unbound",
     m_device |-> "m_class", m_class |-> "m_cdev", m_cdev |-> "m_region",
     m_region |-> "m_led", m_dark |-> "m_led", m_led |-> "m_button", m_button |-> "unbound"]
After ==
    [e_class |-> "e_cdev", e_cdev |-> "e_region", e_region |-> "e_led",
     e_led |-> "e_button", e_button |-> "unbound",
     m_device |-> "m_class", m_class |-> "m_cdev", m_cdev |-> "m_region",
     m_region |-> "m_dark", m_dark |-> "m_led", m_led |-> "m_button", m_button |-> "unbound"]

Undo(places, gone) == /\ core \in places
                      /\ core' = After[core]
                      /\ held' = held \ gone
                      /\ UNCHANGED <<led_gpio, button_gpio, reused, users>>

\* unbind in sysfs, or rmmod.
Unbind == /\ core = "bound"
          /\ core' = "m_device"
          /\ UNCHANGED <<held, led_gpio, button_gpio, level, refs, reused, users, old, stray>>

DestroyDevice == Undo({"m_device"}, {"device"}) /\ UNCHANGED <<level, refs, old, stray>>
DestroyClass == Undo({"e_class", "m_class"}, {"class"}) /\ UNCHANGED <<level, refs, old, stray>>

\* No more opens; the files there are stay.
DelCdev == /\ Undo({"e_cdev", "m_cdev"}, {"cdev"})
           /\ refs' = Put(refs)
           /\ old' = Files
           /\ UNCHANGED <<level, stray>>

FreeRegion == Undo({"e_region", "m_region"}, {"region"}) /\ UNCHANGED <<level, refs, old, stray>>

DarkenLed == /\ Undo({"m_dark"}, {})
             /\ Drive(led_gpio, 0)
             /\ UNCHANGED <<refs, old, stray>>

\* gpiod_put; the pointers stay as they are.  Only remove has darkened the LED.
PutLed == /\ Undo({"e_led", "m_led"}, {led_gpio})
          /\ stray' = (stray \/ (core = "e_led" /\ led_gpio \in Led /\ level[led_gpio] = 1))
          /\ UNCHANGED <<level, refs, old>>
PutButton == Undo({"e_button", "m_button"}, {button_gpio}) /\ UNCHANGED <<level, refs, old, stray>>

\* rmmod and insmod.
Reload == /\ core = "unbound" /\ Files = {}
          /\ led_gpio' = NULL /\ button_gpio' = NULL /\ refs' = 0 /\ reused' = FALSE
          /\ UNCHANGED <<core, held, level, users, old, stray>>
-----------------------------------------------------------------------------
(* The users.                                                              *)

Go(t, from, to) == pc[t] = from /\ pc' = [pc EXCEPT ![t] = to]
Uses(t, d, v) == desc' = [desc EXCEPT ![t] = d] /\ val' = [val EXCEPT ![t] = v]

\* chrdev_open; device_open does nothing.
Open(t) == /\ "cdev" \in held /\ refs # 0
           /\ Go(t, "closed", "open")
           /\ refs' = Get(refs)
           /\ UNCHANGED <<driver, level, reused, desc, val, old, stray>>

\* A release function that also drops the reference the kernel drops after it.
CloseTwice(t) == /\ Go(t, "open", "closed")
                 /\ refs' = Put(Put(refs))
                 /\ old' = old \ {t}
                 /\ UNCHANGED <<driver, level, reused, desc, val, stray>>
\* The last close drops the reference of whatever gpio_cdev is by now.
Close(t) == /\ Go(t, "open", "closed")
            /\ refs' = Put(refs)
            /\ old' = old \ {t}
            /\ UNCHANGED <<driver, level, reused, desc, val, stray>>

\* A write that does not ask IS_ERR.
WriteUnchecked(t) == /\ led_gpio # NULL
                     /\ \/ Go(t, "open", "set") /\ \E v \in {0, 1} : Uses(t, led_gpio, v)
                        \/ Go(t, "open", "get") /\ Uses(t, led_gpio, 0)
                     /\ UNCHANGED <<driver, level, refs, reused, old, stray>>
\* device_write, with '1', '0' or 't' and a led_gpio that passes the test; else
\* nothing happens.
Write(t) == /\ led_gpio \notin {NULL, ERR}
            /\ \/ Go(t, "open", "set") /\ \E v \in {0, 1} : Uses(t, led_gpio, v)
               \/ Go(t, "open", "get") /\ Uses(t, led_gpio, 0)
            /\ UNCHANGED <<driver, level, refs, reused, old, stray>>

GetValue(t) == /\ Go(t, "get", "invert")
               /\ Uses(t, NULL, 1 - level[desc[t]])
               /\ UNCHANGED <<driver, level, refs, reused, old, stray>>

\* led_gpio is loaded again after the call of gpiod_get_value, and
\* gpiod_set_value does nothing with a pointer that is none.
SetValue(t) == /\ \/ Go(t, "set", "open") /\ Drive(desc[t], val[t])
                  \/ Go(t, "invert", "open") /\ Drive(led_gpio, val[t])
               /\ Uses(t, NULL, 0)
               /\ stray' = (stray \/ t \in old)
               /\ UNCHANGED <<driver, refs, reused, old>>

\* device_read; the button's value is printed and forgotten.
Read(t) == /\ button_gpio \notin {NULL, ERR}
           /\ Go(t, "open", "peek") /\ Uses(t, button_gpio, 0)
           /\ UNCHANGED <<driver, level, refs, reused, old, stray>>
Peek(t) == /\ Go(t, "peek", "open") /\ Uses(t, NULL, 0)
           /\ UNCHANGED <<driver, level, refs, reused, old, stray>>
-----------------------------------------------------------------------------
Probe == \/ GetLed \/ GetUsr3 \/ GetButton \/ AllocRegion \/ AddCdev
         \/ CreateClass \/ CreateDevice \/ Darken
Remove == \/ Unbind \/ DestroyDevice \/ DestroyClass \/ DelCdev \/ FreeRegion
          \/ DarkenLed \/ PutLed \/ PutButton
User(t) == Open(t) \/ Close(t) \/ Write(t) \/ GetValue(t) \/ SetValue(t) \/ Read(t) \/ Peek(t)
Next == Probe \/ Remove \/ Reload \/ \E t \in Task : User(t)

Spec == Init /\ [][Next]_vars
-----------------------------------------------------------------------------
TypeOK == /\ core \in {"unbound", "usr3", "button", "region", "cdev", "class", "device",
                       "dark", "bound"} \cup DOMAIN After
          /\ held \subseteq Led \cup {"button", "region", "cdev", "class", "device"}
          /\ led_gpio \in Led \cup {NULL, ERR} /\ button_gpio \in {"button", NULL, ERR}
          /\ level \in [Led -> {0, 1}]
          /\ refs \in 0 .. Cardinality(Task) + 1 \cup {Saturated}
          /\ pc \in [Task -> {"closed", "open", "get", "invert", "set", "peek"}]
          /\ desc \in [Task -> Led \cup {"button", NULL}] /\ val \in [Task -> {0, 1}]
          /\ old \subseteq Files /\ reused \in BOOLEAN /\ stray \in BOOLEAN

\* A probe that fails, wherever and with whichever of the three lines, and a
\* remove leave no line requested and nothing registered.
NothingLeft == core = "unbound" => held = {}

\* A handler does not touch a line the driver has given back, unless its file
\* has outlived the device: the device goes live after the lines were got and
\* is taken down before they are put (gpio_driver.c:217-232).
NoReleasedLine ==
    \A t \in Task \ old : /\ pc[t] \in {"set", "get", "peek"} => desc[t] \in held
                          /\ pc[t] = "invert" => led_gpio \in held

\* "Turn off LED before removing" (gpio_driver.c:226): a line the driver does
\* not have is dark, whatever writers were doing during remove, unless a file
\* that outlived the device has lit it, or a probe failed after a writer had:
\* err_gpio does not turn it off.
LitOnlyIfHeld == ~stray => \A l \in Led : level[l] = 1 => l \in held

\* While the device is live the references to gpio_cdev are those of the open
\* files and the driver's own, so that it can be opened, unless a probe has
\* initialised gpio_cdev under a file from before (gpio_driver.c:159): the close
\* of that file then takes a reference that is not its own.
RefsCounted == "cdev" \in held /\ ~reused => refs = Cardinality(Files) + 1
=============================================================================
