------------------------------ MODULE BlinkLedPm ------------------------------
(***************************************************************************)
(* ALL_IN_1/027/blink_led_pm.c: a platform driver that blinks a LED from a *)
(* timer which re-arms itself, and stops it over a system suspend.         *)
(*                                                                         *)
(* Two actors share the private data without a lock: the driver core,      *)
(* which runs probe, suspend, resume and remove one at a time under the    *)
(* device lock, and the timer callback, a softirq that may be anywhere in  *)
(* its body while the core runs on another CPU.                            *)
(***************************************************************************)
EXTENDS Naturals

CONSTANTS BLINK_DELAY,  \* ticks from one toggle to the next
          Off           \* the timer is not pending

ASSUME DelayAssumption == BLINK_DELAY \in Nat \ {0} /\ Off \notin Nat

VARIABLES core,       \* the driver core's place: a state, or a step of a callback
          cb,         \* the timer callback's place
          timer,      \* ticks until blink_timer expires, or Off
          suspended, led_state,
          led         \* the level of the pin

vars == <<core, cb, timer, suspended, led_state, led>>

Init == /\ core = "unbound" /\ cb = "idle"
        /\ timer = Off /\ suspended = 0
        /\ led_state = 0 /\ led = 0

Tick == /\ timer # Off /\ timer > 0
        /\ timer' = timer - 1
        /\ UNCHANGED <<core, cb, suspended, led_state, led>>

\* gpiod_set_value
Drive(v) == led' = v
-----------------------------------------------------------------------------
(* blink_timer_cb                                                          *)

Expire == /\ timer = 0 /\ cb = "idle"
          /\ timer' = Off
          /\ cb' = "test"
          /\ UNCHANGED <<core, suspended, led_state, led>>

\* A callback that does not look at suspended.
TestNothing == /\ cb = "test"
               /\ cb' = "toggle"
               /\ UNCHANGED <<core, timer, suspended, led_state, led>>
Test == /\ cb = "test"
        /\ cb' = IF suspended = 1 THEN "idle" ELSE "toggle"
        /\ UNCHANGED <<core, timer, suspended, led_state, led>>

Toggle == /\ cb = "toggle"
          /\ led_state' = 1 - led_state
          /\ cb' = "drive"
          /\ UNCHANGED <<core, timer, suspended, led>>

DriveLed == /\ cb = "drive"
            /\ Drive(led_state)
            /\ cb' = "rearm"
            /\ UNCHANGED <<core, timer, suspended, led_state>>

Rearm == /\ cb = "rearm"
         /\ timer' = BLINK_DELAY
         /\ cb' = "idle"
         /\ UNCHANGED <<core, suspended, led_state, led>>

Callback == Test \/ Toggle \/ DriveLed \/ Rearm
-----------------------------------------------------------------------------
(* blinkled_probe; when an allocation fails nothing changes.               *)

Probe == /\ core = "unbound"
         /\ core' = "blinking"
         /\ led_state' = 0 /\ suspended' = 0 /\ led' = 0
         /\ timer' = BLINK_DELAY
         /\ UNCHANGED cb
-----------------------------------------------------------------------------
(* blinkled_suspend                                                        *)

SuspendFlag == /\ core = "blinking"
               /\ core' = "s_stop"
               /\ suspended' = 1
               /\ UNCHANGED <<cb, timer, led_state, led>>

\* del_timer, which does not wait for a callback under way.
DeleteTimer == timer' = Off
\* del_timer_sync
DeleteTimerSync == cb = "idle" /\ timer' = Off

SuspendStop == /\ core = "s_stop"
               /\ DeleteTimerSync
               /\ core' = "s_dark"
               /\ UNCHANGED <<cb, suspended, led_state, led>>

SuspendDark == /\ core = "s_dark"
               /\ Drive(0)
               /\ core' = "suspended"
               /\ UNCHANGED <<cb, timer, suspended, led_state>>
-----------------------------------------------------------------------------
(* blinkled_resume                                                         *)

\* A resume that forgets the flag.
ResumeKeepsFlag == /\ core = "suspended"
                   /\ core' = "r_led"
                   /\ UNCHANGED <<cb, timer, suspended, led_state, led>>
ResumeFlag == /\ core = "suspended"
              /\ core' = "r_led"
              /\ suspended' = 0
              /\ UNCHANGED <<cb, timer, led_state, led>>

\* A resume that starts with the LED on.
ResumeLit == /\ core = "r_led"
             /\ Drive(1)
             /\ core' = "r_arm"
             /\ UNCHANGED <<cb, timer, suspended, led_state>>
ResumeLed == /\ core = "r_led"
             /\ Drive(led_state)
             /\ core' = "r_arm"
             /\ UNCHANGED <<cb, timer, suspended, led_state>>

ResumeArm == /\ core = "r_arm"
             /\ timer' = BLINK_DELAY
             /\ core' = "blinking"
             /\ UNCHANGED <<cb, suspended, led_state, led>>
-----------------------------------------------------------------------------
(* blinkled_remove: the flag stays down, the callback may re-arm until     *)
(* del_timer_sync finds it between two runs.                               *)

RemoveBegin == /\ core = "blinking"
               /\ core' = "m_stop"
               /\ UNCHANGED <<cb, timer, suspended, led_state, led>>

RemoveStop == /\ core = "m_stop"
              /\ DeleteTimerSync
              /\ core' = "m_dark"
              /\ UNCHANGED <<cb, suspended, led_state, led>>

\* Afterwards the device resources, bdev among them, are released.
RemoveDark == /\ core = "m_dark"
              /\ Drive(0)
              /\ core' = "unbound"
              /\ UNCHANGED <<cb, timer, suspended, led_state>>

Suspending == SuspendStop \/ SuspendDark
Resuming == ResumeLed \/ ResumeArm
Removing == RemoveStop \/ RemoveDark
-----------------------------------------------------------------------------
Next == \/ Tick \/ Expire \/ Callback \/ Probe
        \/ SuspendFlag \/ Suspending \/ ResumeFlag \/ Resuming
        \/ RemoveBegin \/ Removing

Spec == Init /\ [][Next]_vars

\* Time passes, timers expire and callbacks finish; a callback of the driver
\* core that has begun goes on.  Only the retry loop of del_timer_sync in remove, which races
\* with a timer that keeps re-arming itself half a second ahead, needs more
\* than weak fairness.
FairSpec == /\ Spec
            /\ WF_vars(Tick) /\ WF_vars(Expire) /\ WF_vars(Callback)
            /\ WF_vars(Suspending) /\ WF_vars(Resuming) /\ SF_vars(Removing)
-----------------------------------------------------------------------------
TypeOK == /\ core \in {"unbound", "blinking", "s_stop", "s_dark", "suspended",
                       "r_led", "r_arm", "m_stop", "m_dark"}
          /\ cb \in {"idle", "test", "toggle", "drive", "rearm"}
          /\ timer \in 0 .. BLINK_DELAY \cup {Off} /\ suspended \in {0, 1}
          /\ led_state \in {0, 1} /\ led \in {0, 1}

Quiet == timer = Off /\ cb = "idle"

\* Once suspend or remove has returned, the LED is dark and no callback runs or
\* is due to run: not into a sleeping device, and not into freed memory, even
\* if it had passed its test of suspended (blink_led_pm.c:29) before the flag
\* was set (:46).
QuietAndDark == core \in {"suspended", "unbound"} => Quiet /\ led = 0

\* The driver implements the blinker: through the interleavings of callback and
\* driver core the LED only ever alternates, goes dark, and after a resume
\* shows what it showed before.
Asleep == core \in {"suspended", "r_led"}
B == INSTANCE Blinker WITH
       mode <- IF core = "unbound" THEN "off" ELSE IF Asleep THEN "asleep" ELSE "on",
       last <- IF core = "unbound" THEN 0 ELSE IF Asleep THEN led_state ELSE led
BlinkerSpec == B!Spec

\* A bound device that is awake never stops blinking, after resumes as well.
KeepsBlinking == \A v \in {0, 1} :
    core = "blinking" /\ led = v ~> core # "blinking" \/ led # v

\* suspend and remove return: del_timer_sync gets the better of a callback that
\* re-arms its own timer.
CallbacksReturn == /\ core = "s_stop" ~> core = "suspended"
                   /\ core = "m_stop" ~> core = "unbound"
=============================================================================
