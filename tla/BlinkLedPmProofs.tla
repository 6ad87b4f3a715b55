-------------------------- MODULE BlinkLedPmProofs --------------------------
(***************************************************************************)
(* Theorems about the blinking driver, for every delay: nothing runs and   *)
(* nothing shines once suspend or remove has returned, and the driver      *)
(* implements the blinker.                                                 *)
(*                                                                         *)
(* Neither fact is inductive.  What makes them so says where callback and  *)
(* driver core can be at the same time (Apart) and when the pin shows      *)
(* led_state (Truthful).                                                   *)
(***************************************************************************)
EXTENDS BlinkLedPm, TLAPS

\* The timer is dead from del_timer_sync on, until it is armed again; while it
\* lives there is at most one of a pending expiry and a running callback.
Apart == /\ core \in {"s_dark", "suspended", "r_led", "r_arm", "m_dark", "unbound"} => Quiet
         /\ cb # "idle" => timer = Off

\* The pin shows led_state but for the callback's step between the two, and for
\* the time from going dark to the resume.
Truthful == /\ core \notin {"suspended", "r_led", "unbound"} /\ cb # "drive" => led = led_state
            /\ cb = "drive" => led = 1 - led_state
            /\ core \in {"suspended", "r_led", "unbound"} => led = 0

IInv == TypeOK /\ Apart /\ Truthful

LEMMA InitIInv == Init => IInv
BY DelayAssumption DEF Init, IInv, TypeOK, Apart, Truthful, Quiet

LEMMA StepIInv == IInv /\ [Next]_vars => IInv'
<1> SUFFICES ASSUME IInv, [Next]_vars PROVE IInv'
  OBVIOUS
<1> USE DelayAssumption DEF IInv, TypeOK, Apart, Truthful, Quiet
<1>1. CASE Tick
  BY <1>1 DEF Tick
<1>2. CASE Expire
  BY <1>2 DEF Expire
<1>3. CASE Test
  BY <1>3 DEF Test
<1>4. CASE Toggle
  BY <1>4 DEF Toggle
<1>5. CASE DriveLed
  BY <1>5 DEF DriveLed, Drive
<1>6. CASE Rearm
  BY <1>6 DEF Rearm
<1>7. CASE Probe
  BY <1>7 DEF Probe
<1>8. CASE SuspendFlag \/ RemoveBegin
  BY <1>8 DEF SuspendFlag, RemoveBegin
<1>9. CASE SuspendStop \/ RemoveStop
  BY <1>9 DEF SuspendStop, RemoveStop, DeleteTimerSync
<1>10. CASE SuspendDark \/ RemoveDark
  BY <1>10 DEF SuspendDark, RemoveDark, Drive
<1>11. CASE ResumeFlag
  BY <1>11 DEF ResumeFlag
<1>12. CASE ResumeLed
  BY <1>12 DEF ResumeLed, Drive
<1>13. CASE ResumeArm
  BY <1>13 DEF ResumeArm
<1>14. CASE UNCHANGED vars
  BY <1>14 DEF vars
<1> QED BY <1>1, <1>2, <1>3, <1>4, <1>5, <1>6, <1>7, <1>8, <1>9, <1>10, <1>11, <1>12,
           <1>13, <1>14 DEF Next, Callback, Suspending, Resuming, Removing

LEMMA Invariant == Spec => []IInv
BY InitIInv, StepIInv, PTL DEF Spec

(* Every variable keeps its type, for every delay.                         *)
THEOREM TypeCorrect == Spec => []TypeOK
<1>1. IInv => TypeOK
  BY DEF IInv
<1> QED
  BY <1>1, Invariant, PTL

\* QuietAndDark of the run, for every delay: del_timer_sync leaves no callback
\* behind, however it interleaves with suspend and remove.
THEOREM StaysQuietAndDark == Spec => []QuietAndDark
<1>1. IInv => QuietAndDark
  BY DEF IInv, Apart, Truthful, QuietAndDark
<1> QED BY <1>1, Invariant, PTL
-----------------------------------------------------------------------------
LEMMA InitRefines == Init => B!Init
BY DEF Init, B!Init, Asleep

\* The callback's drive is the blinker's toggle, going dark its sleep or stop;
\* arming, testing and waiting are stutters.
LEMMA StepRefines == IInv /\ [Next]_vars => [B!Next]_(B!vars)
<1> SUFFICES ASSUME IInv, [Next]_vars PROVE [B!Next]_(B!vars)
  OBVIOUS
<1> USE DelayAssumption DEF IInv, TypeOK, Apart, Truthful, Quiet, Asleep
<1>1. CASE Tick \/ Expire \/ Test \/ Toggle \/ Rearm \/ UNCHANGED vars
  BY <1>1 DEF Tick, Expire, Test, Toggle, Rearm, vars, B!vars
<1>2. CASE DriveLed
  <2>1. B!Toggle
    BY <1>2 DEF DriveLed, Drive, B!Toggle
  <2> QED BY <2>1 DEF B!Next
<1>3. CASE Probe
  <2>1. B!Start
    BY <1>3 DEF Probe, B!Start
  <2> QED BY <2>1 DEF B!Next
<1>4. CASE SuspendFlag \/ SuspendStop \/ ResumeFlag \/ ResumeArm \/ RemoveBegin \/ RemoveStop
  BY <1>4 DEF SuspendFlag, SuspendStop, ResumeFlag, ResumeArm, RemoveBegin, RemoveStop,
              DeleteTimerSync, B!vars
<1>5. CASE SuspendDark
  <2>1. B!Sleep
    BY <1>5 DEF SuspendDark, Drive, B!Sleep
  <2> QED BY <2>1 DEF B!Next
<1>6. CASE ResumeLed
  <2>1. B!Wake
    BY <1>6 DEF ResumeLed, Drive, B!Wake
  <2> QED BY <2>1 DEF B!Next
<1>7. CASE RemoveDark
  <2>1. B!Stop
    BY <1>7 DEF RemoveDark, Drive, B!Stop
  <2> QED BY <2>1 DEF B!Next
<1> QED BY <1>1, <1>2, <1>3, <1>4, <1>5, <1>6, <1>7
        DEF Next, Callback, Suspending, Resuming, Removing

\* The driver implements the blinker, for every delay: no interleaving of the
\* timer callback with suspend, resume and remove makes the LED do anything
\* but alternate, go dark and come back as it was.
THEOREM ImplementsBlinker == Spec => BlinkerSpec
BY InitRefines, StepRefines, Invariant, PTL DEF Spec, BlinkerSpec, B!Spec
=============================================================================
