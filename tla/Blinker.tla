------------------------------- MODULE Blinker -------------------------------
(***************************************************************************)
(* What the owner of the LED sees of the blinking driver: bound, the LED   *)
(* alternates; asleep, it is dark and remembers where it was; woken, it    *)
(* goes on from there; unbound, it is dark.  BlinkLedPm implements it.     *)
(***************************************************************************)
EXTENDS Naturals

VARIABLES mode,  \* "off", "on" or "asleep"
          led,   \* what the pin shows
          last   \* what it showed, or would have shown, when put to sleep

vars == <<mode, led, last>>

Init == mode = "off" /\ led = 0 /\ last = 0

Start == mode = "off" /\ mode' = "on" /\ led' = 0 /\ last' = 0
Toggle == mode = "on" /\ led' = 1 - led /\ last' = 1 - led /\ UNCHANGED mode
Sleep == mode = "on" /\ mode' = "asleep" /\ led' = 0 /\ UNCHANGED last
Wake == mode = "asleep" /\ mode' = "on" /\ led' = last /\ UNCHANGED last
Stop == mode = "on" /\ mode' = "off" /\ led' = 0 /\ last' = 0

Next == Start \/ Toggle \/ Sleep \/ Wake \/ Stop
Spec == Init /\ [][Next]_vars
=============================================================================
