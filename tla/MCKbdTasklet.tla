---------------------------- MODULE MCKbdTasklet ----------------------------
(* The keyboard interrupts two CPUs.  A reader has a CPU of its own in the   *)
(* passing run and shares one with the keyboard in the polling one.          *)
EXTENDS KbdTasklet, TLC
CONSTANTS c1, c2, c3, r1, k1, k2

Apart == r1 :> c3
Shared == r1 :> c1
=============================================================================
