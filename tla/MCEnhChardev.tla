---------------------------- MODULE MCEnhChardev ----------------------------
(* Two tasks on a ring of two slots, with a payload that fits, and one that  *)
(* is cut to the slot.                                                       *)
EXTENDS EnhChardev, TLC
CONSTANTS t1, t2, m1, m2

MCLength == m1 :> 1 @@ m2 :> 3
=============================================================================
