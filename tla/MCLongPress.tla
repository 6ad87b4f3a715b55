---------------------------- MODULE MCLongPress ----------------------------
(* The long-press alert, under names that no other driver's module has.    *)
CONSTANTS long_press_ms, LATENCY
VARIABLES phase, pressed, held, runthread, thread, left, lag, answered, repressed

L == INSTANCE LongPress
ASSUME LongPressAssumption == L!TimeAssumption

LongPressSpec == L!FairSpec

(* LongPress: no hold past the threshold and the thread's delays is missed. *)
LongHoldAnswered == L!LongHoldAnswered
(* LongPress: an early alert is of a key released and pressed again.       *)
EarlyOnlyWhenRepressed == L!EarlyOnlyWhenRepressed
(* LongPress: free_irq comes to an end, even while the key is held.        *)
UnloadEnds == L!UnloadEnds
=============================================================================
