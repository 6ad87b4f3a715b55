---------------------------- MODULE MCPressTime ----------------------------
(* The two drivers that judge presses by jiffies, on one clock, one of     *)
(* them loaded.                                                            *)
EXTENDS Debounce

CONSTANTS LONG_PRESS, LATENCY
VARIABLES press_time, key_pressed, irq, pending, worker, read, entered, queued, running,
          loaded     \* "tiny_gpiobtn" or "app_workqueue"

W == INSTANCE WorkqPress WITH since <- entered
ASSUME LatencyAssumption == W!TimeAssumption

workq == <<press_time, key_pressed, irq, pending, worker, read, entered, queued, running>>
gpiobtn == <<boot, last_press, counting, pc, now, age, history>>

MCInit == Init /\ W!Init /\ loaded \in {"tiny_gpiobtn", "app_workqueue"}
MCNext == \/ loaded = "tiny_gpiobtn" /\ Next /\ UNCHANGED <<loaded, workq>>
          \/ loaded = "app_workqueue" /\ W!Next /\ UNCHANGED <<loaded, gpiobtn>>
MCSpec == MCInit /\ [][MCNext]_<<loaded, vars, workq>>

(* WorkqPress: LONG PRESS is reported only by a late worker.               *)
ReportsOnlyWhenLate == W!ReportsOnlyWhenLate
=============================================================================
