------------------------- MODULE MCDriverLifecycle -------------------------
(* Every table of DriverTables on the machine of DriverLifecycle.          *)
EXTENDS LifecycleRules, DriverTables
=============================================================================
