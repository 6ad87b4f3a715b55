---------------------------- MODULE MCTextDevice ----------------------------
EXTENDS TextDevice, TextTables, FiniteSets, TLC

Texts == {"ledon", "ledoff", "toggle"}
MCLength == [x \in Texts |-> IF x = "ledon" THEN 1 ELSE 2]
MCCommand == <<"ledon", "ledoff", "toggle">>
\* Of the drivers with the same features, one.
MCDevices == [d \in DOMAIN Devices \ {"CharDriver", "MultiDev", "OwnWorkqueue"} |-> Devices[d]]
\* Three users meet in 014 only; elsewhere two are enough to disturb each other.
Crowd == dev = "Waitq" \/ Cardinality({t \in Task : pc[t] # "user" \/ off[t] # 0}) <= 2
Symmetry == Permutations(Task)
=============================================================================
