----------------------------- MODULE TextTables -----------------------------
(***************************************************************************)
(* The drivers of TextDevice, each as the features of its read and write.  *)
(***************************************************************************)
ProcWriter   == {}                                        \* 008
CharDriver   == {}                                        \* 009
IoctlDriver  == {"write lock", "counts"}                  \* 011
Autodev      == {"greets"}                                \* 012
MultiDev     == {}                                        \* 013, each of its devices
Waitq        == {"write lock", "read lock", "waits", "blind"}   \* 014
Platform     == {"greets", "length"}                      \* 17
Mydt         == {"greets", "status"}                      \* 18, a device it made itself
MydtLed      == Mydt \cup {"led"}                         \* 18, a device-tree node
OwnWorkqueue == {}                                        \* own_work_queue/qw.c

Devices == [ProcWriter |-> ProcWriter, CharDriver |-> CharDriver, IoctlDriver |-> IoctlDriver,
            Autodev |-> Autodev, MultiDev |-> MultiDev, Waitq |-> Waitq, Platform |-> Platform,
            Mydt |-> Mydt, MydtLed |-> MydtLed, OwnWorkqueue |-> OwnWorkqueue]
=============================================================================
