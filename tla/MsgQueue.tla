------------------------------- MODULE MsgQueue -------------------------------
(***************************************************************************)
(* What the message device promises its callers: a bounded first-in        *)
(* first-out queue whose calls take effect at one instant between their    *)
(* invocation and their return.  It says nothing of a mutex, of slots or   *)
(* of indices; EnhChardev implements it.                                   *)
(*                                                                         *)
(* The device promises less than a user may expect, and the abstraction    *)
(* says so: a successful Get removes the oldest message but may hand out   *)
(* any part of it, down to no byte at all.                                 *)
(***************************************************************************)
EXTENDS Naturals, Sequences

CONSTANTS Task,      \* the threads that call read() and write()
          Msg,       \* the messages they write
          Capacity,  \* how many messages the queue holds
          Size(_)    \* the bytes of a message

VARIABLES queue,     \* the messages accepted and not yet removed, oldest first
          call,      \* what each task has asked for and has not had answered
          answer,    \* the answer to each task's last call, until it calls again
          broken     \* the promise no longer binds

vars == <<queue, call, answer, broken>>

NoCall == [op |-> "none"]
GetCall == [op |-> "get"]
PutCall(m) == [op |-> "put", msg |-> m]
Pieces(m) == {"read"} \X {m} \X (0 .. Size(m)) \X (0 .. Size(m))

Init == /\ queue = <<>>
        /\ call = [t \in Task |-> NoCall]
        /\ answer = [t \in Task |-> <<"none">>]
        /\ broken = FALSE

Invoke(t) == /\ call[t] = NoCall
             /\ \/ call' = [call EXCEPT ![t] = GetCall]
                \/ \E m \in Msg : call' = [call EXCEPT ![t] = PutCall(m)]
             /\ answer' = [answer EXCEPT ![t] = <<"none">>]
             /\ UNCHANGED <<queue, broken>>

\* A task that is done with the device forgets its last answer.
Leave(t) == /\ call[t] = NoCall
            /\ answer' = [answer EXCEPT ![t] = <<"none">>]
            /\ UNCHANGED <<queue, call, broken>>

Reply(t, r) == /\ call' = [call EXCEPT ![t] = NoCall]
               /\ answer' = [answer EXCEPT ![t] = r]
               /\ UNCHANGED broken

Put(t) == \E m \in Msg :
            /\ call[t] = PutCall(m)
            /\ Len(queue) < Capacity
            /\ queue' = Append(queue, m)
            /\ Reply(t, <<"stored">>)

\* Refused for want of room, or because the caller's memory cannot be read.
PutFails(t) == /\ call[t].op = "put"
               /\ \/ Len(queue) = Capacity /\ Reply(t, <<"full">>)
                  \/ Reply(t, <<"fault">>)
               /\ UNCHANGED queue

Get(t) == /\ call[t] = GetCall
          /\ queue # <<>>
          /\ queue' = Tail(queue)
          /\ \E r \in Pieces(Head(queue)) \cup {<<"fault">>} : Reply(t, r)

GetNothing(t) == /\ call[t] = GetCall
                 /\ queue = <<>>
                 /\ Reply(t, <<"empty">>)
                 /\ UNCHANGED queue

\* The module is reloaded while nobody is inside it: what was queued is gone.
Reload == /\ \A t \in Task : call[t] = NoCall
          /\ queue' = <<>>
          /\ UNCHANGED <<call, answer>>
          /\ broken' = FALSE

Break == broken' = TRUE

Next == \/ Break \/ Reload
        \/ /\ ~broken
           /\ \E t \in Task : \/ Invoke(t) \/ Leave(t) \/ Put(t)
                              \/ PutFails(t) \/ Get(t) \/ GetNothing(t)

Spec == Init /\ [][Next]_vars
=============================================================================
