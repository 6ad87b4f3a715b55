------------------------------- MODULE Mailbox -------------------------------
(***************************************************************************)
(* What the keyboard driver promises: a mailbox of one message.  A key is  *)
(* latched, posted once and then forgotten.  A read takes the message that *)
(* is in the box at one moment of the call; its position and its result    *)
(* are the length of what the box holds later on, which need not be the    *)
(* same message.  There are no CPUs, no tasklet, no lock and no halves.    *)
(***************************************************************************)
EXTENDS Integers

CONSTANTS Reader, Key, Kind, None,
          Length,   \* the bytes of a message of each kind
          EFAULT

VARIABLES latched,  \* the key of the batch that is open
          posted,   \* whether its message is in the box already
          box,
          at,       \* where each reader is in its call
          pos,      \* its position in the file
          got,      \* the bytes its last call took
          told      \* what that call returned

mail == <<latched, posted, box>>
vars == <<mail, at, pos, got, told>>

Init == /\ latched = None /\ posted = FALSE /\ box = None
        /\ at = [r \in Reader |-> "idle"] /\ pos = [r \in Reader |-> 0]
        /\ got = [r \in Reader |-> None] /\ told = [r \in Reader |-> 0]

Press(k) == /\ latched = None
            /\ latched' = k
            /\ UNCHANGED <<posted, box, at, pos, got, told>>

Post(kind) == /\ latched # None /\ ~posted
              /\ box' = [kind |-> kind, key |-> latched]
              /\ posted' = TRUE
              /\ UNCHANGED <<latched, at, pos, got, told>>

Forget == /\ posted
          /\ latched' = None /\ posted' = FALSE
          /\ UNCHANGED <<box, at, pos, got, told>>

Open(r) == /\ at[r] = "idle"
           /\ pos' = [pos EXCEPT ![r] = 0]
           /\ UNCHANGED <<mail, at, got, told>>

\* Past the start of the file there is nothing to take.
Call(r) == /\ at[r] = "idle"
           /\ at' = [at EXCEPT ![r] = IF pos[r] > 0 THEN "idle" ELSE "take"]
           /\ got' = [got EXCEPT ![r] = None] /\ told' = [told EXCEPT ![r] = 0]
           /\ UNCHANGED <<mail, pos>>

Take(r) == /\ at[r] = "take"
           /\ at' = [at EXCEPT ![r] = "offset"]
           /\ got' = [got EXCEPT ![r] = box]
           /\ UNCHANGED <<mail, pos, told>>

Fail(r) == /\ at[r] = "take" /\ box # None
           /\ at' = [at EXCEPT ![r] = "idle"]
           /\ told' = [told EXCEPT ![r] = -EFAULT]
           /\ UNCHANGED <<mail, pos, got>>

Size == IF box = None THEN 0 ELSE Length[box.kind]

Advance(r) == /\ at[r] = "offset"
              /\ at' = [at EXCEPT ![r] = "return"]
              /\ pos' = [pos EXCEPT ![r] = Size]
              /\ UNCHANGED <<mail, got, told>>

Return(r) == /\ at[r] = "return"
             /\ at' = [at EXCEPT ![r] = "idle"]
             /\ told' = [told EXCEPT ![r] = Size]
             /\ UNCHANGED <<mail, pos, got>>

Next == \/ \E k \in Key : Press(k)
        \/ \E kind \in Kind : Post(kind)
        \/ Forget
        \/ \E r \in Reader : \/ Open(r) \/ Call(r) \/ Take(r)
                             \/ Fail(r) \/ Advance(r) \/ Return(r)

Spec == Init /\ [][Next]_vars
=============================================================================
