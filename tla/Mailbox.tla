------------------------------ MODULE Mailbox -------------------------------
(* What Filter relies on from an EventBridge: a queue that producers append  *)
(* to, that the worker empties in one step, and that refuses every event     *)
(* after it is shut.                                                         *)
EXTENDS Integers, Sequences

CONSTANTS Producers, MaxSends

VARIABLES
    queue,     \* events put and not taken
    open,      \* the mailbox has not been shut
    taken,     \* events taken, in order
    refused    \* events put after the mailbox was shut

vars == <<queue, open, taken, refused>>

Events == [from : Producers, n : 1 .. MaxSends]

Init ==
    /\ queue = <<>>
    /\ open = TRUE
    /\ taken = <<>>
    /\ refused = {}

Put(event) ==
    /\ queue' = IF open THEN Append(queue, event) ELSE queue
    /\ refused' = IF open THEN refused ELSE refused \cup {event}
    /\ UNCHANGED <<open, taken>>

TakeAll ==
    /\ taken' = taken \o queue
    /\ queue' = <<>>
    /\ UNCHANGED <<open, refused>>

Shut ==
    /\ open' = FALSE
    /\ queue' = <<>>
    /\ UNCHANGED <<taken, refused>>

Next == (\E event \in Events : Put(event)) \/ TakeAll \/ Shut

Spec == Init /\ [][Next]_vars
=============================================================================
