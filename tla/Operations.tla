----------------------------- MODULE Operations -----------------------------
(***************************************************************************)
(* What a stream relies on from the I/O engine (the IoEngine trait of      *)
(* crates/envoy-files-io/src/lib.rs): an operation submitted to a running  *)
(* engine calls back at most once, in any order with the others; one that  *)
(* is stopped calls back no more.                                          *)
(***************************************************************************)
CONSTANTS Ops,     \* the operations, each submitted at most once
          Nothing  \* no operation

VARIABLES
    submitted,  \* operations submitted so far
    pending,    \* operations that have not called back and still can
    answered,   \* the operation that called back last
    open        \* the engine has not stopped

vars == <<submitted, pending, answered, open>>

Init ==
    /\ submitted = {}
    /\ pending = {}
    /\ answered = Nothing
    /\ open = TRUE

Submit(op) ==
    /\ op \notin submitted
    /\ submitted' = submitted \cup {op}
    /\ pending' = IF open THEN pending \cup {op} ELSE pending
    /\ UNCHANGED <<answered, open>>

Complete(op) ==
    /\ op \in pending
    /\ pending' = pending \ {op}
    /\ answered' = op
    /\ UNCHANGED <<submitted, open>>

\* The callbacks of what is pending are dropped without being called.
Stop ==
    /\ open
    /\ open' = FALSE
    /\ pending' = {}
    /\ UNCHANGED <<submitted, answered>>

Next == Stop \/ \E op \in Ops : Submit(op) \/ Complete(op)

Spec == Init /\ [][Next]_vars
=============================================================================
