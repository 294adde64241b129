----------------------------- MODULE MCHarness ------------------------------
(* Values for the constants of Harness in TLC's runs. *)
EXTENDS Harness, TLC

CONSTANTS First, Second, Shared, Private, Bench

(* Two tests that share a static server; and two with servers of their own, one
   of which is stopped with SIGKILL. *)
HarnessSuites == {First :> Shared @@ Second :> Shared, First :> Bench @@ Second :> Private}
=============================================================================
