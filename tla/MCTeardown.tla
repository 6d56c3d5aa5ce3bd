------------------------------ MODULE MCTeardown ------------------------------
(* The end of a client with two requests and two service threads. *)
EXTENDS Teardown
=============================================================================
