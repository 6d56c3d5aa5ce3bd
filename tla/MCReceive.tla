------------------------------ MODULE MCReceive ------------------------------
(* A second of four ticks, a timeout of one, and ints of three bits. *)
EXTENDS TimedReceive

MCIntMin == -4
=============================================================================
