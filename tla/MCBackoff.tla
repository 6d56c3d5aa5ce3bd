------------------------------ MODULE MCBackoff ------------------------------
(* Answers within 60 microseconds, or after backoff has wrapped. *)
EXTENDS Backoff

MCDoneTimes == 0..60
Late == {100}
=============================================================================
