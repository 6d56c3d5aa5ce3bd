-------------------------------- MODULE Backoff --------------------------------
(* How recv_response (src/api/api.c) waits for an answer: it polls, and      *)
(* doubles the time it sleeps between two polls.                             *)
(*                                                                           *)
(* An operator X_y is X with the plausible mistake y; no action uses it.     *)
EXTENDS Integers, TLAPS

CONSTANTS
  UINT_MAX,   \* of backoff, an unsigned int
  DoneTimes,  \* how long the server may take, in microseconds
  Cost        \* how long a poll takes

ASSUME BackoffAssumption ==
  /\ UINT_MAX \in Nat /\ UINT_MAX > 1
  /\ DoneTimes \subseteq Nat
  /\ Cost \in Nat

VARIABLES
  pc,        \* "poll", "sleep" or "returned"
  backoff,
  now,       \* time since recv_response was called
  done_at    \* when the server sets done

vars == <<pc, backoff, now, done_at>>

Init ==
  /\ pc = "poll" /\ backoff = 1 /\ now = 0
  /\ done_at \in DoneTimes

(* is_request_done *)
Poll ==
  /\ pc = "poll"
  /\ pc' = IF done_at <= now THEN "returned" ELSE "sleep"
  /\ now' = now + Cost
  /\ UNCHANGED <<backoff, done_at>>

Doubled_twice(b) == (4 * b) % (UINT_MAX + 1)
Doubled(b) == (2 * b) % (UINT_MAX + 1)

(* backoff *= 2; usleep(backoff) *)
Sleep ==
  /\ pc = "sleep" /\ pc' = "poll"
  /\ backoff' = Doubled(backoff)
  /\ now' = now + backoff'
  /\ UNCHANGED done_at

Returned == pc = "returned" /\ UNCHANGED vars

Next == Poll \/ Sleep \/ Returned

Spec == Init /\ [][Next]_vars
FairSpec == Spec /\ WF_vars(Poll \/ Sleep)

-----------------------------------------------------------------------------
(* Polling ever more rarely costs a caller at most as much again as the      *)
(* server took, and the time of three polls.                                 *)
AtMostDoubles == pc = "returned" => now <= 2 * done_at + 3 * Cost

(* The comment of recv_response, "Implemented using Exponential Backoff":    *)
(* the time between two polls grows as long as there is no answer.           *)
BacksOff == [][backoff' >= backoff]_vars

-----------------------------------------------------------------------------
(* What makes AtMostDoubles inductive: the caller has slept about as long    *)
(* already as it is going to sleep next, wrapped or not.                     *)
BackoffInv ==
  /\ pc \in {"poll", "sleep", "returned"}
  /\ backoff \in Nat /\ now \in Nat /\ done_at \in Nat
  /\ 2 * backoff <= now + 2
  /\ pc = "sleep" => now < done_at + Cost
  /\ pc = "poll" => now <= 2 * done_at + 2 * Cost
  /\ AtMostDoubles

(* Doubling gives at most twice the time, whether it wraps or not. *)
LEMMA DoubledBound ==
  ASSUME NEW b \in Nat
  PROVE  Doubled(b) \in Nat /\ Doubled(b) <= 2 * b
BY BackoffAssumption DEF Doubled

(* The invariant of recv_response's loop holds. *)
LEMMA BackoffInvariant == Spec => []BackoffInv
<1>1. Init => BackoffInv
  BY BackoffAssumption DEF Init, BackoffInv, AtMostDoubles
<1>2. BackoffInv /\ [Next]_vars => BackoffInv'
  <2> SUFFICES ASSUME BackoffInv, [Next]_vars PROVE BackoffInv'
    OBVIOUS
  <2>1. CASE Poll
    BY <2>1, BackoffAssumption DEF BackoffInv, Poll, AtMostDoubles
  <2>2. CASE Sleep
    <3>1. Doubled(backoff) \in Nat /\ Doubled(backoff) <= 2 * backoff
      BY DoubledBound DEF BackoffInv
    <3> QED
      BY <2>2, <3>1, BackoffAssumption DEF BackoffInv, Sleep, AtMostDoubles
  <2>3. CASE UNCHANGED vars
    BY <2>3 DEF BackoffInv, vars, AtMostDoubles
  <2> QED
    BY <2>1, <2>2, <2>3 DEF Next, Returned
<1> QED
  BY <1>1, <1>2, PTL DEF Spec

(* Waiting with exponential back-off at most doubles what a call takes, for  *)
(* every width of backoff, every time the server may need and every cost of  *)
(* a poll.                                                                   *)
THEOREM WaitingAtMostDoubles == Spec => []AtMostDoubles
<1>1. BackoffInv => AtMostDoubles
  BY DEF BackoffInv
<1> QED
  BY <1>1, BackoffInvariant, PTL
=============================================================================
