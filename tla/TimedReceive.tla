----------------------------- MODULE TimedReceive -----------------------------
(* The receive loop of service_worker (src/server/server.c) on the clock,    *)
(* and the numbers that prepare_request (src/api/api.c) gives to requests.   *)
(* registry_handler has the same loop with a longer timeout.                 *)
(*                                                                           *)
(* An operator X_y is X with the plausible mistake y; no action uses it.     *)
EXTENDS Integers, Sequences, TLAPS

CONSTANTS
  PER_SEC,    \* clock ticks in a second
  TIMEOUT,    \* ticks that the loop adds to tv_nsec
  INT_MIN,    \* of request_id, an int
  MqMaxMsg,   \* attr.mq_maxmsg of the send queue
  Requests,   \* how many requests the client makes
  Resizes     \* how often it resizes

ASSUME ReceiveAssumption ==
  /\ PER_SEC \in Nat /\ TIMEOUT \in 1..(PER_SEC - 1)
  /\ INT_MIN \in Int /\ INT_MIN < 0
  /\ MqMaxMsg \in Nat \ {0} /\ Requests \in Nat /\ Resizes \in Nat

INT_MAX == -INT_MIN - 1

VARIABLES
  tv_nsec,     \* the clock: ticks since the second began
  pc, ts,      \* of the worker: where it is, and tv_nsec of its deadline
  waited,      \* history: ticks since it read the clock
  global_request_id, requests, resizes,  \* of the client
  queue,       \* the send queue: request_id, and what it was sent for
  received,    \* history: how many messages were received
  last         \* history: the last message and what it was taken for

client_vars == <<global_request_id, requests, resizes>>
vars == <<tv_nsec, pc, ts, waited, client_vars, queue, received, last>>

Init ==
  /\ tv_nsec \in 0..(PER_SEC - 1)
  /\ pc = "clock" /\ ts = 0 /\ waited = 0
  /\ global_request_id = 0 /\ requests = 0 /\ resizes = 0
  /\ queue = << >>
  /\ received = 0 /\ last = [sent |-> "request", taken |-> "request"]

(* Time passes. *)
Tick ==
  /\ tv_nsec' = (tv_nsec + 1) % PER_SEC
  /\ waited' = IF waited < TIMEOUT THEN waited + 1 ELSE waited
  /\ UNCHANGED <<pc, ts, client_vars, queue, received, last>>

(* global_request_id++, as it is compiled. *)
Incremented(id) == IF id = INT_MAX THEN INT_MIN ELSE id + 1

(* prepare_request, and the mq_send of the client's worker. *)
SendRequest ==
  /\ requests < Requests /\ Len(queue) < MqMaxMsg
  /\ queue' = Append(queue, [request_id |-> global_request_id, sent |-> "request"])
  /\ global_request_id' = Incremented(global_request_id)
  /\ requests' = requests + 1
  /\ UNCHANGED <<tv_nsec, pc, ts, waited, resizes, received, last>>

(* The client's resize_shm sends -1 with the highest priority. *)
SendResize ==
  /\ resizes < Resizes /\ Len(queue) < MqMaxMsg
  /\ queue' = <<[request_id |-> -1, sent |-> "resize"]>> \o queue
  /\ resizes' = resizes + 1
  /\ UNCHANGED <<tv_nsec, pc, ts, waited, global_request_id, requests, received, last>>

(* ts.tv_nsec += 1000000; ts.tv_sec = 0 *)
Deadline_second(t) == t + PER_SEC
Deadline(t) == t + TIMEOUT

ReadClock ==
  /\ pc = "clock" /\ pc' = "receive"
  /\ ts' = Deadline(tv_nsec) /\ waited' = 0
  /\ UNCHANGED <<tv_nsec, client_vars, queue, received, last>>

(* mq_timedreceive refuses a deadline whose tv_nsec is a second or more; it  *)
(* does not wait at all for one in 1970.                                     *)
Invalid(t) == t >= PER_SEC

ReceiveNothing ==
  /\ pc = "receive" /\ pc' = "clock"
  /\ Invalid(ts) \/ queue = << >>
  /\ UNCHANGED <<tv_nsec, ts, waited, client_vars, queue, received, last>>

(* What the worker takes a message for. *)
IsResize_negative(id) == id < 0
IsResize(id) == id = -1

Receive ==
  /\ pc = "receive" /\ pc' = "clock"
  /\ ~Invalid(ts) /\ queue # << >>
  /\ LET m == Head(queue) IN
       last' = [sent  |-> m.sent,
                taken |-> IF IsResize(m.request_id) THEN "resize" ELSE "request"]
  /\ queue' = Tail(queue)
  /\ received' = received + 1
  /\ UNCHANGED <<tv_nsec, ts, waited, client_vars>>

Worker == ReadClock \/ ReceiveNothing \/ Receive
Next == Tick \/ SendRequest \/ SendResize \/ Worker

Spec == Init /\ [][Next]_vars

(* The part of the second in which a deadline read from the clock is valid.  *)
InTime == ~Invalid(Deadline(tv_nsec))

(* The scheduler lets the worker run, and not only in the last TIMEOUT ticks *)
(* of every second: no step of the loop falls there every time.              *)
FairSpec ==
  /\ Spec
  /\ WF_vars(Tick) /\ WF_vars(Worker)
  /\ SF_vars(ReadClock /\ InTime) /\ SF_vars(ReceiveNothing /\ InTime)

-----------------------------------------------------------------------------
(* Every message that was sent is received, although mq_timedreceive fails   *)
(* for a part of every second.                                               *)
AllReceived ==
  \A n \in 1..(Requests + Resizes) : requests + resizes >= n ~> received >= n

(* service_worker's "Resize shm request from client": a message is taken for *)
(* a resize if and only if the client resizes.                               *)
TakenAsSent == last.taken = last.sent

(* service_worker's "1 ms timeout to get request": a receive that gets no    *)
(* message has waited that long.                                             *)
WaitsForTimeout == [][pc = "receive" /\ pc' = "clock" /\ queue' = queue => waited = TIMEOUT]_vars

-----------------------------------------------------------------------------
(* TakenAsSent for any number of requests short of 2^32. *)

(* The request numbered n, from 0, as an int; the requests and the number of *)
(* the next one; the queue holds -1 for a resize and no request's -1.        *)
Id(n) == IF n <= INT_MAX THEN n ELSE n + 2 * INT_MIN
Messages == [request_id : Int, sent : {"request", "resize"}]
QueueOK ==
  /\ queue \in Seq(Messages)
  /\ \A i \in 1..Len(queue) : queue[i].sent = "resize" <=> queue[i].request_id = -1
NumberOK == requests \in 0..Requests /\ global_request_id = Id(requests)
IInv == NumberOK /\ QueueOK /\ TakenAsSent

(* prepare_request's global_request_id++ gives the next number, and reaches  *)
(* -1 after 2^32 - 1 requests and not before.                                *)
LEMMA NextId ==
  ASSUME Requests <= INT_MAX - INT_MIN, NEW n \in 0..(Requests - 1)
  PROVE  Id(n) \in Int /\ Id(n) # -1 /\ Id(n + 1) = Incremented(Id(n))
  BY ReceiveAssumption, SMT DEF Id, Incremented, INT_MAX

(* resize_shm's -1 in front of the queue, and a request's number behind it.  *)
LEMMA SentOK ==
  ASSUME IInv, Requests <= INT_MAX - INT_MIN, SendRequest \/ SendResize
  PROVE  IInv'
<1>1. CASE SendRequest
  <2>1. requests \in 0..(Requests - 1) /\ global_request_id = Id(requests)
    BY <1>1, ReceiveAssumption DEF IInv, NumberOK, SendRequest
  <2>2. /\ Id(requests) \in Int /\ Id(requests) # -1
        /\ Id(requests + 1) = Incremented(Id(requests))
    BY <2>1, NextId
  <2>3. requests' \in 0..Requests /\ global_request_id' = Id(requests')
    BY <2>1, <2>2, <1>1, ReceiveAssumption, SMT DEF SendRequest
  <2>4. NumberOK'
    BY <2>3 DEF NumberOK
  <2> DEFINE m == [request_id |-> Id(requests), sent |-> "request"]
  <2>5. queue \in Seq(Messages) /\ m \in Messages /\ queue' = Append(queue, m)
    BY <2>1, <2>2, <1>1 DEF SendRequest, IInv, QueueOK, Messages
  <2>6. QueueOK'
    BY <2>2, <2>5 DEF IInv, QueueOK
  <2> QED BY <2>4, <2>6, <1>1 DEF SendRequest, IInv, TakenAsSent
<1>2. CASE SendResize
  <2> DEFINE m == [request_id |-> -1, sent |-> "resize"]
  <2>1. queue \in Seq(Messages) /\ m \in Messages /\ queue' = <<m>> \o queue
    BY <1>2 DEF SendResize, IInv, QueueOK, Messages
  <2>2. /\ queue' \in Seq(Messages) /\ Len(queue') = Len(queue) + 1
        /\ \A i \in 1..Len(queue') : queue'[i] = IF i = 1 THEN m ELSE queue[i - 1]
    <3> HIDE DEF m
    <3> QED BY <2>1
  <2>3. QueueOK'
    BY <2>1, <2>2 DEF IInv, QueueOK
  <2> QED BY <2>3, <1>2 DEF SendResize, IInv, NumberOK, TakenAsSent
<1> QED BY <1>1, <1>2

(* service_worker takes each message for what it was sent for. *)
LEMMA ReceivedOK ==
  ASSUME IInv, Receive
  PROVE  IInv'
<1>1. queue \in Seq(Messages) /\ queue # << >> /\ Len(queue) \in Nat
  BY DEF IInv, QueueOK, Receive
<1>2. /\ Head(queue) \in Messages
      /\ Head(queue).sent = "resize" <=> Head(queue).request_id = -1
  BY <1>1 DEF IInv, QueueOK
<1>3. TakenAsSent'
  BY <1>2 DEF Receive, TakenAsSent, IsResize, Messages
<1>4. QueueOK'
  BY <1>1 DEF Receive, IInv, QueueOK
<1> QED BY <1>3, <1>4 DEF Receive, IInv, NumberOK, client_vars

(* For any queue, any clock and any number of resizes, and for every int: a  *)
(* client that makes fewer than 2^32 requests, of numbers 0, 1, ... INT_MAX, *)
(* INT_MIN, ... -2, has none of them taken for a resize, and no resize taken *)
(* for a request.                                                            *)
THEOREM Unmistaken ==
  ASSUME Requests <= INT_MAX - INT_MIN
  PROVE  Spec => []TakenAsSent
<1>1. Init => IInv
  BY ReceiveAssumption DEF Init, IInv, NumberOK, QueueOK, TakenAsSent, Id, INT_MAX, Messages
<1>2. IInv /\ [Next]_vars => IInv'
  <2> SUFFICES ASSUME IInv, [Next]_vars PROVE IInv'
    OBVIOUS
  <2>1. CASE Tick \/ ReadClock \/ ReceiveNothing \/ UNCHANGED vars
    BY <2>1 DEF Tick, ReadClock, ReceiveNothing, vars, client_vars, IInv, NumberOK, QueueOK,
      TakenAsSent
  <2> QED BY <2>1, SentOK, ReceivedOK DEF Next, Worker
<1>3. IInv => TakenAsSent
  BY DEF IInv
<1> QED BY <1>1, <1>2, <1>3, PTL DEF Spec
=============================================================================
