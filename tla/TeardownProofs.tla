---------------------------- MODULE TeardownProofs ----------------------------
(* A client that waits for the results of all its requests exits without     *)
(* harm, however many requests and service threads it has.                   *)
EXTENDS Teardown, TLAPS

(* Where a request is before it is done: in the list, with the client's      *)
(* worker, in the queue, with a service thread.                              *)
Has(q, r) == \E i \in 1..Len(q) : q[i] = r
Distinct(q) == \A i, j \in 1..Len(q) : q[i] = q[j] => i = j
Sending(r) == wpc = "send" /\ wreq = r
AtWork == {"start", "started", "argument", "compress", "mark"}
Labels == AtWork \cup {"check", "receive", "complete", "completed", "ended"}
Served(w, r) == spc[w] \in AtWork /\ sreq[w] = r

(* A request is in one of these places at most, and once, and not done: what *)
(* holds of a request that is at one place about the places after it.        *)
NotDone(r) == r \in issued /\ r \notin done
NotServed(r) == \A w \in Workers : ~Served(w, r)
Types ==
  /\ request_q \in Seq(Requests) /\ send_q \in Seq(Requests)
  /\ wpc = "send" => wreq \in Requests
  /\ spc \in [Workers -> Labels] /\ sreq \in [Workers -> Requests \cup {None}]
InList ==
  /\ Distinct(request_q)
  /\ \A r \in Requests : Has(request_q, r) =>
       NotDone(r) /\ ~Sending(r) /\ ~Has(send_q, r) /\ NotServed(r)
InHand == \A r \in Requests : Sending(r) => NotDone(r) /\ ~Has(send_q, r) /\ NotServed(r)
InQueue ==
  /\ Distinct(send_q)
  /\ \A r \in Requests : Has(send_q, r) => NotDone(r) /\ NotServed(r)
InService ==
  \A w \in Workers : spc[w] \in AtWork =>
    /\ sreq[w] \in Requests /\ NotDone(sreq[w])
    /\ \A v \in Workers : Served(v, sreq[w]) => v = w

(* tinyfile_exit begins when all is collected, and so all is done; the list  *)
(* is freed, and the segment unmapped, only after that.                      *)
Exit ==
  /\ collected \subseteq done /\ done \subseteq issued
  /\ cpc # "run" => collected = issued
  /\ list_freed => cpc # "run"
  /\ unregister => cpc # "run"
  /\ upc # "idle" => unregister
  /\ ~mapped => upc # "idle"
IInv == Types /\ InList /\ InHand /\ InQueue /\ InService /\ Exit /\ ListUnused /\ SegmentUnused

-----------------------------------------------------------------------------
(* A list with one more at its end. *)
LEMMA AppendFacts ==
  ASSUME NEW S, NEW q \in Seq(S), NEW e \in S
  PROVE  /\ Append(q, e) \in Seq(S)
         /\ \A r : Has(Append(q, e), r) <=> Has(q, r) \/ r = e
         /\ Distinct(q) /\ ~Has(q, e) => Distinct(Append(q, e))
<1>1. /\ Append(q, e) \in Seq(S) /\ Len(q) \in Nat /\ Len(Append(q, e)) = Len(q) + 1
      /\ \A i \in 1..Len(q) : Append(q, e)[i] = q[i]
      /\ Append(q, e)[Len(q) + 1] = e
  OBVIOUS
<1>2. \A i : i \in 1..(Len(q) + 1) <=> i \in 1..Len(q) \/ i = Len(q) + 1
  BY <1>1
<1> QED BY <1>1, <1>2, Zenon DEF Has, Distinct

(* The head of a list and the rest of it. *)
LEMMA TailFacts ==
  ASSUME NEW S, NEW q \in Seq(S), q # << >>
  PROVE  /\ Head(q) \in S /\ Has(q, Head(q)) /\ Tail(q) \in Seq(S)
         /\ \A r : Has(Tail(q), r) => Has(q, r)
         /\ Distinct(q) => Distinct(Tail(q)) /\ ~Has(Tail(q), Head(q))
<1>1. /\ Tail(q) \in Seq(S) /\ Len(q) \in Nat /\ Len(q) >= 1 /\ Len(Tail(q)) = Len(q) - 1
      /\ \A i \in 1..Len(Tail(q)) : Tail(q)[i] = q[i + 1]
      /\ Head(q) = q[1] /\ q[1] \in S
  OBVIOUS
<1>2. \A i \in 1..Len(Tail(q)) : i + 1 \in 1..Len(q) /\ i + 1 # 1
  BY <1>1
<1>3. 1 \in 1..Len(q)
  BY <1>1
<1>4. Distinct(q) => Distinct(Tail(q))
  BY <1>1, <1>2, SMT DEF Distinct
<1> QED BY <1>1, <1>2, <1>3, <1>4, Zenon DEF Has, Distinct

(* An empty list. *)
LEMMA EmptyFacts ==
  ASSUME NEW S
  PROVE  << >> \in Seq(S) /\ Distinct(<< >>) /\ \A r : ~Has(<< >>, r)
BY DEF Distinct, Has

(* After the exit has begun no request is left in any of the places. *)
LEMMA NothingLeft ==
  ASSUME IInv, cpc # "run"
  PROVE  request_q = << >> /\ \A w \in Workers : spc[w] \notin AtWork
<1>1. \A r : ~NotDone(r)
  BY DEF IInv, Exit, NotDone
<1>2. ASSUME request_q # << >> PROVE FALSE
  <2>1. Head(request_q) \in Requests /\ Has(request_q, Head(request_q))
    BY <1>2, TailFacts DEF IInv, Types
  <2> QED BY <1>1, <2>1 DEF IInv, InList
<1> QED BY <1>1, <1>2 DEF IInv, InService

-----------------------------------------------------------------------------
(* The client's own thread. *)
LEMMA CallerKeeps ==
  ASSUME IInv, CallerStep, Patient
  PROVE  IInv'
<1> USE DEF thread_vars, unregister_vars
<1>1. ASSUME NEW r \in Requests, Issue(r)
      PROVE  IInv'
  <2>1. request_q \in Seq(Requests) /\ ~Has(request_q, r) /\ Distinct(request_q)
    BY <1>1 DEF Issue, IInv, Types, InList, NotDone
  <2>2. /\ request_q' \in Seq(Requests) /\ Distinct(request_q')
        /\ \A x : Has(request_q', x) <=> Has(request_q, x) \/ x = r
    BY <1>1, <2>1, AppendFacts DEF Issue
  <2>3. r \notin issued /\ r \notin done
    BY <1>1 DEF Issue, IInv, Exit
  <2>4. ~Sending(r) /\ ~Has(send_q, r)
    BY <2>3, Zenon DEF IInv, InHand, InQueue, NotDone
  <2>5. NotServed(r)
    BY <2>3, Zenon DEF IInv, InService, NotServed, Served, NotDone
  <2>6. Types'
    BY <1>1, <2>2, <2>3, <2>4, <2>5, ZenonT(60)
       DEF IInv, Types, CallerStep, Issue
  <2>7. InList'
    BY <1>1, <2>2, <2>3, <2>4, <2>5, ZenonT(60)
       DEF IInv, InList, NotDone, NotServed, Served, Sending, CallerStep, Issue
  <2>8. InHand'
    BY <1>1, <2>2, <2>3, <2>4, <2>5, ZenonT(60)
       DEF IInv, InHand, InList, NotDone, NotServed, Served, Sending, CallerStep, Issue
  <2>9. InQueue'
    BY <1>1, <2>2, <2>3, <2>4, <2>5, ZenonT(60)
       DEF IInv, InQueue, InHand, InList, NotDone, NotServed, Served, Sending, CallerStep, Issue
  <2>10. InService'
    BY <1>1, <2>2, <2>3, <2>4, <2>5, ZenonT(60)
       DEF IInv, InService, InQueue, NotDone, NotServed, Served, CallerStep, Issue
  <2>11. Exit' /\ ListUnused' /\ SegmentUnused'
    BY <1>1, <2>2, <2>3, <2>4, <2>5, ZenonT(60)
       DEF IInv, Exit, InService, ListUnused, SegmentUnused, NotDone, CallerStep, Issue
  <2> QED BY <2>6, <2>7, <2>8, <2>9, <2>10, <2>11 DEF IInv
<1>2. ASSUME NEW r \in Requests, Collect(r)
      PROVE  IInv'
  BY <1>2 DEF CallerStep, Collect, IInv, Types, InList, InHand, InQueue, InService, Exit, NotDone,
              NotServed, Served, Sending, Has, Distinct, ListUnused, SegmentUnused
<1>3. CASE SendUnregister \/ FreeList \/ StopWorker \/ JoinWorker
  BY <1>3 DEF CallerStep, SendUnregister, FreeList, StopWorker, JoinWorker, IInv, Types, InList,
              InHand, InQueue, InService, Exit, NotDone, NotServed, Served, Sending, Has,
              Distinct, ListUnused, SegmentUnused
<1> QED BY <1>1, <1>2, <1>3 DEF CallerStep

(* request_q_handler: a node that it takes has not been freed. *)
LEMMA ClientWorkerKeeps ==
  ASSUME IInv, ClientWorkerStep
  PROVE  IInv'
<1> USE DEF thread_vars, unregister_vars
<1>1. CASE WorkerCheck \/ (WorkerDequeue /\ request_q = << >>)
  BY <1>1 DEF ClientWorkerStep, WorkerCheck, WorkerDequeue, IInv, Types, InList, InHand, InQueue,
              InService, Exit, NotDone, NotServed, Served, Sending, Has, Distinct, ListUnused,
              SegmentUnused
<1>2. CASE WorkerDequeue /\ request_q # << >>
  <2>1. request_q \in Seq(Requests) /\ Distinct(request_q)
    BY DEF IInv, Types, InList
  <2>2. /\ Head(request_q) \in Requests /\ Has(request_q, Head(request_q))
        /\ Tail(request_q) \in Seq(Requests) /\ Distinct(Tail(request_q))
        /\ ~Has(Tail(request_q), Head(request_q))
        /\ \A x : Has(Tail(request_q), x) => Has(request_q, x)
    BY <1>2, <2>1, TailFacts, Zenon
  <2>3. wreq' = Head(request_q) /\ request_q' = Tail(request_q)
    BY <1>2, Zenon DEF WorkerDequeue
  <2>4. /\ wreq' \in Requests /\ Has(request_q, wreq')
        /\ request_q' \in Seq(Requests) /\ Distinct(request_q') /\ ~Has(request_q', wreq')
        /\ \A x : Has(request_q', x) => Has(request_q, x)
    BY <2>2, <2>3, Zenon
  <2>5. list_fault' = FALSE
    BY <1>2, NothingLeft, Zenon DEF WorkerDequeue, IInv, Exit, ListUnused
  <2>6. Types'
    BY <1>2, <2>4, <2>5, ZenonT(60)
       DEF IInv, Types, ClientWorkerStep, WorkerDequeue
  <2>7. InList'
    BY <1>2, <2>4, <2>5, ZenonT(60)
       DEF IInv, InList, NotDone, NotServed, Served, Sending, ClientWorkerStep, WorkerDequeue
  <2>8. InHand'
    BY <1>2, <2>4, <2>5, ZenonT(60)
       DEF IInv, InHand, InList, NotDone, NotServed, Served, Sending, ClientWorkerStep,
           WorkerDequeue
  <2>9. InQueue'
    BY <1>2, <2>4, <2>5, ZenonT(60)
       DEF IInv, InQueue, InHand, InList, NotDone, NotServed, Served, Sending,
           ClientWorkerStep, WorkerDequeue
  <2>10. InService'
    BY <1>2, <2>4, <2>5, ZenonT(60)
       DEF IInv, InService, InQueue, NotDone, NotServed, Served, ClientWorkerStep, WorkerDequeue
  <2>11. Exit' /\ ListUnused' /\ SegmentUnused'
    BY <1>2, <2>4, <2>5, ZenonT(60)
       DEF IInv, Exit, InService, ListUnused, SegmentUnused, NotDone, ClientWorkerStep,
           WorkerDequeue
  <2> QED BY <2>6, <2>7, <2>8, <2>9, <2>10, <2>11 DEF IInv
<1>3. CASE WorkerSend
  <2>1. wreq \in Requests /\ Sending(wreq) /\ send_q \in Seq(Requests)
    BY <1>3 DEF WorkerSend, IInv, Types, Sending
  <2>2. NotDone(wreq) /\ ~Has(send_q, wreq) /\ NotServed(wreq) /\ ~Has(request_q, wreq)
    BY <2>1 DEF IInv, InHand, InList
  <2>3. /\ send_q' \in Seq(Requests) /\ Distinct(send_q')
        /\ \A x : Has(send_q', x) <=> Has(send_q, x) \/ x = wreq
    BY <1>3, <2>1, <2>2, AppendFacts DEF WorkerSend, IInv, InQueue
  <2>4. Types'
    BY <1>3, <2>1, <2>2, <2>3, ZenonT(60)
       DEF IInv, Types, ClientWorkerStep, WorkerSend
  <2>5. InList'
    BY <1>3, <2>1, <2>2, <2>3, ZenonT(60)
       DEF IInv, InList, NotDone, NotServed, Served, Sending, ClientWorkerStep, WorkerSend
  <2>6. InHand'
    BY <1>3, <2>1, <2>2, <2>3, ZenonT(60)
       DEF IInv, InHand, InList, NotDone, NotServed, Served, Sending, ClientWorkerStep, WorkerSend
  <2>7. InQueue'
    BY <1>3, <2>1, <2>2, <2>3, ZenonT(60)
       DEF IInv, InQueue, InHand, InList, NotDone, NotServed, Served, Sending,
           ClientWorkerStep, WorkerSend
  <2>8. InService'
    BY <1>3, <2>1, <2>2, <2>3, ZenonT(60)
       DEF IInv, InService, InQueue, NotDone, NotServed, Served, ClientWorkerStep, WorkerSend
  <2>9. Exit' /\ ListUnused' /\ SegmentUnused'
    BY <1>3, <2>1, <2>2, <2>3, ZenonT(60)
       DEF IInv, Exit, InService, ListUnused, SegmentUnused, NotDone, ClientWorkerStep, WorkerSend
  <2> QED BY <2>4, <2>5, <2>6, <2>7, <2>8, <2>9 DEF IInv
<1> QED BY <1>1, <1>2, <1>3 DEF ClientWorkerStep

(* unregister_client *)
LEMMA UnregisterKeeps ==
  ASSUME IInv, UnregisterStep
  PROVE  IInv'
<1> USE DEF thread_vars, client_vars
<1>1. Types' /\ InList' /\ InHand' /\ InQueue' /\ InService' /\ ListUnused' /\ SegmentUnused'
  BY DEF UnregisterStep, IInv, Types, InList, InHand, InQueue, InService, NotDone, NotServed,
         Served, Sending, Has, Distinct, ListUnused, SegmentUnused
<1>2. Exit'
  BY DEF UnregisterStep, UnregisterBegin, ReadCompleted, Compare, CancelThread, Unmap, FreeNode,
         IInv, Exit
<1> QED BY <1>1, <1>2 DEF IInv

(* A service thread: one that is inside a request has the segment mapped. *)
LEMMA ThreadKeeps ==
  ASSUME IInv, NEW w \in Workers, ThreadStep(w)
  PROVE  IInv'
<1> USE DEF client_vars, unregister_vars
<1>1. spc \in [Workers -> Labels] /\ sreq \in [Workers -> Requests \cup {None}]
  BY DEF IInv, Types
<1>2. ASSUME UNCHANGED <<sreq, done, send_q>>, ~shm_fault',
             NEW l \in Labels, Go(w, l), l \in AtWork => spc[w] \in AtWork
      PROVE  IInv'
  <2>1. /\ spc' \in [Workers -> Labels]
        /\ \A v \in Workers : spc'[v] \in AtWork => spc[v] \in AtWork
    BY <1>1, <1>2, Zenon DEF Go
  <2> QED BY <1>1, <1>2, <2>1
          DEF ThreadStep, IInv, Types, InList, InHand, InQueue, InService, Exit, NotDone,
              NotServed, Served, Sending, Has, Distinct, ListUnused, SegmentUnused
<1>3. ASSUME \/ Cancelled(w) \/ Check(w) \/ ReceiveNothing(w) \/ CountStarted(w)
             \/ CountCompleted(w) \/ Unlock(w) \/ Compress(w)
      PROVE  IInv'
  <2>1. UNCHANGED <<sreq, done, send_q>> /\ ~shm_fault'
    BY <1>3, SMT DEF Cancelled, Check, ReceiveNothing, CountStarted, CountCompleted, Unlock,
                       Compress, IInv, SegmentUnused
  <2>2. Unlock(w) => (spc[w] = "started" /\ Go(w, "argument")) \/ Go(w, "check")
    BY SMT DEF Unlock
  <2>3. \E l \in Labels : Go(w, l) /\ (l \in AtWork => spc[w] \in AtWork)
    BY <1>3, <2>2, SMT DEF Cancelled, Check, ReceiveNothing, CountStarted, CountCompleted,
                             Compress, AtWork, Labels
  <2> QED BY <1>2, <2>1, <2>3, Zenon
<1>4. CASE ReadArgument(w)
  <2>1. mapped
    BY <1>4, NothingLeft, Zenon DEF ReadArgument, AtWork, IInv, Exit
  <2>2. UNCHANGED <<sreq, done, send_q>> /\ ~shm_fault'
    BY <1>4, <2>1, Zenon DEF ReadArgument, IInv, SegmentUnused
  <2>3. "compress" \in Labels /\ Go(w, "compress") /\ spc[w] \in AtWork
    BY <1>4, Zenon DEF ReadArgument, AtWork, Labels
  <2> QED BY <1>2, <2>2, <2>3, Zenon
<1>5. CASE Receive(w)
  <2>1. /\ sreq'[w] = Head(send_q) /\ Head(send_q) \in Requests /\ Has(send_q, Head(send_q))
        /\ send_q' \in Seq(Requests) /\ Distinct(send_q') /\ ~Has(send_q', Head(send_q))
        /\ \A x : Has(send_q', x) => Has(send_q, x)
    BY <1>1, <1>5, TailFacts DEF Receive, IInv, Types, InQueue
  <2>2. /\ spc' \in [Workers -> Labels] /\ sreq' \in [Workers -> Requests \cup {None}]
        /\ \A v \in Workers : v # w => spc'[v] = spc[v] /\ sreq'[v] = sreq[v]
    BY <1>1, <1>5, <2>1, Zenon DEF Receive, Go, AtWork, Labels
  <2>3. Types'
    BY <1>5, <2>1, <2>2, ZenonT(60)
       DEF IInv, Types, ThreadStep, Receive
  <2>4. InList'
    BY <1>5, <2>1, <2>2, ZenonT(60)
       DEF IInv, InList, NotDone, NotServed, Served, Sending, ThreadStep, Receive
  <2>5. InHand'
    BY <1>5, <2>1, <2>2, ZenonT(60)
       DEF IInv, InHand, InList, NotDone, NotServed, Served, Sending, ThreadStep, Receive
  <2>6. InQueue'
    BY <1>5, <2>1, <2>2, ZenonT(60)
       DEF IInv, InQueue, InHand, InList, NotDone, NotServed, Served, Sending, ThreadStep, Receive
  <2>7. InService'
    BY <1>5, <2>1, <2>2, ZenonT(60)
       DEF IInv, InService, InQueue, NotDone, NotServed, Served, ThreadStep, Receive
  <2>8. Exit' /\ ListUnused' /\ SegmentUnused'
    BY <1>5, <2>1, <2>2, ZenonT(60)
       DEF IInv, Exit, InService, ListUnused, SegmentUnused, NotDone, ThreadStep, Receive
  <2> QED BY <2>3, <2>4, <2>5, <2>6, <2>7, <2>8 DEF IInv
<1>6. CASE MarkDone(w)
  <2>1. mapped /\ shm_fault' = FALSE
    BY <1>6, NothingLeft, Zenon DEF MarkDone, AtWork, IInv, Exit, SegmentUnused
  <2>2. /\ spc' \in [Workers -> Labels] /\ spc'[w] \notin AtWork /\ spc[w] \in AtWork
        /\ \A v \in Workers : v # w => spc'[v] = spc[v]
    BY <1>1, <1>6, Zenon DEF MarkDone, Go, AtWork, Labels
  <2>3. Types'
    BY <1>1, <1>6, <2>1, <2>2, ZenonT(60)
       DEF IInv, Types, ThreadStep, MarkDone
  <2>4. InList'
    BY <1>1, <1>6, <2>1, <2>2, ZenonT(60)
       DEF IInv, InList, NotDone, NotServed, Served, Sending, ThreadStep, MarkDone
  <2>5. InHand'
    BY <1>1, <1>6, <2>1, <2>2, ZenonT(60)
       DEF IInv, InHand, InList, NotDone, NotServed, Served, Sending, ThreadStep, MarkDone
  <2>6. InQueue'
    BY <1>1, <1>6, <2>1, <2>2, ZenonT(60)
       DEF IInv, InQueue, InHand, InList, NotDone, NotServed, Served, Sending, ThreadStep, MarkDone
  <2>7. InService'
    BY <1>1, <1>6, <2>1, <2>2, ZenonT(60)
       DEF IInv, InService, InQueue, NotDone, NotServed, Served, ThreadStep, MarkDone
  <2>8. Exit' /\ ListUnused' /\ SegmentUnused'
    BY <1>1, <1>6, <2>1, <2>2, ZenonT(60)
       DEF IInv, Exit, InService, ListUnused, SegmentUnused, NotDone, ThreadStep, MarkDone
  <2> QED BY <2>3, <2>4, <2>5, <2>6, <2>7, <2>8 DEF IInv
<1> QED BY <1>3, <1>4, <1>5, <1>6 DEF ThreadStep


-----------------------------------------------------------------------------
(* The inductive invariant of the exit of a patient client. *)
LEMMA ExitInvariant ==
  ASSUME Patient
  PROVE  Spec => []IInv
<1>1. Init => IInv
  BY EmptyFacts, Zenon DEF Init, IInv, Types, InList, InHand, InQueue, InService, Exit, AtWork,
     Labels, ListUnused, SegmentUnused, Sending
<1>2. IInv /\ [Next]_vars => IInv'
  <2> SUFFICES ASSUME IInv, [Next]_vars PROVE IInv'
    OBVIOUS
  <2>1. CASE UNCHANGED vars
    BY <2>1, Zenon DEF vars, client_vars, thread_vars, unregister_vars, IInv, Types, InList,
       InHand, InQueue, InService, Exit, NotDone, NotServed, Served, Sending, ListUnused,
       SegmentUnused
  <2> QED BY <2>1, CallerKeeps, ClientWorkerKeeps, UnregisterKeeps, ThreadKeeps, Zenon DEF Next
<1> QED BY <1>1, <1>2, PTL DEF Spec

(* A client that calls tinyfile_exit after the results of all its requests,  *)
(* however many, never has request_q_handler follow the pointer to the list  *)
(* that async_req_q_destroy has freed.                                       *)
THEOREM FreedListUnused ==
  ASSUME Patient
  PROVE  Spec => []ListUnused
<1>1. IInv => ListUnused
  BY DEF IInv
<1> QED BY <1>1, ExitInvariant, PTL

(* And none of its service threads, however many, uses the shared memory     *)
(* after unregister_client has unmapped it.                                  *)
THEOREM UnmappedSegmentUnused ==
  ASSUME Patient
  PROVE  Spec => []SegmentUnused
<1>1. IInv => SegmentUnused
  BY DEF IInv
<1> QED BY <1>1, ExitInvariant, PTL
=============================================================================
