------------------------------- MODULE Teardown -------------------------------
(* The end of one client: tinyfile_exit with the client's request worker     *)
(* still running (src/api/api.c), and unregister_client with the client's    *)
(* service threads still running (src/server/server.c). The shared memory is *)
(* not resized; how the registry finds the client is in module Registry.     *)
(*                                                                           *)
(* An operator X_y is X with the plausible mistake y; no action uses it.     *)
EXTENDS Integers, Sequences, FiniteSets

CONSTANTS
  Requests,   \* calls that the client makes before it exits, at most
  Workers,    \* service threads of the client
  MqMaxMsg,   \* attr.mq_maxmsg of the send queue
  Patient,    \* whether it waits for the results of all of them first
  None

ASSUME TeardownAssumption ==
  None \notin Requests /\ MqMaxMsg \in Nat \ {0} /\ Patient \in BOOLEAN

VARIABLES
  \* --- the client ---
  cpc, issued, collected,
  request_q,    \* the list that request_q_params.queue points to
  list_freed,   \* its nodes were freed; the pointer to them stays
  stop_worker,
  wpc, wreq,    \* request_q_handler
  \* --- shared ---
  send_q, unregister,  \* the client's queue; its command to the registry
  done,         \* requests whose entry is done
  \* --- the server ---
  upc, completed_read, \* unregister_client: where it is, and what it has read
  closed,       \* mq_close(client->recv_q)
  cancelled,    \* pthread_cancel was called for these
  mapped,       \* client->shm_addr
  spc, sreq,    \* service threads
  num_requests_started, num_requests_completed,
  threads_mutex,
  \* --- history ---
  list_fault,   \* the client's worker has used a node that was freed
  shm_fault     \* a service thread has used the segment after munmap

client_vars == <<cpc, issued, collected, request_q, list_freed, stop_worker, wpc, wreq,
                 unregister, list_fault>>
thread_vars == <<spc, sreq, num_requests_started, num_requests_completed, threads_mutex, done,
                 shm_fault>>
unregister_vars == <<upc, completed_read, closed, cancelled, mapped>>
vars == <<client_vars, thread_vars, unregister_vars, send_q>>

Init ==
  /\ cpc = "run" /\ issued = {} /\ collected = {}
  /\ request_q = << >> /\ list_freed = FALSE /\ stop_worker = FALSE
  /\ wpc = "check" /\ wreq = None
  /\ send_q = << >> /\ unregister = FALSE /\ done = {}
  /\ upc = "idle" /\ completed_read = 0 /\ closed = FALSE /\ cancelled = {} /\ mapped = TRUE
  /\ spc = [w \in Workers |-> "check"] /\ sreq = [w \in Workers |-> None]
  /\ num_requests_started = 0 /\ num_requests_completed = 0 /\ threads_mutex = None
  /\ list_fault = FALSE /\ shm_fault = FALSE

-----------------------------------------------------------------------------
(* The client's own thread. *)

(* tinyfile_async; the result of a request that is done is collected. *)
Issue(r) ==
  /\ cpc = "run" /\ r \notin issued
  /\ issued' = issued \cup {r} /\ request_q' = Append(request_q, r)
  /\ UNCHANGED <<cpc, collected, list_freed, stop_worker, wpc, wreq, unregister, list_fault>>

Collect_undone(r) ==
  /\ cpc = "run" /\ r \in issued \ collected
  /\ collected' = collected \cup {r}
  /\ UNCHANGED <<cpc, issued, request_q, list_freed, stop_worker, wpc, wreq, unregister,
                 list_fault>>
Collect(r) ==
  /\ cpc = "run" /\ r \in done \ collected
  /\ collected' = collected \cup {r}
  /\ UNCHANGED <<cpc, issued, request_q, list_freed, stop_worker, wpc, wreq, unregister,
                 list_fault>>

(* tinyfile_exit: tell the server, *)
SendUnregister ==
  /\ cpc = "run" /\ (Patient => collected = issued)
  /\ cpc' = "free" /\ unregister' = TRUE
  /\ UNCHANGED <<issued, collected, request_q, list_freed, stop_worker, wpc, wreq, list_fault>>

(* free the list under its mutex, *)
FreeList ==
  /\ cpc = "free" /\ cpc' = "stop"
  /\ list_freed' = TRUE
  /\ UNCHANGED <<issued, collected, request_q, stop_worker, wpc, wreq, unregister, list_fault>>

(* stop the worker, *)
StopWorker_never ==
  /\ cpc = "stop" /\ cpc' = "join"
  /\ UNCHANGED <<issued, collected, request_q, list_freed, stop_worker, wpc, wreq, unregister,
                 list_fault>>
StopWorker ==
  /\ cpc = "stop" /\ cpc' = "join"
  /\ stop_worker' = TRUE
  /\ UNCHANGED <<issued, collected, request_q, list_freed, wpc, wreq, unregister, list_fault>>

(* and join it. destroy_queues and destroy_shm only remove names here: the   *)
(* server has both queues and the segment open.                              *)
JoinWorker ==
  /\ cpc = "join" /\ wpc = "ended" /\ cpc' = "out"
  /\ UNCHANGED <<issued, collected, request_q, list_freed, stop_worker, wpc, wreq, unregister,
                 list_fault>>

CallerStep ==
  /\ \/ \E r \in Requests : Issue(r) \/ Collect(r)
     \/ SendUnregister \/ FreeList \/ StopWorker \/ JoinWorker
  /\ UNCHANGED <<thread_vars, unregister_vars, send_q>>

(* request_q_handler *)
WorkerCheck ==
  /\ wpc = "check" /\ wpc' = IF stop_worker THEN "ended" ELSE "dequeue"
  /\ UNCHANGED <<cpc, issued, collected, request_q, list_freed, stop_worker, wreq, unregister,
                 list_fault, send_q>>

WorkerDequeue_keep ==
  /\ wpc = "dequeue"
  /\ IF request_q = << >> THEN wpc' = "check" /\ UNCHANGED <<wreq, list_fault>>
     ELSE /\ wpc' = "send" /\ wreq' = Head(request_q)
          /\ list_fault' = (list_fault \/ list_freed)
  /\ UNCHANGED <<request_q, cpc, issued, collected, list_freed, stop_worker, unregister, send_q>>
WorkerDequeue ==
  /\ wpc = "dequeue"
  /\ IF request_q = << >> THEN wpc' = "check" /\ UNCHANGED <<wreq, request_q, list_fault>>
     ELSE /\ wpc' = "send" /\ wreq' = Head(request_q) /\ request_q' = Tail(request_q)
          /\ list_fault' = (list_fault \/ list_freed)
  /\ UNCHANGED <<cpc, issued, collected, list_freed, stop_worker, unregister, send_q>>

WorkerSend ==
  /\ wpc = "send" /\ Len(send_q) < MqMaxMsg
  /\ wpc' = "check" /\ send_q' = Append(send_q, wreq)
  /\ UNCHANGED <<cpc, issued, collected, request_q, list_freed, stop_worker, wreq, unregister,
                 list_fault>>

ClientWorkerStep ==
  /\ WorkerCheck \/ WorkerDequeue \/ WorkerSend
  /\ UNCHANGED <<thread_vars, unregister_vars>>

-----------------------------------------------------------------------------
(* A service thread. pthread_cancel takes effect in mq_timedreceive and in   *)
(* the file operations of compress_service.                                  *)

Go(w, l) == spc' = [spc EXCEPT ![w] = l]

Cancelled(w) ==
  /\ spc[w] \in {"receive", "compress"} /\ w \in cancelled
  /\ Go(w, "ended")
  /\ UNCHANGED <<sreq, num_requests_started, num_requests_completed, threads_mutex, done,
                 shm_fault, send_q>>

Check(w) ==
  /\ spc[w] = "check" /\ Go(w, "receive")
  /\ UNCHANGED <<sreq, num_requests_started, num_requests_completed, threads_mutex, done,
                 shm_fault, send_q>>

ReceiveNothing(w) ==
  /\ spc[w] = "receive" /\ w \notin cancelled /\ (closed \/ send_q = << >>)
  /\ Go(w, "check")
  /\ UNCHANGED <<sreq, num_requests_started, num_requests_completed, threads_mutex, done,
                 shm_fault, send_q>>

Receive(w) ==
  /\ spc[w] = "receive" /\ w \notin cancelled /\ ~closed /\ send_q # << >>
  /\ Go(w, "start") /\ sreq' = [sreq EXCEPT ![w] = Head(send_q)] /\ send_q' = Tail(send_q)
  /\ UNCHANGED <<num_requests_started, num_requests_completed, threads_mutex, done, shm_fault>>

(* Lock threads_mutex and count, then unlock it. *)
CountStarted(w) ==
  /\ spc[w] = "start" /\ threads_mutex = None /\ Go(w, "started")
  /\ threads_mutex' = w /\ num_requests_started' = num_requests_started + 1
  /\ UNCHANGED <<sreq, num_requests_completed, done, shm_fault, send_q>>

CountCompleted(w) ==
  /\ spc[w] = "complete" /\ threads_mutex = None /\ Go(w, "completed")
  /\ threads_mutex' = w /\ num_requests_completed' = num_requests_completed + 1
  /\ UNCHANGED <<sreq, num_requests_started, done, shm_fault, send_q>>

Unlock(w) ==
  /\ spc[w] \in {"started", "completed"} /\ threads_mutex' = None
  /\ Go(w, IF spc[w] = "started" THEN "argument" ELSE "check")
  /\ UNCHANGED <<sreq, num_requests_started, num_requests_completed, done, shm_fault, send_q>>

(* handle_request reads the argument, compresses, and sets done. *)
ReadArgument(w) ==
  /\ spc[w] = "argument" /\ Go(w, "compress")
  /\ shm_fault' = (shm_fault \/ ~mapped)
  /\ UNCHANGED <<sreq, num_requests_started, num_requests_completed, threads_mutex, done, send_q>>

Compress(w) ==
  /\ spc[w] = "compress" /\ w \notin cancelled /\ Go(w, "mark")
  /\ UNCHANGED <<sreq, num_requests_started, num_requests_completed, threads_mutex, done,
                 shm_fault, send_q>>

MarkDone(w) ==
  /\ spc[w] = "mark" /\ Go(w, "complete")
  /\ shm_fault' = (shm_fault \/ ~mapped) /\ done' = done \cup {sreq[w]}
  /\ UNCHANGED <<sreq, num_requests_started, num_requests_completed, threads_mutex, send_q>>

ThreadStep(w) ==
  /\ \/ Cancelled(w) \/ Check(w) \/ ReceiveNothing(w) \/ Receive(w) \/ CountStarted(w)
     \/ CountCompleted(w) \/ Unlock(w) \/ ReadArgument(w) \/ Compress(w) \/ MarkDone(w)
  /\ UNCHANGED <<client_vars, unregister_vars>>

-----------------------------------------------------------------------------
(* unregister_client, after remove_client. *)

UnregisterBegin ==
  /\ upc = "idle" /\ unregister /\ upc' = "read"
  /\ closed' = TRUE
  /\ UNCHANGED <<completed_read, cancelled, mapped>>

(* gcc -O3 reads num_requests_completed, then num_requests_started, once;    *)
(* if they differ the loop has no end.                                       *)
ReadCompleted ==
  /\ upc = "read" /\ upc' = "compare"
  /\ completed_read' = num_requests_completed
  /\ UNCHANGED <<closed, cancelled, mapped>>

Compare ==
  /\ upc = "compare"
  /\ upc' = IF num_requests_started = completed_read THEN "cancel" ELSE "loop"
  /\ UNCHANGED <<completed_read, closed, cancelled, mapped>>

(* cleanup_worker_threads *)
CancelThread_last ==
  /\ upc = "cancel"
  /\ \E w \in Workers \ cancelled :
       /\ cancelled' = cancelled \cup {w}
       /\ upc' = IF Cardinality(cancelled') = Cardinality(Workers) - 1 THEN "unmap" ELSE "cancel"
  /\ UNCHANGED <<completed_read, closed, mapped>>
CancelThread ==
  /\ upc = "cancel"
  /\ \E w \in Workers \ cancelled :
       /\ cancelled' = cancelled \cup {w}
       /\ upc' = IF cancelled' = Workers THEN "unmap" ELSE "cancel"
  /\ UNCHANGED <<completed_read, closed, mapped>>

Unmap ==
  /\ upc = "unmap" /\ upc' = "free"
  /\ mapped' = FALSE
  /\ UNCHANGED <<completed_read, closed, cancelled>>

FreeNode ==
  /\ upc = "free" /\ upc' = "freed"
  /\ UNCHANGED <<completed_read, closed, cancelled, mapped>>

UnregisterStep ==
  /\ UnregisterBegin \/ ReadCompleted \/ Compare \/ CancelThread \/ Unmap \/ FreeNode
  /\ UNCHANGED <<client_vars, thread_vars, send_q>>

Next ==
  \/ CallerStep \/ ClientWorkerStep \/ UnregisterStep
  \/ \E w \in Workers : ThreadStep(w)

Spec == Init /\ [][Next]_vars

(* Every thread is scheduled; whether the client exits is its own choice. *)
FairSpec ==
  /\ Spec
  /\ WF_vars(FreeList /\ CallerStep) /\ WF_vars(StopWorker /\ CallerStep)
  /\ WF_vars(JoinWorker /\ CallerStep)
  /\ WF_vars(ClientWorkerStep) /\ WF_vars(UnregisterStep)
  /\ \A w \in Workers : WF_vars(ThreadStep(w))

-----------------------------------------------------------------------------
(* async_req_q_destroy frees the list while request_q_handler still runs,    *)
(* and leaves the pointer to it: the worker never follows that pointer.      *)
ListUnused == ~list_fault

(* unregister_client unmaps the segment while service threads may run: none  *)
(* of them uses it afterwards.                                               *)
SegmentUnused == ~shm_fault

(* tinyfile_exit returns. *)
ExitReturns == cpc = "free" ~> cpc = "out"

(* The server is through with a client, or in the endless loop; and all its  *)
(* service threads end, so that a server does not gather threads.            *)
ThreadsEnd == unregister ~> upc = "loop" \/ \A w \in Workers : spc[w] = "ended"

(* unregister_client's "Wait for all worker threads to complete": when it    *)
(* frees the client, with threads_mutex in it, no thread is inside a request. *)
InRequest == {"start", "started", "argument", "compress", "mark", "complete", "completed"}
RequestsOver == upc = "freed" => \A w \in Workers : spc[w] \notin InRequest
=============================================================================
