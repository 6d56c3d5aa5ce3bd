------------------------------ MODULE Tinyfile ------------------------------
(***************************************************************************)
(* One TinyFile client process, from tinyfile_init on, and the part of the *)
(* server that serves it: the API library with its request-queue worker,   *)
(* the two POSIX message queues, the shared-memory entries, the server's   *)
(* service_worker threads and the thread that follows a resize of the      *)
(* shared memory.                                                          *)
(*                                                                         *)
(* Thread t of the client makes the calls of Program[t] and collects the   *)
(* results of Collect[t].  A thread of SyncThreads calls tinyfile_sync.    *)
(* Any other calls tinyfile_async for all of its program first and then    *)
(* polls what it collects: its own requests (tinyfile_async_join), or, in  *)
(* a thread with an empty program, those of others (the async_join threads *)
(* of client.c).                                                           *)
(*                                                                         *)
(* A request stands for its own source path: the path of r is r, the path  *)
(* r.compressed is r again (in field dst), None is a path nobody wrote.    *)
(* Request ids are not kept: the server only compares them with -1, the    *)
(* resize command, which fewer than 2^32 - 1 requests never reach.         *)
(*                                                                         *)
(* An operator X_y is X with the plausible mistake y; no action uses it.   *)
(*                                                                         *)
(* Critical sections of mutexes are single steps, except the one of        *)
(* is_request_done, whose interleaving with the server's memcpy matters.   *)
(***************************************************************************)
EXTENDS Integers, Sequences, Functions

CONSTANTS
  Threads,      \* application threads of the client
  Requests,     \* the calls they make
  Program,      \* Program[t]: the requests t issues, in order
  Collect,      \* Collect[t]: the requests whose results t waits for
  SyncThreads,  \* the threads that wait for each call before the next
  Priority,     \* Priority[r]: an unsigned int
  Outcome,      \* Outcome[r]: how compress_service ends for r's file
  Workers,      \* the server's THREADS_PER_CLIENT threads
  ShmSize,      \* TINYFILE_SHM_SIZE, in bytes
  ShmMaxSize,   \* TINYFILE_SHM_MAX_SIZE, in bytes
  EntrySize,    \* sizeof(tinyfile_shared_entry_t)
  MqMaxMsg,     \* mq_maxmsg of both queues
  FdLimit,      \* resizes the client's descriptor limit allows
  None

NumEntries == ShmSize \div EntrySize

MaxEntries == ShmMaxSize \div EntrySize

Slots == 0..(MaxEntries - 1)

ASSUME SizeAssumption ==
  /\ ShmSize \in Nat /\ ShmMaxSize \in Nat /\ EntrySize \in Nat
  /\ EntrySize > 0
  /\ EntrySize <= ShmSize        \* otherwise create_shm fails
  /\ ShmSize <= ShmMaxSize
  /\ MqMaxMsg \in Nat \ {0}
  /\ FdLimit \in Nat

(* A request stands for its source path. *)
Arg == [src : Requests \cup {None}, dst : Requests \cup {None}]

ASSUME CallAssumption ==
  /\ None \notin Requests \cup Threads \cup Slots \cup Arg
  /\ -1 \notin Requests          \* request_id of the resize command
  /\ Program \in [Threads -> Seq(Requests)]
  /\ Collect \in [Threads -> Seq(Requests)]
  /\ \A f \in {Program, Collect} : \A t, u \in Threads :
        \A i \in DOMAIN f[t], j \in DOMAIN f[u] : f[t][i] = f[u][j] => t = u /\ i = j
  /\ SyncThreads \subseteq Threads
  /\ Priority \in [Requests -> Nat]
  /\ Outcome \in [Requests -> {"ok", "unreadable", "unwritable"}]

VARIABLES
  \* --- threads of the client (locals) ---
  pc,                   \* where thread t is
  pos,                  \* the call of Program[t] it makes
  scan,                 \* idx and shm_size of find_shared_entry
  poll,                 \* i of tinyfile_async_join
  ptr,                  \* the mapping that entry points into in is_request_done
  slot,                 \* slot[r]: entry_idx given to r
  result,               \* result[r]: *out
  \* --- globals of the client ---
  request_entry_idx_mutex, shm_resize_lock,
  client_shm_size,      \* client.shm_size in entries, and which mapping it is
  crashed,              \* a thread has touched an unmapped page
  request_q, stop_worker,
  wpc, wreq,            \* request_q_handler and its local request
  \* --- shared between client and server ---
  shm, shm_len,         \* the entries; the object's length in entries
  send_q, recv_q,
  \* --- the server's client_t and its threads ---
  spc, sreq,            \* service_worker threads and their local request
  stop_client_threads, num_requests_started, num_requests_completed,
  server_shm_size,
  rpc, new_shm_size,    \* the server's resize thread
  copy_pos, copy_buf,   \* its memcpy
  \* --- history ---
  stage                 \* how far request r is; no guard reads it

locals == <<pc, pos, scan, poll, ptr, slot, result>>
globals == <<request_entry_idx_mutex, shm_resize_lock, client_shm_size, crashed>>
queue == <<request_q, stop_worker, wpc, wreq>>
shared == <<shm, shm_len>>
mqueues == <<send_q, recv_q>>
workers == <<spc, sreq, stop_client_threads, num_requests_started,
             num_requests_completed>>
resizer == <<server_shm_size, rpc, new_shm_size, copy_pos, copy_buf>>
vars == <<locals, globals, queue, shared, mqueues, workers, resizer, stage>>

Resize == -1           \* request_id of the resize command and of its answer

NoArg == [src |-> None, dst |-> None]

(* What ftruncate leaves in a new entry: zeros, which are an unlocked      *)
(* mutex that is not PTHREAD_PROCESS_SHARED.                               *)
ZeroEntry ==
  [used |-> FALSE, done |-> FALSE, mutex |-> FALSE, pshared |-> FALSE, arg |-> NoArg]

(* The entry that create_shm and the server's resize_shm initialise. *)
FreshEntry == [ZeroEntry EXCEPT !.pshared = TRUE]

(***************************************************************************)
(* Priority queues: request_q_enqueue, and mq_send on a POSIX queue, put a *)
(* message after every message of at least its priority.                   *)
(***************************************************************************)
MsgPriority(m) == IF m = Resize THEN 100 ELSE Priority[m]

InsertionPoints_lifo(q, m) ==
  {k \in 1..(Len(q) + 1) :
     /\ \A j \in 1..(k - 1) : MsgPriority(q[j]) > MsgPriority(m)
     /\ k <= Len(q) => MsgPriority(q[k]) <= MsgPriority(m)}

InsertionPoints(q, m) ==
  {k \in 1..(Len(q) + 1) :
     /\ \A j \in 1..(k - 1) : MsgPriority(q[j]) >= MsgPriority(m)
     /\ k <= Len(q) => MsgPriority(q[k]) < MsgPriority(m)}

InsertAt(q, k, m) == SubSeq(q, 1, k - 1) \o <<m>> \o SubSeq(q, k, Len(q))

(***************************************************************************)
(* Client threads: tinyfile_async up to request_q_enqueue                  *)
(***************************************************************************)
cur(t) == Program[t][pos[t]]
Goto(t, l) == pc' = [pc EXCEPT ![t] = l]
AfterError(t) == IF pos[t] < Len(Program[t]) THEN "call" ELSE "wait"
AfterCall(t) == IF t \in SyncThreads THEN "wait" ELSE AfterError(t)

PriorityOK(r) == Priority[r] <= 31

(* prepare_request up to the spin-locked id: TINYFILE_PRIORITY_ERROR ends *)
(* the call.                                                              *)
Prepare(t) ==
  /\ pc[t] = "call"
  /\ IF PriorityOK(cur(t))
     THEN /\ Goto(t, "lock")
          /\ UNCHANGED <<pos, stage>>
     ELSE /\ Goto(t, AfterError(t))
          /\ pos' = [pos EXCEPT ![t] = @ + 1]
          /\ stage' = [stage EXCEPT ![cur(t)] = "rejected"]
  /\ UNCHANGED <<scan, poll, ptr, slot, result,
                 globals, queue, shared, mqueues, workers, resizer>>

(* Lock global_request_entry_idx_mutex and enter find_shared_entry. *)
LockEntryIdx(t) ==
  /\ pc[t] = "lock"
  /\ request_entry_idx_mutex = None
  /\ request_entry_idx_mutex' = t
  /\ scan' = [scan EXCEPT ![t] = [idx |-> 0, size |-> client_shm_size]]
  /\ Goto(t, "scan")
  /\ UNCHANGED <<pos, poll, ptr, slot, result, shm_resize_lock, client_shm_size,
                 crashed, queue, shared, mqueues, workers, resizer, stage>>

AtHalf(t) == scan[t].idx = scan[t].size \div 2

EntryFree_done(i) == ~shm[i].used \/ shm[i].done
EntryFree(i) == ~shm[i].used

(* The loop body of find_shared_entry past the resize, entry mutex held. *)
AtEntry(t) ==
  /\ pc[t] = "entry" \/ (pc[t] = "scan" /\ ~AtHalf(t))
  /\ ~shm[scan[t].idx].mutex

SkipEntry(t) ==
  /\ AtEntry(t)
  /\ ~EntryFree(scan[t].idx)
  /\ scan' = [scan EXCEPT ![t].idx = (@ + 1) % scan[t].size]
  /\ Goto(t, "scan")
  /\ UNCHANGED <<pos, poll, ptr, slot, result,
                 globals, queue, shared, mqueues, workers, resizer, stage>>

(* The entry as find_shared_entry leaves it: *arg carries whatever the     *)
(* caller's compressed_file_path holds.                                    *)
ClaimedEntry(e, r) ==
  [e EXCEPT !.used = TRUE, !.done = FALSE, !.arg = [src |-> r, dst |-> None]]

ClaimEntry(t) ==
  LET i == scan[t].idx IN
  /\ AtEntry(t)
  /\ EntryFree(i)
  /\ shm' = [shm EXCEPT ![i] = ClaimedEntry(@, cur(t))]
  /\ slot' = [slot EXCEPT ![cur(t)] = i]
  /\ scan' = [scan EXCEPT ![t] = [idx |-> 0, size |-> 0]]
  /\ request_entry_idx_mutex' = None
  /\ stage' = [stage EXCEPT ![cur(t)] = "claimed"]
  /\ Goto(t, "enqueue")
  /\ UNCHANGED <<pos, poll, ptr, result, shm_resize_lock, client_shm_size,
                 crashed, queue, shm_len, mqueues, workers, resizer>>

(* request_q_enqueue, and the return of tinyfile_async. *)
Enqueue(t) ==
  /\ pc[t] = "enqueue"
  /\ \E k \in InsertionPoints(request_q, cur(t)) :
        request_q' = InsertAt(request_q, k, cur(t))
  /\ pos' = [pos EXCEPT ![t] = @ + 1]
  /\ stage' = [stage EXCEPT ![cur(t)] = "queued"]
  /\ Goto(t, AfterCall(t))
  /\ UNCHANGED <<scan, poll, ptr, slot, result, globals, stop_worker, wpc, wreq,
                 shared, mqueues, workers, resizer>>

(***************************************************************************)
(* Client threads: resize_shm, called by find_shared_entry at half size    *)
(***************************************************************************)
NewSize == client_shm_size + NumEntries

ResizeTooBig_never == FALSE
ResizeTooBig == NewSize * EntrySize > ShmMaxSize

(* At half size: no room to grow, or stop the request-queue worker. *)
ResizeCheck(t) ==
  /\ pc[t] = "scan"
  /\ AtHalf(t)
  /\ IF ResizeTooBig
     THEN /\ Goto(t, "entry")
          /\ UNCHANGED stop_worker
     ELSE /\ Goto(t, "rz_join")
          /\ stop_worker' = TRUE
  /\ UNCHANGED <<pos, scan, poll, ptr, slot, result, globals, request_q, wpc, wreq,
                 shared, mqueues, workers, resizer, stage>>

(* Every resize opens a descriptor and keeps the old one open. *)
DescriptorLeft == client_shm_size \div NumEntries <= FdLimit

(* Join the worker, take shm_resize_lock, open, truncate and map. *)
ResizeMap(t) ==
  /\ pc[t] = "rz_join"
  /\ wpc = "exited"
  /\ shm_resize_lock = None
  /\ DescriptorLeft
  /\ shm_resize_lock' = t
  /\ shm_len' = NewSize
  /\ Goto(t, "rz_send")
  /\ UNCHANGED <<pos, scan, poll, ptr, slot, result, request_entry_idx_mutex,
                 client_shm_size, crashed, queue, shm, mqueues, workers, resizer,
                 stage>>

(* shm_open (or mmap) fails: TINYFILE_RESIZE_SHM_ERROR, which the caller   *)
(* ignores, with the lock held and the worker stopped.                     *)
ResizeFail(t) ==
  /\ pc[t] = "rz_join"
  /\ wpc = "exited"
  /\ shm_resize_lock = None
  /\ ~DescriptorLeft
  /\ shm_resize_lock' = t
  /\ Goto(t, "entry")
  /\ UNCHANGED <<pos, scan, poll, ptr, slot, result, request_entry_idx_mutex,
                 client_shm_size, crashed, queue, shared, mqueues, workers,
                 resizer, stage>>

(* Tell the server, ahead of every queued request. *)
ResizeNotify(t) ==
  /\ pc[t] = "rz_send"
  /\ Len(send_q) < MqMaxMsg
  /\ \E k \in InsertionPoints(send_q, Resize) :
        send_q' = InsertAt(send_q, k, Resize)
  /\ Goto(t, "rz_recv")
  /\ UNCHANGED <<pos, scan, poll, ptr, slot, result, globals, queue, shared,
                 recv_q, workers, resizer, stage>>

(* The answer: switch to the new mapping and start a worker again; any     *)
(* other message is an error that only gives the lock back.                *)
ResizeReply(t) ==
  /\ pc[t] = "rz_recv"
  /\ recv_q # <<>>
  /\ recv_q' = Tail(recv_q)
  /\ IF Head(recv_q) = Resize
     THEN /\ client_shm_size' = NewSize
          /\ stop_worker' = FALSE
          /\ wpc' = "check"
     ELSE UNCHANGED <<client_shm_size, stop_worker, wpc>>
  /\ shm_resize_lock' = None
  /\ Goto(t, "entry")
  /\ UNCHANGED <<pos, scan, poll, ptr, slot, result, request_entry_idx_mutex,
                 crashed, request_q, wreq, shared, send_q, workers, resizer, stage>>

(***************************************************************************)
(* Client threads: tinyfile_async_join over is_request_done                *)
(***************************************************************************)
Issued == {r \in Requests : \E t \in Threads : \E i \in 1..(pos[t] - 1) : Program[t][i] = r}

(* What t still waits for: all it collects, its own future calls excepted. *)
Pending(t) ==
  {r \in Range(Collect[t]) :
     PriorityOK(r) /\ result[r] = None /\ (r \in Range(Program[t]) => r \in Issued)}

polled(t) == Collect[t][poll[t]]
NextPoll_stuck(t) == poll[t]
NextPoll(t) == (poll[t] % Len(Collect[t])) + 1

JoinReturn(t) ==
  /\ pc[t] = "wait"
  /\ Pending(t) = {}
  /\ Goto(t, IF pos[t] <= Len(Program[t]) THEN "call" ELSE "returned")
  /\ UNCHANGED <<pos, scan, poll, ptr, slot, result,
                 globals, queue, shared, mqueues, workers, resizer, stage>>

CanPoll(t) == polled(t) \in Pending(t) \cap Issued

(* Pass over a request whose result is there or whose call has not returned. *)
PollSkip(t) ==
  /\ pc[t] = "wait"
  /\ Pending(t) # {}
  /\ ~CanPoll(t)
  /\ poll' = [poll EXCEPT ![t] = NextPoll(t)]
  /\ UNCHANGED <<pc, pos, scan, ptr, slot, result,
                 globals, queue, shared, mqueues, workers, resizer, stage>>

(* Compute the entry's address under shm_resize_lock, and release it. *)
PollAddress(t) ==
  /\ pc[t] = "wait"
  /\ Pending(t) # {}
  /\ CanPoll(t)
  /\ shm_resize_lock = None
  /\ ptr' = [ptr EXCEPT ![t] = client_shm_size]
  /\ Goto(t, "deref")
  /\ UNCHANGED <<pos, scan, poll, slot, result,
                 globals, queue, shared, mqueues, workers, resizer, stage>>

Mapped(t) == ptr[t] = client_shm_size

PollLock(t) ==
  LET i == slot[polled(t)] IN
  /\ pc[t] = "deref"
  /\ Mapped(t)
  /\ ~shm[i].mutex
  /\ shm' = [shm EXCEPT ![i].mutex = TRUE]
  /\ Goto(t, "locked")
  /\ UNCHANGED <<pos, scan, poll, ptr, slot, result,
                 globals, queue, shm_len, mqueues, workers, resizer, stage>>

EntryDone_unchecked(i) == TRUE
EntryDone(i) == shm[i].done

FreedEntry_used(e) == [e EXCEPT !.done = FALSE, !.mutex = FALSE]
FreedEntry_locked(e) == [e EXCEPT !.used = FALSE, !.done = FALSE]
FreedEntry(e) == [e EXCEPT !.used = FALSE, !.done = FALSE, !.mutex = FALSE]

(* Copy the result out and free the entry if it is done; unlock. *)
PollEntry(t) ==
  LET r == polled(t)
      i == slot[r]
  IN
  /\ pc[t] = "locked"
  /\ Mapped(t)
  /\ IF EntryDone(i)
     THEN /\ result' = [result EXCEPT ![r] = shm[i].arg]
          /\ shm' = [shm EXCEPT ![i] = FreedEntry(@)]
          /\ stage' = [stage EXCEPT ![r] = "delivered"]
     ELSE /\ shm' = [shm EXCEPT ![i].mutex = FALSE]
          /\ UNCHANGED <<result, stage>>
  /\ ptr' = [ptr EXCEPT ![t] = 0]
  /\ poll' = [poll EXCEPT ![t] = NextPoll(t)]
  /\ Goto(t, "wait")
  /\ UNCHANGED <<pos, scan, slot,
                 globals, queue, shm_len, mqueues, workers, resizer>>

(* entry points into the mapping that resize_shm has unmapped: SIGSEGV. *)
PollFault(t) ==
  /\ pc[t] \in {"deref", "locked"}
  /\ ~Mapped(t)
  /\ crashed' = TRUE
  /\ UNCHANGED <<locals, request_entry_idx_mutex, shm_resize_lock, client_shm_size,
                 queue, shared, mqueues, workers, resizer, stage>>

(***************************************************************************)
(* Client: request_q_handler, the thread that feeds send_q                 *)
(***************************************************************************)
WorkerCheck ==
  /\ wpc = "check"
  /\ wpc' = IF stop_worker THEN "exited" ELSE "dequeue"
  /\ UNCHANGED <<locals, globals, request_q, stop_worker, wreq,
                 shared, mqueues, workers, resizer, stage>>

WorkerDequeue ==
  /\ wpc = "dequeue"
  /\ IF request_q = <<>>
     THEN /\ wpc' = "check"
          /\ UNCHANGED <<request_q, wreq, stage>>
     ELSE /\ wpc' = "send"
          /\ wreq' = Head(request_q)
          /\ request_q' = Tail(request_q)
          /\ stage' = [stage EXCEPT ![Head(request_q)] = "sending"]
  /\ UNCHANGED <<locals, globals, stop_worker, shared, mqueues, workers, resizer>>

WorkerSend ==
  /\ wpc = "send"
  /\ Len(send_q) < MqMaxMsg
  /\ \E k \in InsertionPoints(send_q, wreq) : send_q' = InsertAt(send_q, k, wreq)
  /\ stage' = [stage EXCEPT ![wreq] = "sent"]
  /\ wpc' = "check"
  /\ wreq' = None
  /\ UNCHANGED <<locals, globals, request_q, stop_worker, shared, recv_q, workers,
                 resizer>>

(***************************************************************************)
(* Server: register_client, service_worker and handle_request              *)
(*                                                                         *)
(* "receive": past the stop check, in mq_timedreceive.  The deadline lies  *)
(* in 1970, so it polls, and it may fail with a message there (EINVAL).    *)
(***************************************************************************)
(* open_shm takes the size the object has by then. *)
OpenedSize == shm_len

StartedWorkers == [w \in Workers |-> "receive"]

(* register_client, by the registry thread. *)
RegisterClient ==
  /\ server_shm_size = 0
  /\ server_shm_size' = OpenedSize
  /\ spc' = StartedWorkers
  /\ UNCHANGED <<locals, globals, queue, shared, mqueues, sreq, stop_client_threads,
                 num_requests_started, num_requests_completed, rpc, new_shm_size,
                 copy_pos, copy_buf, stage>>

StopCheck == IF stop_client_threads THEN "exited" ELSE "receive"

ReceiveNothing(w) ==
  /\ spc[w] = "receive"
  /\ stop_client_threads
  /\ spc' = [spc EXCEPT ![w] = "exited"]
  /\ UNCHANGED <<locals, globals, queue, shared, mqueues, sreq, stop_client_threads,
                 num_requests_started, num_requests_completed, resizer, stage>>

(* The resize command: start the resize thread, and go round the loop. *)
ReceiveResize(w) ==
  /\ spc[w] = "receive"
  /\ send_q # <<>>
  /\ Head(send_q) = Resize
  /\ send_q' = Tail(send_q)
  /\ rpc' = "start"
  /\ spc' = [spc EXCEPT ![w] = StopCheck]
  /\ UNCHANGED <<locals, globals, queue, shared, recv_q, sreq, stop_client_threads,
                 num_requests_started, num_requests_completed, server_shm_size,
                 new_shm_size, copy_pos, copy_buf, stage>>

ReceiveRequest(w) ==
  /\ spc[w] = "receive"
  /\ send_q # <<>>
  /\ Head(send_q) # Resize
  /\ send_q' = Tail(send_q)
  /\ sreq' = [sreq EXCEPT ![w] = Head(send_q)]
  /\ spc' = [spc EXCEPT ![w] = "received"]
  /\ stage' = [stage EXCEPT ![Head(send_q)] = "received"]
  /\ UNCHANGED <<locals, globals, queue, shared, recv_q, stop_client_threads,
                 num_requests_started, num_requests_completed, resizer>>

StartRequest(w) ==
  /\ spc[w] = "received"
  /\ num_requests_started' = num_requests_started + 1
  /\ spc' = [spc EXCEPT ![w] = "serve"]
  /\ UNCHANGED <<locals, globals, queue, shared, mqueues, sreq, stop_client_threads,
                 num_requests_completed, resizer, stage>>

(* compress_service fills in compressed_file_path in the shared entry once *)
(* the source was read, and only reports a failure to stderr.              *)
Readable(f) == f # None /\ Outcome[f] # "unreadable"

Compressed(a) == [a EXCEPT !.dst = IF Readable(a.src) THEN a.src ELSE a.dst]

Compress(w) ==
  /\ spc[w] = "serve"
  /\ shm' = [shm EXCEPT ![slot[sreq[w]]].arg = Compressed(@)]
  /\ spc' = [spc EXCEPT ![w] = "mark"]
  /\ UNCHANGED <<locals, globals, queue, shm_len, mqueues, sreq, stop_client_threads,
                 num_requests_started, num_requests_completed, resizer, stage>>

MarkDone(w) ==
  LET i == slot[sreq[w]] IN
  /\ spc[w] = "mark"
  /\ ~shm[i].mutex
  /\ shm' = [shm EXCEPT ![i].done = TRUE]
  /\ stage' = [stage EXCEPT ![sreq[w]] = "done"]
  /\ spc' = [spc EXCEPT ![w] = "count"]
  /\ UNCHANGED <<locals, globals, queue, shm_len, mqueues, sreq, stop_client_threads,
                 num_requests_started, num_requests_completed, resizer>>

CompleteRequest(w) ==
  /\ spc[w] = "count"
  /\ num_requests_completed' = num_requests_completed + 1
  /\ sreq' = [sreq EXCEPT ![w] = None]
  /\ spc' = [spc EXCEPT ![w] = StopCheck]
  /\ UNCHANGED <<locals, globals, queue, shared, mqueues, stop_client_threads,
                 num_requests_started, resizer, stage>>

(***************************************************************************)
(* Server: resize_shm, in a thread of its own                              *)
(***************************************************************************)

NewEntries_all == 0..(shm_len - 1)
NewEntries_next == (server_shm_size + 1)..(shm_len - 1)
NewEntries == server_shm_size..(shm_len - 1)

(* Map the grown object, initialise its new entries, stop the workers. *)
ServerResizeStart ==
  /\ rpc = "start"
  /\ new_shm_size' = shm_len
  /\ shm' = [i \in Slots |-> IF i \in NewEntries THEN FreshEntry ELSE shm[i]]
  /\ stop_client_threads' = TRUE
  /\ rpc' = "join"
  /\ UNCHANGED <<locals, globals, queue, shm_len, mqueues, spc, sreq,
                 num_requests_started, num_requests_completed, server_shm_size,
                 copy_pos, copy_buf, stage>>

WorkersJoined_skipped == TRUE
WorkersJoined == \A w \in Workers : spc[w] = "exited"

ServerResizeJoin ==
  /\ rpc = "join"
  /\ WorkersJoined
  /\ rpc' = "load"
  /\ UNCHANGED <<locals, globals, queue, shared, mqueues, workers, server_shm_size,
                 new_shm_size, copy_pos, copy_buf, stage>>

(***************************************************************************)
(* memcpy(new_shm_addr, client->shm_addr, ...): both map the same object,  *)
(* so each entry is loaded and stored back over itself, its data first and *)
(* its mutex after.  A client thread may write between load and store.     *)
(***************************************************************************)
copied == copy_pos \div 2

CopyLoad ==
  /\ rpc = "load"
  /\ IF copied < server_shm_size
     THEN /\ copy_buf' = shm[copied]
          /\ rpc' = "store"
     ELSE /\ rpc' = "respond"
          /\ UNCHANGED copy_buf
  /\ UNCHANGED <<locals, globals, queue, shared, mqueues, workers, server_shm_size,
                 new_shm_size, copy_pos, stage>>

CopyStore ==
  /\ rpc = "store"
  /\ shm' = [shm EXCEPT ![copied] = IF copy_pos % 2 = 0
                                    THEN [copy_buf EXCEPT !.mutex = shm[copied].mutex]
                                    ELSE [shm[copied] EXCEPT !.mutex = copy_buf.mutex]]
  /\ copy_pos' = copy_pos + 1
  /\ copy_buf' = FreshEntry
  /\ rpc' = "load"
  /\ UNCHANGED <<locals, globals, queue, shm_len, mqueues, workers, server_shm_size,
                 new_shm_size, stage>>

ServerResizeRespond ==
  /\ rpc = "respond"
  /\ Len(recv_q) < MqMaxMsg
  /\ recv_q' = Append(recv_q, Resize)
  /\ copy_pos' = 0
  /\ rpc' = "finish"
  /\ UNCHANGED <<locals, globals, queue, shared, send_q, workers, server_shm_size,
                 new_shm_size, copy_buf, stage>>

SwitchedSize_old == server_shm_size
SwitchedSize == new_shm_size

(* Switch to the new mapping and start_worker_threads. *)
ServerResizeFinish ==
  /\ rpc = "finish"
  /\ server_shm_size' = SwitchedSize
  /\ stop_client_threads' = FALSE
  /\ spc' = StartedWorkers
  /\ rpc' = "none"
  /\ new_shm_size' = 0
  /\ UNCHANGED <<locals, globals, queue, shared, mqueues, sreq,
                 num_requests_started, num_requests_completed, copy_pos, copy_buf,
                 stage>>

(***************************************************************************)
(* The specification                                                       *)
(***************************************************************************)

(* After tinyfile_init, whose registration waits in the registry queue. *)
Init ==
  /\ pc = [t \in Threads |-> IF Program[t] = <<>> THEN "wait" ELSE "call"]
  /\ pos = [t \in Threads |-> 1]
  /\ scan = [t \in Threads |-> [idx |-> 0, size |-> 0]]
  /\ poll = [t \in Threads |-> 1]
  /\ ptr = [t \in Threads |-> 0]
  /\ slot = [r \in Requests |-> None]
  /\ result = [r \in Requests |-> None]
  /\ request_entry_idx_mutex = None
  /\ shm_resize_lock = None
  /\ client_shm_size = NumEntries
  /\ crashed = FALSE
  /\ request_q = <<>>
  /\ stop_worker = FALSE
  /\ wpc = "check"
  /\ wreq = None
  /\ shm = [i \in Slots |-> IF i < NumEntries THEN FreshEntry ELSE ZeroEntry]
  /\ shm_len = NumEntries
  /\ send_q = <<>>
  /\ recv_q = <<>>
  /\ spc = [w \in Workers |-> "absent"]
  /\ sreq = [w \in Workers |-> None]
  /\ stop_client_threads = FALSE
  /\ num_requests_started = 0
  /\ num_requests_completed = 0
  /\ server_shm_size = 0
  /\ rpc = "none"
  /\ new_shm_size = 0
  /\ copy_pos = 0
  /\ copy_buf = FreshEntry
  /\ stage = [r \in Requests |-> "new"]

ThreadStep(t) ==
  \/ Prepare(t) \/ LockEntryIdx(t) \/ SkipEntry(t) \/ ClaimEntry(t) \/ Enqueue(t)
  \/ ResizeCheck(t) \/ ResizeMap(t) \/ ResizeFail(t) \/ ResizeNotify(t)
  \/ ResizeReply(t)
  \/ JoinReturn(t) \/ PollSkip(t) \/ PollAddress(t) \/ PollLock(t) \/ PollEntry(t)
  \/ PollFault(t)

QueueWorkerStep == WorkerCheck \/ WorkerDequeue \/ WorkerSend

ClientStep == ~crashed /\ ((\E t \in Threads : ThreadStep(t)) \/ QueueWorkerStep)

ServiceStep(w) ==
  \/ ReceiveNothing(w) \/ ReceiveResize(w) \/ ReceiveRequest(w)
  \/ StartRequest(w) \/ Compress(w) \/ MarkDone(w) \/ CompleteRequest(w)

ServerResizeStep ==
  \/ ServerResizeStart \/ ServerResizeJoin \/ CopyLoad \/ CopyStore
  \/ ServerResizeRespond \/ ServerResizeFinish

ServerStep ==
  RegisterClient \/ (\E w \in Workers : ServiceStep(w)) \/ ServerResizeStep

Next == ClientStep \/ ServerStep

Spec == Init /\ [][Next]_vars

(***************************************************************************)
(* Fairness.  Every thread keeps running (weak fairness).  An entry mutex  *)
(* is taken and released over and over by a polling or scanning thread;    *)
(* strong fairness says that whoever waits for it gets it in the end.      *)
(***************************************************************************)
Fairness ==
  /\ \A t \in Threads :
       /\ WF_vars(~crashed /\ ThreadStep(t))
       /\ SF_vars(~crashed /\ (SkipEntry(t) \/ ClaimEntry(t)))
  /\ WF_vars(~crashed /\ QueueWorkerStep)
  /\ WF_vars(RegisterClient)
  /\ \A w \in Workers : WF_vars(ServiceStep(w)) /\ SF_vars(MarkDone(w))
  /\ WF_vars(ServerResizeStep)

FairSpec == Spec /\ Fairness

(***************************************************************************)
(* Properties                                                              *)
(***************************************************************************)
ClientPcs == {"call", "lock", "scan", "entry", "rz_join", "rz_send", "rz_recv",
              "enqueue", "wait", "deref", "locked", "returned"}

Stages == {"new", "rejected", "claimed", "queued", "sending", "sent", "received",
           "done", "delivered"}

Entry == [used : BOOLEAN, done : BOOLEAN, mutex : BOOLEAN, pshared : BOOLEAN,
          arg : Arg]

LocalsOK ==
  /\ pc \in [Threads -> ClientPcs]
  /\ pos \in [Threads -> Nat \ {0}]
  /\ scan \in [Threads -> [idx : Nat, size : Nat]]
  /\ poll \in [Threads -> Nat \ {0}]
  /\ ptr \in [Threads -> Nat]
  /\ slot \in [Requests -> Slots \cup {None}]
  /\ result \in [Requests -> Arg \cup {None}]

GlobalsOK ==
  /\ request_entry_idx_mutex \in Threads \cup {None}
  /\ shm_resize_lock \in Threads \cup {None}
  /\ client_shm_size \in 1..MaxEntries
  /\ crashed \in BOOLEAN

QueueOK ==
  /\ request_q \in Seq(Requests)
  /\ stop_worker \in BOOLEAN
  /\ wpc \in {"check", "dequeue", "send", "exited"}
  /\ wreq \in Requests \cup {None}

SharedOK ==
  /\ shm \in [Slots -> Entry]
  /\ shm_len \in 1..MaxEntries

MqueuesOK ==
  /\ send_q \in Seq(Requests \cup {Resize}) /\ Len(send_q) <= MqMaxMsg
  /\ recv_q \in Seq({Resize}) /\ Len(recv_q) <= MqMaxMsg

WorkersOK ==
  /\ spc \in [Workers -> {"absent", "receive", "received", "serve", "mark", "count",
                          "exited"}]
  /\ sreq \in [Workers -> Requests \cup {None}]
  /\ stop_client_threads \in BOOLEAN
  /\ num_requests_started \in Nat
  /\ num_requests_completed \in Nat

ResizerOK ==
  /\ server_shm_size \in 0..MaxEntries
  /\ rpc \in {"none", "start", "join", "load", "store", "respond", "finish"}
  /\ new_shm_size \in 0..MaxEntries
  /\ copy_pos \in Nat
  /\ copy_buf \in Entry

(* Every variable has its type, every index into shared memory lies inside *)
(* the largest segment, and the two queues never exceed mq_maxmsg.         *)
TypeOK ==
  /\ LocalsOK /\ GlobalsOK /\ QueueOK /\ SharedOK /\ MqueuesOK /\ WorkersOK
  /\ ResizerOK
  /\ stage \in [Requests -> Stages]

(* r has an entry and its caller has not been given the result. *)
InFlight(r) == slot[r] # None /\ result[r] = None

(* Two requests in flight never share an entry of the shared memory:       *)
(* find_shared_entry hands out only entries that nobody waits on, whatever *)
(* the server, a resize or its memcpy do meanwhile.                        *)
EntryExclusive ==
  \A r, s \in Requests :
     InFlight(r) /\ InFlight(s) /\ slot[r] = slot[s] => r = s

(* What a call returns in *out is the outcome of compress_service on the   *)
(* file it asked for, never the argument or the result of another request. *)
OwnResult ==
  \A r \in Requests :
     result[r] # None => result[r] = Compressed([src |-> r, dst |-> None])

(* The places where a request waits to be handled. *)
Calling(t, r) == pc[t] = "enqueue" /\ cur(t) = r
Serving(w, r) == spc[w] \in {"received", "serve", "mark"} /\ sreq[w] = r

Upstream(r) ==
  {<<"call", t>> : t \in {t \in Threads : Calling(t, r)}}
    \cup {<<"request_q", i>> : i \in {i \in 1..Len(request_q) : request_q[i] = r}}
    \cup {<<"worker", wpc>> : x \in {x \in {r} : wpc = "send" /\ wreq = x}}
    \cup {<<"send_q", i>> : i \in {i \in 1..Len(send_q) : send_q[i] = r}}

Stations(r) ==
  Upstream(r) \cup {<<"service", w>> : w \in {w \in Workers : Serving(w, r)}}

(* A request is neither lost nor duplicated between the caller and the     *)
(* worker that marks it done, also when the request-queue worker and the   *)
(* service threads are stopped and restarted around a resize: until it is  *)
(* done it is in exactly one place, and from then on in none.              *)
Conserved ==
  \A r \in Requests :
     IF InFlight(r) /\ ~shm[slot[r]].done
     THEN \E x \in Stations(r) : Stations(r) = {x}
     ELSE Stations(r) = {}

Accounted(i) == shm[i].used => \E r \in Requests : InFlight(r) /\ slot[r] = i

(* An entry marked used belongs to a request whose result is still         *)
(* awaited: no entry is lost for good.                                     *)
EntryAccounted == \A i \in Slots : Accounted(i)

(* An entry that is used and belongs to nobody is lost for good; only the  *)
(* memcpy in the server's resize_shm ever makes one, when it stores what   *)
(* it loaded before is_request_done freed the entry.                       *)
LostOnlyByCopy ==
  [][(\E i \in Slots : Accounted(i) /\ ~Accounted(i)') => rpc = "store" /\ rpc' = "load"]_vars

(* A service thread only touches entries inside the server's mapping, even *)
(* though the client uses a grown segment as soon as it is told of it and  *)
(* the server switches its mapping after telling.                          *)
ServedWithinMapping ==
  \A w \in Workers, r \in Requests : Serving(w, r) => slot[r] < server_shm_size

(* Outside a resize both processes map the whole object. *)
SizesAgree ==
  server_shm_size # 0 /\ rpc = "none" /\ (\A t \in Threads : pc[t] \notin {"rz_send", "rz_recv"})
    => client_shm_size = shm_len /\ server_shm_size = shm_len

(* The memcpy of an entry over itself never undoes what happened to a      *)
(* request in flight: the data it is about to store is what is there.      *)
CopyHarmless ==
  \A r \in Requests :
     rpc = "store" /\ copy_pos % 2 = 0 /\ InFlight(r) /\ slot[r] = copied
       => [copy_buf EXCEPT !.mutex = shm[copied].mutex] = shm[copied]

(* The entry of a request in flight is freed, or stops being done, only in *)
(* the step that gives the caller the result.                              *)
OnlyDeliveryFrees ==
  [][\A r \in Requests :
       InFlight(r) /\ result'[r] = None
         => /\ shm'[slot[r]].used
            /\ shm[slot[r]].done => shm'[slot[r]].done]_vars

Received(r) == slot[r] # None /\ Upstream(r) = {}

(* The server receives the requests of one thread and one priority in the  *)
(* order in which the thread issued them.                                  *)
ProgramOrder ==
  \A t \in Threads : \A i, j \in DOMAIN Program[t] :
     LET r == Program[t][i]
         s == Program[t][j]
     IN  i < j /\ Priority[r] = Priority[s] /\ Received(s) => Received(r)

(* Every thread gets through its calls. *)
AllReturn == \A t \in Threads : <>(pc[t] = "returned")

(* Every tinyfile_async call comes back to its caller. *)
AsyncReturns == \A t \in Threads : pc[t] = "lock" ~> pc[t] \in {"call", "wait"}

(* No thread of the client touches the shared memory through a mapping     *)
(* that a resize has removed.                                              *)
NoStalePointer == ~crashed

(* A call that returns has been given a compressed file. *)
FailureReported ==
  \A r \in Requests : result[r] # None => Outcome[r] = "ok"

(* A request is only ever passed through an entry whose mutex was          *)
(* initialised for use by two processes.                                   *)
SharedMutexes ==
  \A r \in Requests : InFlight(r) => shm[slot[r]].pshared

(* Where the server registers the client before the segment first grows,   *)
(* its resize_shm initialises every entry that a request is passed through. *)
SharedIfRegisteredFirst ==
  [](shm_len > NumEntries => server_shm_size > 0) => []SharedMutexes
=============================================================================
