--------------------------- MODULE TinyfileProofs ---------------------------
(*****************************************************************************)
(* The theorems about Tinyfile, for any threads, programs, priorities, sizes *)
(* and numbers of service threads: the invariants of the runs follow from    *)
(* the inductive invariant IInv.                                             *)
(*****************************************************************************)
EXTENDS TinyfileRefinement, TinyfileInvariant

-----------------------------------------------------------------------------
(* Every step preserves the invariants of the shared memory: what the        *)
(* entries hold, how a resize is handed over, and the sizes.                 *)

(*****************************************************************************)
(* Entries and results                                                       *)
(*****************************************************************************)

(* Only these actions write slot, result, client_shm_size. *)
LEMMA RangeFrame ==
  [Next]_vars =>
    \/ UNCHANGED <<slot, result, client_shm_size>>
    \/ \E t \in Threads : ClaimEntry(t) \/ ResizeReply(t) \/ PollEntry(t)
  BY ZenonT(60) DEF Next, ClientStep, ThreadStep, QueueWorkerStep, ServerStep, ServiceStep,
     ServerResizeStep,
     Prepare, LockEntryIdx, SkipEntry, Enqueue, ResizeCheck, ResizeMap, ResizeFail,
     ResizeNotify, JoinReturn, PollSkip, PollAddress, PollLock, PollFault, WorkerCheck,
     WorkerDequeue, WorkerSend, ReceiveNothing, ReceiveResize, ReceiveRequest,
     StartRequest, Compress, MarkDone, CompleteRequest, ServerResizeStart,
     ServerResizeJoin, CopyLoad, CopyStore, ServerResizeRespond, ServerResizeFinish,
     RegisterClient, vars, locals, globals, queue, shared, mqueues, workers, resizer

(* Every step keeps the entries in flight inside the client's mapping. *)
LEMMA RangeStep ==
  ASSUME IInv, [Next]_vars
  PROVE  RangeInv'
<1>0. \A r \in Requests : InFlight(r) => slot[r] \in Nat
  <2>1. \A r \in Requests : InFlight(r) => slot[r] \in Slots
    BY Zenon DEF InFlight, IInv, TypeOK, LocalsOK
  <2> QED BY <2>1, Sizes, SMTT(60) DEF Slots
<1>1. CASE UNCHANGED <<slot, result, client_shm_size>>
  BY <1>1, Zenon DEF IInv, EntryInv, RangeInv, InFlight
<1>2. ASSUME NEW t \in Threads, ClaimEntry(t) PROVE RangeInv'
  <2> DEFINE r == cur(t)
             i == scan[t].idx
  <2>0. /\ Moved(r, "new", "claimed") /\ i \in Slots /\ i < client_shm_size
        /\ slot'[r] = i /\ slot'[r] # None /\ result'[r] = None
        /\ shm'[i].used /\ ~shm'[i].done /\ shm'[i].arg = Plain(r)
        /\ \A s \in Requests : s # r => Kept(s) /\ (InFlight(s) => slot[s] # i)
    BY <1>2, ClaimEffect, Zenon
  <2> HIDE DEF r, i
  <2>1. \A s \in Requests : s # r => (InFlight(s)' => InFlight(s)) /\ slot'[s] = slot[s]
    BY <2>0, KeptFacts, ZenonT(60) DEF Kept
  <2>2. client_shm_size' = client_shm_size
    BY <1>2 DEF ClaimEntry
  <2> QED BY <2>0, <2>1, <2>2, Zenon DEF IInv, EntryInv, RangeInv
<1>3. ASSUME NEW t \in Threads, PollEntry(t) PROVE RangeInv'
  <2>1. UNCHANGED <<slot, client_shm_size>>
    BY <1>3 DEF PollEntry, globals
  <2>2. \A s \in Requests : InFlight(s)' => InFlight(s)
    BY <1>3, PollEffect, KeptFacts, ZenonT(60) DEF InFlight
  <2> QED BY <2>1, <2>2, Zenon DEF IInv, EntryInv, RangeInv
<1>4. ASSUME NEW t \in Threads, ResizeReply(t) PROVE RangeInv'
  <2>1. UNCHANGED <<slot, result>> /\ client_shm_size' \in {client_shm_size, NewSize}
    BY <1>4 DEF ResizeReply
  <2>2. client_shm_size \in Nat /\ NewSize \in Nat /\ client_shm_size <= NewSize
    BY Sizes DEF NewSize, IInv, TypeOK, GlobalsOK
  <2>3. \A r \in Requests : InFlight(r)' => InFlight(r)
    BY <2>1, Zenon DEF InFlight
  <2>4. RangeInv
    BY Zenon DEF IInv, EntryInv
  <2> QED BY <1>0, <2>1, <2>2, <2>3, <2>4, SMTT(60) DEF RangeInv
<1> QED BY <1>1, <1>2, <1>3, <1>4, RangeFrame

(* Every step keeps the entries in flight in use. *)
LEMMA UsedStep ==
  ASSUME IInv, [Next]_vars
  PROVE  UsedInv'
<1>1. CASE \A r \in Requests : Kept(r)
  BY <1>1, KeptFacts, Zenon DEF IInv, EntryInv, UsedInv
<1>2. ASSUME NEW t \in Threads, ClaimEntry(t) PROVE UsedInv'
  <2> DEFINE r == cur(t)
             i == scan[t].idx
  <2>0. /\ Moved(r, "new", "claimed") /\ i \in Slots /\ i < client_shm_size
        /\ slot'[r] = i /\ slot'[r] # None /\ result'[r] = None
        /\ shm'[i].used /\ ~shm'[i].done /\ shm'[i].arg = Plain(r)
        /\ \A s \in Requests : s # r => Kept(s) /\ (InFlight(s) => slot[s] # i)
    BY <1>2, ClaimEffect, Zenon
  <2> HIDE DEF r, i
  <2> QED BY <2>0, KeptFacts, ZenonT(60) DEF Moved, IInv, EntryInv, UsedInv
<1>3. ASSUME NEW t \in Threads, PollEntry(t), ~Same("done") PROVE UsedInv'
  <2> DEFINE r == polled(t)
  <2>0. /\ Moved(r, "done", "delivered") /\ InFlight(r) /\ result'[r] # None
        /\ result'[r] = shm[slot[r]].arg /\ \A s \in Requests : s # r => Kept(s)
    BY <1>3, PollEffect, Zenon DEF Same
  <2> HIDE DEF r
  <2> QED BY <2>0, KeptFacts, Zenon DEF IInv, EntryInv, UsedInv, InFlight
<1>4. ASSUME NEW w \in Workers, Compress(w) PROVE UsedInv'
  <2> DEFINE r == sreq[w]
  <2>0. /\ r \in Requests /\ InFlight(r) /\ stage[r] = "received"
        /\ slot' = slot /\ UNCHANGED <<stage, result>>
        /\ shm'[slot[r]].used = shm[slot[r]].used
        /\ shm'[slot[r]].done = shm[slot[r]].done
        /\ shm'[slot[r]].arg = Compressed(shm[slot[r]].arg)
        /\ \A s \in Requests : s # r => Kept(s)
    BY <1>4, CompressEffect, Zenon
  <2> HIDE DEF r
  <2> QED BY <2>0, KeptFacts, Zenon DEF IInv, EntryInv, UsedInv
<1>5. ASSUME NEW w \in Workers, MarkDone(w) PROVE UsedInv'
  <2> DEFINE r == sreq[w]
  <2>0. /\ Moved(r, "received", "done") /\ InFlight(r)
        /\ slot' = slot /\ result'[r] = None
        /\ shm'[slot[r]].used = shm[slot[r]].used /\ shm'[slot[r]].done
        /\ shm'[slot[r]].arg = shm[slot[r]].arg
        /\ \A s \in Requests : s # r => Kept(s)
    BY <1>5, MarkEffect, ZenonT(60)
  <2> HIDE DEF r
  <2> QED BY <2>0, KeptFacts, Zenon DEF IInv, EntryInv, UsedInv
<1> QED BY <1>1, <1>2, <1>3, <1>4, <1>5, EntryFrame, Zenon

(* Every step keeps done in line with the stage of the request. *)
LEMMA DoneStep ==
  ASSUME IInv, [Next]_vars
  PROVE  DoneInv'
<1>1. CASE (\A r \in Requests : Kept(r)) /\ Same("done")
  BY <1>1, KeptFacts, ZenonT(60) DEF IInv, EntryInv, DoneInv, Same
<1>2. ASSUME NEW t \in Threads, ClaimEntry(t) PROVE DoneInv'
  <2> DEFINE r == cur(t)
             i == scan[t].idx
  <2>0. /\ Moved(r, "new", "claimed") /\ i \in Slots /\ i < client_shm_size
        /\ slot'[r] = i /\ slot'[r] # None /\ result'[r] = None
        /\ shm'[i].used /\ ~shm'[i].done /\ shm'[i].arg = Plain(r)
        /\ \A s \in Requests : s # r => Kept(s) /\ (InFlight(s) => slot[s] # i)
    BY <1>2, ClaimEffect, Zenon
  <2> HIDE DEF r, i
  <2> QED BY <2>0, KeptFacts, ZenonT(60) DEF Moved, IInv, TypeOK, EntryInv, DoneInv
<1>3. ASSUME NEW t \in Threads, PollEntry(t), ~Same("done") PROVE DoneInv'
  <2> DEFINE r == polled(t)
  <2>0. /\ Moved(r, "done", "delivered") /\ InFlight(r) /\ result'[r] # None
        /\ result'[r] = shm[slot[r]].arg /\ \A s \in Requests : s # r => Kept(s)
    BY <1>3, PollEffect, Zenon DEF Same
  <2> HIDE DEF r
  <2> QED BY <2>0, KeptFacts, ZenonT(60) DEF Moved, IInv, TypeOK, EntryInv, DoneInv, InFlight
<1>4. ASSUME NEW w \in Workers, Compress(w) PROVE DoneInv'
  <2> DEFINE r == sreq[w]
  <2>0. /\ r \in Requests /\ InFlight(r) /\ stage[r] = "received"
        /\ slot' = slot /\ UNCHANGED <<stage, result>>
        /\ shm'[slot[r]].used = shm[slot[r]].used
        /\ shm'[slot[r]].done = shm[slot[r]].done
        /\ shm'[slot[r]].arg = Compressed(shm[slot[r]].arg)
        /\ \A s \in Requests : s # r => Kept(s)
    BY <1>4, CompressEffect, Zenon
  <2> HIDE DEF r
  <2> QED BY <2>0, KeptFacts, Zenon DEF IInv, EntryInv, DoneInv
<1>5. ASSUME NEW w \in Workers, MarkDone(w) PROVE DoneInv'
  <2> DEFINE r == sreq[w]
  <2>0. /\ Moved(r, "received", "done") /\ InFlight(r)
        /\ slot' = slot /\ result'[r] = None
        /\ shm'[slot[r]].used = shm[slot[r]].used /\ shm'[slot[r]].done
        /\ shm'[slot[r]].arg = shm[slot[r]].arg
        /\ \A s \in Requests : s # r => Kept(s)
    BY <1>5, MarkEffect, Zenon
  <2> HIDE DEF r
  <2> QED BY <2>0, KeptFacts, ZenonT(60) DEF Moved, IInv, TypeOK, EntryInv, DoneInv
<1>6. ASSUME NEW t \in Threads, PollEntry(t), \A r \in Requests : Kept(r) PROVE Same("done")
  BY <1>6, PollEffect, Zenon DEF Kept, Same, Moved, InFlight
<1> QED BY <1>1, <1>2, <1>3, <1>4, <1>5, <1>6, SameStage, EntryFrame, Zenon

(* Every step keeps the argument of a request in its entry, with the       *)
(* compressed path in it when the request is marked done.                  *)
LEMMA ArgStep ==
  ASSUME IInv, [Next]_vars
  PROVE  ArgInv'
<1>1. ASSUME NEW r \in Requests, Kept(r), InFlight(r), stage'[r] = "done" => stage[r] = "done",
             \A v \in Workers : spc'[v] = "mark" => spc[v] = "mark" /\ sreq'[v] = sreq[v]
      PROVE  /\ shm'[slot'[r]].arg \in {Plain(r), Compressed(Plain(r))}
             /\ stage'[r] = "done" => shm'[slot'[r]].arg = Compressed(Plain(r))
             /\ \A v \in Workers : spc'[v] = "mark" /\ sreq'[v] = r
                  => shm'[slot'[r]].arg = Compressed(Plain(r))
  BY <1>1, KeptFacts DEF IInv, EntryInv, ArgInv
<1>2. CASE /\ (\A r \in Requests : Kept(r)) /\ Same("done")
           /\ \A v \in Workers : spc'[v] = "mark" => spc[v] = "mark" /\ sreq'[v] = sreq[v]
  BY <1>1, <1>2, KeptFacts, Zenon DEF Same, ArgInv
<1>3. ASSUME NEW t \in Threads, ClaimEntry(t) PROVE ArgInv'
  <2> DEFINE r == cur(t)
             i == scan[t].idx
  <2>0. /\ Moved(r, "new", "claimed") /\ i \in Slots /\ i < client_shm_size
        /\ slot'[r] = i /\ slot'[r] # None /\ result'[r] = None
        /\ shm'[i].used /\ ~shm'[i].done /\ shm'[i].arg = Plain(r)
        /\ \A s \in Requests : s # r => Kept(s) /\ (InFlight(s) => slot[s] # i)
    BY <1>3, ClaimEffect, Zenon
  <2> HIDE DEF r, i
  <2>1. \A v \in Workers : spc'[v] = "mark" => spc[v] = "mark" /\ sreq'[v] = sreq[v]
    BY <1>3, Zenon DEF ClaimEntry, workers
  <2>2. \A s \in Requests : s # r => stage'[s] = stage[s]
    BY <2>0, Zenon DEF Moved, IInv, TypeOK
  <2>3. stage'[r] = "claimed" /\ r \in Requests
    BY <2>0, Zenon DEF Moved, IInv, TypeOK
  <2>4. \A v \in Workers : ~(spc'[v] = "mark" /\ sreq'[v] = r)
    BY <2>0, <2>1, ServedFacts, ZenonT(60) DEF Moved, Busy
  <2>5. \A s \in Requests : s # r /\ InFlight(s)' => InFlight(s)
    BY <2>0, KeptFacts, Zenon
  <2> QED BY <1>1, <2>0, <2>1, <2>2, <2>3, <2>4, <2>5, ZenonT(60) DEF ArgInv
<1>4. ASSUME NEW t \in Threads, PollEntry(t), ~Same("done") PROVE ArgInv'
  <2> DEFINE r == polled(t)
  <2>0. /\ Moved(r, "done", "delivered") /\ result'[r] # None
        /\ \A s \in Requests : s # r => Kept(s)
    BY <1>4, PollEffect, ZenonT(60) DEF Same
  <2> HIDE DEF r
  <2>1. \A v \in Workers : spc'[v] = "mark" => spc[v] = "mark" /\ sreq'[v] = sreq[v]
    BY <1>4 DEF PollEntry, workers
  <2>2. \A s \in Requests : s # r => stage'[s] = stage[s]
    BY <2>0, Zenon DEF Moved, IInv, TypeOK
  <2>3. \A s \in Requests : InFlight(s)' => InFlight(s) /\ s # r
    BY <2>0, KeptFacts, Zenon DEF InFlight
  <2> QED BY <1>1, <2>0, <2>1, <2>2, <2>3, Zenon DEF ArgInv
<1>5. ASSUME NEW w \in Workers, Compress(w) PROVE ArgInv'
  <2> DEFINE r == sreq[w]
  <2>0. /\ r \in Requests /\ InFlight(r) /\ stage[r] = "received"
        /\ slot' = slot /\ UNCHANGED <<stage, result>>
        /\ shm'[slot[r]].used = shm[slot[r]].used
        /\ shm'[slot[r]].done = shm[slot[r]].done
        /\ shm'[slot[r]].arg = Compressed(shm[slot[r]].arg)
        /\ \A s \in Requests : s # r => Kept(s)
    BY <1>5, CompressEffect, Zenon
  <2> HIDE DEF r
  <2>1. shm'[slot'[r]].arg = Compressed(Plain(r))
    BY <2>0, Idempotent, ZenonT(60) DEF IInv, EntryInv, ArgInv
  <2>2. \A v \in Workers : v # w => spc'[v] = spc[v] /\ sreq'[v] = sreq[v]
    BY <1>5, Zenon DEF Compress, IInv, TypeOK, WorkersOK
  <2>3. sreq'[w] = r
    BY <1>5, Zenon DEF Compress, r
  <2>4. ASSUME NEW s \in Requests, s # r, InFlight(s)'
        PROVE  /\ shm'[slot'[s]].arg \in {Plain(s), Compressed(Plain(s))}
               /\ stage'[s] = "done" => shm'[slot'[s]].arg = Compressed(Plain(s))
               /\ \A v \in Workers : spc'[v] = "mark" /\ sreq'[v] = s
                    => shm'[slot'[s]].arg = Compressed(Plain(s))
    BY <2>0, <2>2, <2>3, <2>4, KeptFacts, SMTT(60) DEF IInv, EntryInv, ArgInv
  <2> QED BY <2>0, <2>1, <2>4, ZenonT(60) DEF ArgInv
<1>6. ASSUME NEW w \in Workers, MarkDone(w) PROVE ArgInv'
  <2> DEFINE r == sreq[w]
  <2>0. /\ Moved(r, "received", "done") /\ InFlight(r)
        /\ slot' = slot /\ result'[r] = None
        /\ shm'[slot[r]].used = shm[slot[r]].used /\ shm'[slot[r]].done
        /\ shm'[slot[r]].arg = shm[slot[r]].arg
        /\ \A s \in Requests : s # r => Kept(s)
    BY <1>6, MarkEffect, Zenon
  <2> HIDE DEF r
  <2>1. \A v \in Workers : spc'[v] = "mark" => spc[v] = "mark" /\ sreq'[v] = sreq[v]
    BY <1>6, Zenon DEF MarkDone, IInv, TypeOK, WorkersOK
  <2>2. \A s \in Requests : s # r => stage'[s] = stage[s]
    BY <2>0, Zenon DEF Moved, IInv, TypeOK
  <2>3. shm[slot[r]].arg = Compressed(Plain(r))
    BY <1>6, <2>0, Zenon DEF MarkDone, r, Moved, IInv, EntryInv, ArgInv
  <2>4. \A s \in Requests : s # r /\ InFlight(s)' => InFlight(s)
    BY <2>0, KeptFacts, ZenonT(60)
  <2> QED BY <1>1, <2>0, <2>1, <2>2, <2>3, <2>4, ZenonT(60) DEF ArgInv
<1>7. ASSUME NEW t \in Threads, PollEntry(t), \A r \in Requests : Kept(r) PROVE Same("done")
  BY <1>7, PollEffect, Zenon DEF Kept, Same, Moved, InFlight
<1> QED BY <1>2, <1>3, <1>4, <1>5, <1>6, <1>7, SameStage, EntryFrame, MarkFrame, Zenon

(* Every step keeps the entries of requests in flight apart. *)
LEMMA ExclusiveStep ==
  ASSUME IInv, [Next]_vars
  PROVE  EntryExclusive'
<1>1. ASSUME UNCHANGED slot, \A s \in Requests : InFlight(s)' => InFlight(s)
      PROVE  EntryExclusive'
  BY <1>1, Zenon DEF IInv, EntryExclusive
<1>2. ASSUME NEW t \in Threads, ClaimEntry(t) PROVE EntryExclusive'
  <2> DEFINE r == cur(t)
             i == scan[t].idx
  <2>0. /\ Moved(r, "new", "claimed") /\ i \in Slots /\ i < client_shm_size
        /\ slot'[r] = i /\ slot'[r] # None /\ result'[r] = None
        /\ shm'[i].used /\ ~shm'[i].done /\ shm'[i].arg = Plain(r)
        /\ \A s \in Requests : s # r => Kept(s) /\ (InFlight(s) => slot[s] # i)
    BY <1>2, ClaimEffect, Zenon
  <2> HIDE DEF r, i
  <2>1. \A s \in Requests : s # r =>
          (InFlight(s)' => InFlight(s)) /\ slot'[s] = slot[s] /\ (InFlight(s) => slot[s] # i)
    BY <2>0, KeptFacts, Zenon DEF Kept
  <2> QED BY <2>0, <2>1, ZenonT(60) DEF IInv, EntryExclusive
<1>3. ASSUME NEW t \in Threads, PollEntry(t) PROVE EntryExclusive'
  <2>1. UNCHANGED slot
    BY <1>3, Zenon DEF PollEntry
  <2>2. \A s \in Requests : InFlight(s)' => InFlight(s)
    BY <1>3, PollEffect, KeptFacts, Zenon DEF InFlight
  <2> QED BY <1>1, <2>1, <2>2, Zenon
<1>4. CASE UNCHANGED <<slot, result>>
  BY <1>1, <1>4, ZenonT(60) DEF InFlight
<1> QED BY <1>2, <1>3, <1>4, SlotFrame, Zenon

(* A delivery gives a caller the outcome of its own request. *)
LEMMA OwnResultStep ==
  ASSUME IInv, [Next]_vars
  PROVE  OwnResult'
<1>1. CASE \A s \in Requests : result'[s] = result[s]
  BY <1>1, Zenon DEF IInv, OwnResult
<1>2. ASSUME NEW t \in Threads, ClaimEntry(t) PROVE \A s \in Requests : result'[s] = result[s]
  BY <1>2 DEF ClaimEntry
<1>3. ASSUME NEW t \in Threads, PollEntry(t) PROVE OwnResult'
  <2>1. CASE \A s \in Requests : Kept(s)
    BY <1>1, <2>1, ZenonT(60) DEF Kept
  <2>2. CASE ~\A s \in Requests : Kept(s)
    <3> DEFINE r == polled(t)
    <3>1. /\ Moved(r, "done", "delivered") /\ InFlight(r)
          /\ result'[r] = shm[slot[r]].arg /\ \A s \in Requests : s # r => Kept(s)
      BY <1>3, <2>2, PollEffect, ZenonT(60)
    <3> HIDE DEF r
    <3>2. result'[r] = Compressed(Plain(r))
      BY <3>1, Zenon DEF Moved, IInv, EntryInv, ArgInv
    <3>3. \A s \in Requests : s # r => result'[s] = result[s]
      BY <3>1, ZenonT(60) DEF Kept
    <3> QED BY <3>2, <3>3, ZenonT(60) DEF IInv, OwnResult, Plain
  <2> QED BY <2>1, <2>2
<1>4. CASE UNCHANGED <<slot, result>>
  BY <1>1, <1>4, ZenonT(60)
<1> QED BY <1>1, <1>2, <1>3, <1>4, SlotFrame, Zenon

(* Only these actions write rpc, copy_pos, copy_buf. *)
LEMMA CopyFrame ==
  [Next]_vars =>
    \/ UNCHANGED <<rpc, copy_pos, copy_buf>>
    \/ \E w \in Workers : ReceiveResize(w)
    \/ ServerResizeStart \/ ServerResizeJoin \/ CopyLoad \/ CopyStore
    \/ ServerResizeRespond \/ ServerResizeFinish
  BY ZenonT(60) DEF Next, ClientStep, ThreadStep, QueueWorkerStep, ServerStep, ServiceStep,
     ServerResizeStep,
     Prepare, LockEntryIdx, SkipEntry, ClaimEntry, Enqueue, ResizeCheck, ResizeMap,
     ResizeFail, ResizeNotify, ResizeReply, JoinReturn, PollSkip, PollAddress, PollLock,
     PollEntry, PollFault, WorkerCheck, WorkerDequeue, WorkerSend, ReceiveNothing,
     ReceiveRequest, StartRequest, Compress, MarkDone, CompleteRequest, RegisterClient,
     vars, locals, globals, queue, shared, mqueues, workers, resizer

(* Between the load and the store of the memcpy nothing but the mutex of   *)
(* an entry in flight changes: the service threads are gone, and no thread *)
(* claims an entry while another waits for the answer.                     *)
LEMMA CopyHarmlessStep ==
  ASSUME IInv, [Next]_vars
  PROVE  CopyHarmless'
<1>1. CASE rpc' # "store"
  BY <1>1 DEF CopyHarmless
<1>2. CASE UNCHANGED <<rpc, copy_pos, copy_buf>> /\ rpc = "store"
  <2>1. \A w \in Workers : ~Compress(w) /\ ~MarkDone(w)
    BY <1>2, Zenon DEF Compress, MarkDone, IInv, JoinedInv, Copying
  <2>2. \A t \in Threads : ~ClaimEntry(t)
    BY <1>2, ZenonT(60) DEF ClaimEntry, AtEntry, IInv, ControlInv, LockInv, TokenInv, Answering,
       Critical
  <2>3. \A r \in Requests : InFlight(r)' => InFlight(r) /\ Kept(r)
    <3>1. CASE \A r \in Requests : Kept(r)
      BY <3>1, KeptFacts
    <3>2. ASSUME NEW t \in Threads, PollEntry(t)
          PROVE  \A r \in Requests : InFlight(r)' => InFlight(r) /\ Kept(r)
      BY <3>2, PollEffect, KeptFacts, ZenonT(60) DEF InFlight
    <3> QED BY <2>1, <2>2, <3>1, <3>2, EntryFrame, Zenon
  <2>4. ASSUME NEW r \in Requests, copy_pos % 2 = 0, InFlight(r)', slot'[r] = copied
        PROVE  [copy_buf EXCEPT !.mutex = shm'[copied].mutex] = shm'[copied]
    <3>1. /\ [copy_buf EXCEPT !.mutex = shm[copied].mutex] = shm[copied]
          /\ shm'[copied] = [shm[copied] EXCEPT !.mutex = shm'[copied].mutex]
      BY <1>2, <2>3, <2>4, ZenonT(60) DEF Kept, IInv, CopyHarmless
    <3>2. shm[copied] \in Entry /\ copy_buf \in Entry
      BY <2>3, <2>4, ZenonT(60) DEF Kept, InFlight, IInv, TypeOK, LocalsOK, SharedOK, ResizerOK
    <3> QED BY <3>1, <3>2 DEF Entry
  <2> QED BY <1>2, <2>4 DEF CopyHarmless, copied
<1>3. ASSUME CopyLoad, rpc' = "store" PROVE CopyHarmless'
  <2>1. UNCHANGED <<shm, slot, result, copy_pos>> /\ copy_buf' = shm[copied]
    BY <1>3, SMTT(60) DEF CopyLoad, shared, locals
  <2>2. \A r \in Requests : InFlight(r) => slot[r] \in Slots
    BY Zenon DEF InFlight, IInv, TypeOK, LocalsOK
  <2>3. \A i \in Slots : [shm[i] EXCEPT !.mutex = shm[i].mutex] = shm[i]
    BY ZenonT(60) DEF IInv, TypeOK, SharedOK, Entry
  <2> QED BY <2>1, <2>2, <2>3, Zenon DEF CopyHarmless, InFlight, copied
<1> QED
  BY <1>1, <1>2, <1>3, CopyFrame DEF ReceiveResize, ServerResizeStart,
     ServerResizeJoin,
           CopyStore, ServerResizeRespond, ServerResizeFinish

(*****************************************************************************)
(* The resize hand-over and the sizes                                        *)
(*****************************************************************************)

(* Only these actions write mqueues, rpc. *)
LEMMA TokenFrame ==
  [Next]_vars =>
    \/ UNCHANGED <<mqueues, rpc>>
    \/ \E t \in Threads : ResizeNotify(t) \/ ResizeReply(t)
    \/ \E w \in Workers : ReceiveResize(w) \/ ReceiveRequest(w)
    \/ WorkerSend \/ ServerResizeStart \/ ServerResizeJoin \/ CopyLoad
    \/ CopyStore \/ ServerResizeRespond \/ ServerResizeFinish
  BY ZenonT(60) DEF Next, ClientStep, ThreadStep, QueueWorkerStep, ServerStep, ServiceStep,
     ServerResizeStep,
     Prepare, LockEntryIdx, SkipEntry, ClaimEntry, Enqueue, ResizeCheck, ResizeMap,
     ResizeFail, JoinReturn, PollSkip, PollAddress, PollLock, PollEntry, PollFault,
     WorkerCheck, WorkerDequeue, ReceiveNothing, StartRequest, Compress, MarkDone,
     CompleteRequest, RegisterClient, vars, locals, globals, queue, shared, mqueues,
     workers, resizer

(* Every step keeps the resize hand-over a single token. *)
LEMMA TokenStep ==
  ASSUME IInv, [Next]_vars
  PROVE  TokenInv'
<1> DEFINE Waiting == \E t \in Threads : pc[t] = "rz_recv"
           Msgs == Requests \cup {Resize}
<1>0. send_q \in Seq(Msgs) /\ recv_q \in Seq({Resize}) /\ Resize \notin Requests
  BY CallAssumption, Zenon DEF IInv, TypeOK, MqueuesOK, Resize
<1>1. ASSUME UNCHANGED recv_q, rpc' \in Answering => rpc \in Answering, ResizeSent' => ResizeSent,
             \A t \in Threads : ~ResizeReply(t)
      PROVE  TokenInv'
  BY <1>1, PcFacts, ZenonT(60) DEF IInv, TokenInv
<1>3. ASSUME NEW t \in Threads, ResizeNotify(t) PROVE TokenInv'
  <2>1. pc[t] = "rz_send" /\ pc'[t] = "rz_recv" /\ UNCHANGED <<rpc, recv_q>>
    BY <1>3, Zenon DEF ResizeNotify, Goto, resizer, IInv, TypeOK, LocalsOK
  <2>2. rpc \notin Answering /\ recv_q = <<>>
    BY <2>1, OneCritical, Zenon DEF IInv, TokenInv, Critical
  <2> QED BY <2>1, <2>2, ZenonT(60) DEF IInv, TokenInv
<1>4. ASSUME NEW t \in Threads, ResizeReply(t) PROVE TokenInv'
  <2>1. /\ recv_q # <<>> /\ recv_q' = Tail(recv_q) /\ UNCHANGED <<rpc, send_q>>
    BY <1>4 DEF ResizeReply, resizer
  <2>2. recv_q' = <<>>
    <3>1. Tail(recv_q) \in Seq({Resize}) /\ Len(Tail(recv_q)) = Len(recv_q) - 1
      BY <1>0, <2>1, HeadFacts, Zenon
    <3>2. Len(recv_q) <= 1 /\ Len(recv_q) \in Nat /\ Len(Tail(recv_q)) \in Nat
      BY <1>0, <3>1, SMTT(60) DEF IInv, TokenInv
    <3>3. Len(Tail(recv_q)) = 0
      BY <3>1, <3>2, SMTT(60)
    <3> QED BY <2>1, <3>1, <3>3, SMTT(60)
  <2>3. Len(recv_q') = 0
    BY <2>2, SMTT(60)
  <2> QED BY <2>1, <2>2, <2>3, SMTT(60) DEF IInv, TokenInv, ResizeSent
<1>5. ASSUME WorkerSend PROVE TokenInv'
  <2>1. PICK k \in InsertionPoints(send_q, wreq) : send_q' = InsertAt(send_q, k, wreq)
    BY <1>5 DEF WorkerSend
  <2>2. wreq \in Requests
    BY <1>5, SendMoves, SMTT(60) DEF Moved
  <2>3. ResizeSent' => ResizeSent
    BY <1>0, <2>1, <2>2, InsertionFacts, SMTT(60) DEF ResizeSent
  <2>4. UNCHANGED <<rpc, recv_q, pc>>
    BY <1>5, Zenon DEF WorkerSend, resizer, locals
  <2> QED BY <2>3, <2>4, Zenon DEF IInv, TokenInv
<1>6. ASSUME NEW w \in Workers, ReceiveResize(w) PROVE TokenInv'
  <2>1. /\ send_q # <<>> /\ Head(send_q) = Resize /\ send_q' = Tail(send_q)
        /\ rpc' = "start" /\ UNCHANGED <<recv_q, pc>>
    BY <1>6, SMTT(60) DEF ReceiveResize, locals
  <2>2. ResizeSent /\ ~ResizeSent'
    BY <1>0, <2>1, HeadFacts, Zenon DEF ResizeSent, IInv, PlaceInv, SentInv
  <2> QED BY <2>1, <2>2, Zenon DEF IInv, TokenInv
<1>7. ASSUME NEW w \in Workers, ReceiveRequest(w) PROVE TokenInv'
  <2>1. send_q # <<>> /\ send_q' = Tail(send_q) /\ UNCHANGED <<recv_q, pc, rpc>>
    BY <1>7, SMTT(60) DEF ReceiveRequest, locals, resizer
  <2>2. ResizeSent' => ResizeSent
    BY <1>0, <2>1, HeadFacts, Zenon DEF ResizeSent
  <2> QED BY <2>1, <2>2, Zenon DEF IInv, TokenInv
<1>8. CASE ServerResizeStart \/ ServerResizeJoin \/ CopyLoad \/ CopyStore \/ ServerResizeFinish
  <2>1. UNCHANGED <<send_q, recv_q, pc>> /\ (rpc' \in Answering => rpc \in Answering)
    BY <1>8, SMTT(60) DEF ServerResizeStart, ServerResizeJoin, CopyLoad, CopyStore,
       ServerResizeFinish,
       Answering, mqueues, locals
  <2> QED BY <2>1, Zenon DEF IInv, TokenInv, ResizeSent
<1>9. CASE ServerResizeRespond
  <2>1. /\ rpc \in Answering /\ rpc' \notin Answering
        /\ recv_q' = Append(recv_q, Resize) /\ UNCHANGED <<send_q, pc>>
    BY <1>9, SMTT(60) DEF ServerResizeRespond, Answering, locals
  <2>2. recv_q = <<>> /\ ~ResizeSent
    BY <2>1, Zenon DEF IInv, TokenInv
  <2>3. Len(recv_q') = 1
    BY <2>1, <2>2, SMTT(60)
  <2> QED BY <2>1, <2>2, <2>3, SMTT(60) DEF IInv, TokenInv, ResizeSent
<1>10. CASE UNCHANGED <<rpc, send_q, recv_q>>
  BY <1>1, <1>4, <1>10, ZenonT(60) DEF ResizeSent
<1> QED BY <1>3, <1>4, <1>5, <1>6, <1>7, <1>8, <1>9, <1>10, TokenFrame DEF mqueues

(* Only these actions write wpc. *)
LEMMA WpcFrame ==
  [Next]_vars =>
    \/ UNCHANGED wpc
    \/ \E t \in Threads : ResizeReply(t)
    \/ WorkerCheck \/ WorkerDequeue \/ WorkerSend
  BY ZenonT(60) DEF Next, ClientStep, ThreadStep, QueueWorkerStep, ServerStep, ServiceStep,
     ServerResizeStep,
     Prepare, LockEntryIdx, SkipEntry, ClaimEntry, Enqueue, ResizeCheck, ResizeMap,
     ResizeFail, ResizeNotify, JoinReturn, PollSkip, PollAddress, PollLock, PollEntry,
     PollFault, ReceiveNothing, ReceiveResize, ReceiveRequest, StartRequest, Compress,
     MarkDone, CompleteRequest, ServerResizeStart, ServerResizeJoin, CopyLoad,
     CopyStore, ServerResizeRespond, ServerResizeFinish, RegisterClient, vars, locals,
     globals, queue, shared, mqueues, workers, resizer

(* The request-queue worker stays away until the answer comes. *)
LEMMA StoppedStep ==
  ASSUME IInv, [Next]_vars
  PROVE  StoppedInv'
<1> SUFFICES ASSUME NEW u \in Threads, pc'[u] \in {"rz_send", "rz_recv"} PROVE wpc' = "exited"
  BY DEF StoppedInv
<1>1. CASE pc[u] \in {"rz_send", "rz_recv"}
  <2>1. wpc = "exited"
    BY <1>1, Zenon DEF IInv, StoppedInv
  <2>2. ASSUME NEW t \in Threads, ResizeReply(t) PROVE wpc' = wpc
    <3>1. pc[t] = "rz_recv" /\ pc'[t] = "entry"
      BY <2>2, Zenon DEF ResizeReply, Goto, IInv, TypeOK, LocalsOK
    <3> QED BY <1>1, <3>1, OneCritical, Zenon DEF Critical
  <2> QED BY <2>1, <2>2, WpcFrame DEF WorkerCheck, WorkerDequeue, WorkerSend
<1>2. CASE ResizeMap(u)
  BY <1>2, Zenon DEF ResizeMap, queue
<1>3. CASE ResizeNotify(u)
  BY <1>3, ZenonT(60) DEF ResizeNotify, IInv, StoppedInv, queue
<1> QED BY <1>1, <1>2, <1>3, PcFacts, Zenon

(* Only these actions write spc, server_shm_size, rpc. *)
LEMMA ServerFrame ==
  [Next]_vars =>
    \/ UNCHANGED <<spc, server_shm_size, rpc>>
    \/ \E w \in Workers :
          \/ ReceiveNothing(w) \/ ReceiveResize(w) \/ ReceiveRequest(w)
          \/ StartRequest(w) \/ Compress(w) \/ MarkDone(w) \/ CompleteRequest(w)
    \/ RegisterClient \/ ServerResizeStart \/ ServerResizeJoin \/ CopyLoad
    \/ CopyStore \/ ServerResizeRespond \/ ServerResizeFinish
  BY ZenonT(60) DEF Next, ClientStep, ThreadStep, QueueWorkerStep, ServerStep, ServiceStep,
     ServerResizeStep,
     Prepare, LockEntryIdx, SkipEntry, ClaimEntry, Enqueue, ResizeCheck, ResizeMap,
     ResizeFail, ResizeNotify, ResizeReply, JoinReturn, PollSkip, PollAddress, PollLock,
     PollEntry, PollFault, WorkerCheck, WorkerDequeue, WorkerSend, vars, locals,
     globals, queue, shared, mqueues, workers, resizer

(* The service threads stay away while the segment is copied. *)
LEMMA JoinedStep ==
  ASSUME IInv, [Next]_vars
  PROVE  JoinedInv'
<1>1. CASE UNCHANGED <<spc, rpc, server_shm_size>>
  BY <1>1, Zenon DEF IInv, JoinedInv
<1>2. ASSUME NEW w \in Workers,
             \/
                   \/ ReceiveNothing(w) \/ ReceiveResize(w) \/ ReceiveRequest(w)
                   \/ StartRequest(w)
             \/ Compress(w) \/ MarkDone(w) \/ CompleteRequest(w)
      PROVE  JoinedInv'
  <2>1. /\ spc[w] \notin {"exited", "absent"} /\ server_shm_size' = server_shm_size
        /\ rpc' \in {rpc, "start"}
    BY <1>2, Zenon DEF ReceiveNothing, ReceiveResize, ReceiveRequest, StartRequest,
       Compress, MarkDone,
       CompleteRequest, resizer
  <2> QED BY <2>1, Zenon DEF IInv, JoinedInv, Copying
<1>3. ASSUME ServerResizeStart \/ ServerResizeJoin \/ CopyLoad \/ CopyStore \/ ServerResizeRespond
      PROVE  JoinedInv'
  BY <1>3, Zenon DEF ServerResizeStart, ServerResizeJoin, CopyLoad, CopyStore,
     ServerResizeRespond,
     WorkersJoined, workers, IInv, JoinedInv, Copying
<1>4. ASSUME ServerResizeFinish PROVE JoinedInv'
  <2>1. new_shm_size # 0
    BY <1>4, SMTT(60) DEF ServerResizeFinish, IInv, ServerSizeInv, TypeOK, GlobalsOK, SharedOK
  <2> QED BY <1>4, <2>1, Zenon DEF ServerResizeFinish, SwitchedSize, JoinedInv, Copying
<1>5. ASSUME RegisterClient PROVE JoinedInv'
  <2>1. shm_len # 0
    <3>1. shm_len \in 1..MaxEntries
      BY ZenonT(60) DEF IInv, TypeOK, SharedOK
    <3> QED BY <3>1, Sizes, SMTT(60)
  <2> QED BY <1>5, <2>1, ZenonT(60) DEF RegisterClient, OpenedSize, IInv, JoinedInv, Copying
<1> QED BY <1>1, <1>2, <1>3, <1>4, <1>5, ServerFrame

(* Only these actions write client_shm_size, shm_len. *)
LEMMA LengthFrame ==
  [Next]_vars =>
    \/ UNCHANGED <<client_shm_size, shm_len>>
    \/ \E t \in Threads : ResizeMap(t) \/ ResizeReply(t)
  BY ZenonT(60) DEF Next, ClientStep, ThreadStep, QueueWorkerStep, ServerStep, ServiceStep,
     ServerResizeStep,
     Prepare, LockEntryIdx, SkipEntry, ClaimEntry, Enqueue, ResizeCheck, ResizeFail,
     ResizeNotify, JoinReturn, PollSkip, PollAddress, PollLock, PollEntry, PollFault,
     WorkerCheck, WorkerDequeue, WorkerSend, ReceiveNothing, ReceiveResize,
     ReceiveRequest, StartRequest, Compress, MarkDone, CompleteRequest,
     ServerResizeStart, ServerResizeJoin, CopyLoad, CopyStore, ServerResizeRespond,
     ServerResizeFinish, RegisterClient, vars, locals, globals, queue, shared, mqueues,
     workers, resizer

(* Every step keeps the client's size in line with the object's, and the   *)
(* object within TINYFILE_SHM_MAX_SIZE.                                    *)
LEMMA LengthStep ==
  ASSUME IInv, [Next]_vars
  PROVE  LengthInv'
<1> DEFINE Grown == {"rz_send", "rz_recv"}
<1>1. CASE UNCHANGED <<shm_len, client_shm_size>> /\ \A t \in Threads : ~ResizeMap(t) /\ ~ResizeReply(t)
  <2>1. \A u \in Threads : pc'[u] \in Grown <=> pc[u] \in Grown
    <3>1. ASSUME NEW u \in Threads, ResizeNotify(u) PROVE pc[u] = "rz_send" /\ pc'[u] = "rz_recv"
      BY <3>1, Zenon DEF ResizeNotify, Goto, IInv, TypeOK, LocalsOK
    <3> QED BY <1>1, <3>1, PcFacts, ZenonT(60)
  <2>2. ASSUME NEW u \in Threads, pc'[u] = "rz_join" PROVE NewSize <= MaxEntries
    <3>1. CASE pc[u] = "rz_join"
      BY <3>1, Zenon DEF IInv, LengthInv
    <3>2. CASE ResizeCheck(u)
      <4>1. ~(NewSize * EntrySize > ShmMaxSize)
        BY <2>2, <3>2, ResizeCheckFacts, Zenon DEF ResizeTooBig, IInv, TypeOK
      <4>2. NewSize \in Nat
        BY Sizes, SMTT(60) DEF NewSize, IInv, TypeOK, GlobalsOK
      <4>3. ASSUME NEW a \in Nat, NEW b \in Nat, NEW c \in Nat, b > 0, ~(a * b > c)
            PROVE  a <= c \div b
        BY <4>3, SMTT(60)
      <4> QED BY <4>1, <4>2, <4>3, SizeAssumption, Zenon DEF MaxEntries
    <3> QED BY <2>2, <3>1, <3>2, PcFacts, Zenon
  <2>3. NewSize' = NewSize
    BY <1>1, Zenon DEF NewSize
  <2> QED BY <1>1, <2>1, <2>2, <2>3, Zenon DEF IInv, LengthInv
<1>2. ASSUME NEW t \in Threads, ResizeMap(t) PROVE LengthInv'
  <2>1. /\ pc[t] = "rz_join" /\ pc'[t] = "rz_send" /\ shm_len' = NewSize
        /\ \A u \in Threads : u # t => pc'[u] = pc[u]
        /\ client_shm_size' = client_shm_size
    BY <1>2, Zenon DEF ResizeMap, Goto, IInv, TypeOK, LocalsOK
  <2>2. NewSize' = NewSize
    BY <2>1, Zenon DEF NewSize
  <2> QED BY <2>1, <2>2, OneCritical, ZenonT(60) DEF LengthInv, Critical
<1>3. ASSUME NEW t \in Threads, ResizeReply(t) PROVE LengthInv'
  <2>1. /\ pc[t] = "rz_recv" /\ pc'[t] = "entry" /\ shm_len' = shm_len
        /\ \A u \in Threads : u # t => pc'[u] = pc[u]
    BY <1>3, Zenon DEF ResizeReply, Goto, shared, IInv, TypeOK, LocalsOK
  <2>2. client_shm_size' = NewSize /\ shm_len = NewSize
    <3>1. Head(recv_q) = Resize
      BY <1>3, AnswerFacts, Zenon DEF ResizeReply, IInv, TypeOK
    <3> QED BY <1>3, <2>1, <3>1, ZenonT(60) DEF ResizeReply, IInv, LengthInv
  <2> QED BY <2>1, <2>2, OneCritical, ZenonT(60) DEF LengthInv, Critical
<1> QED BY <1>1, <1>2, <1>3, LengthFrame

(* Only these actions write client_shm_size, shm_len, recv_q,              *)
(* server_shm_size, rpc, new_shm_size.                                     *)
LEMMA ServerSizeFrame ==
  [Next]_vars =>
    \/ UNCHANGED <<client_shm_size, shm_len, recv_q, server_shm_size, rpc, new_shm_size>>
    \/ \E t \in Threads : ResizeMap(t) \/ ResizeReply(t)
    \/ \E w \in Workers : ReceiveResize(w)
    \/ RegisterClient \/ ServerResizeStart \/ ServerResizeJoin \/ CopyLoad
    \/ CopyStore \/ ServerResizeRespond \/ ServerResizeFinish
  BY ZenonT(60) DEF Next, ClientStep, ThreadStep, QueueWorkerStep, ServerStep, ServiceStep,
     ServerResizeStep,
     Prepare, LockEntryIdx, SkipEntry, ClaimEntry, Enqueue, ResizeCheck, ResizeFail,
     ResizeNotify, JoinReturn, PollSkip, PollAddress, PollLock, PollEntry, PollFault,
     WorkerCheck, WorkerDequeue, WorkerSend, ReceiveNothing, ReceiveRequest,
     StartRequest, Compress, MarkDone, CompleteRequest, vars, locals, globals, queue,
     shared, mqueues, workers, resizer

(* Every step keeps the server's size in line with the client's and the    *)
(* object's.                                                               *)
LEMMA ServerSizeStep ==
  ASSUME IInv, [Next]_vars
  PROVE  ServerSizeInv'
<1>1. CASE UNCHANGED <<rpc, recv_q, server_shm_size, new_shm_size, client_shm_size, shm_len>>
  BY <1>1, Zenon DEF IInv, ServerSizeInv
<1>2. ASSUME NEW t \in Threads, ResizeMap(t) PROVE ServerSizeInv'
  <2>1. /\ pc[t] = "rz_join"
        /\ UNCHANGED <<rpc, recv_q, server_shm_size, new_shm_size, client_shm_size>>
    BY <1>2, Zenon DEF ResizeMap, resizer, mqueues
  <2>2. recv_q = <<>> /\ rpc \notin Answering
    BY <2>1, OneCritical, Zenon DEF IInv, TokenInv, Critical
  <2>3. shm_len = client_shm_size
    BY <2>1, OneCritical, Zenon DEF IInv, LengthInv, Critical
  <2> QED BY <2>1, <2>2, <2>3, Zenon DEF IInv, ServerSizeInv, Answering
<1>3. ASSUME NEW t \in Threads, ResizeReply(t) PROVE ServerSizeInv'
  <2>1. /\ pc[t] = "rz_recv" /\ recv_q # <<>> /\ recv_q' = Tail(recv_q)
        /\ UNCHANGED <<rpc, server_shm_size, new_shm_size, shm_len>>
    BY <1>3, Zenon DEF ResizeReply, resizer, shared
  <2>2. client_shm_size' = shm_len
    <3>1. Head(recv_q) = Resize
      BY <2>1, SMTT(60) DEF IInv, TypeOK, MqueuesOK
    <3> QED BY <1>3, <2>1, <3>1, Zenon DEF ResizeReply, IInv, LengthInv
  <2>3. rpc \in {"none", "finish"}
    BY <2>1, Zenon DEF IInv, TokenInv, Answering, TypeOK, ResizerOK
  <2> QED BY <2>1, <2>2, <2>3, Zenon DEF IInv, ServerSizeInv, Answering
<1>4. ASSUME NEW w \in Workers, ReceiveResize(w) PROVE ServerSizeInv'
  <2>1. /\ rpc' = "start" /\ spc[w] = "receive"
        /\ UNCHANGED <<recv_q, server_shm_size, new_shm_size, client_shm_size, shm_len>>
    BY <1>4, SMTT(60) DEF ReceiveResize, globals, shared
  <2>2. rpc # "finish"
    BY <2>1, Zenon DEF IInv, JoinedInv, Copying
  <2> QED BY <2>1, <2>2, Zenon DEF IInv, ServerSizeInv
<1>5. CASE RegisterClient
  <2>1. /\ rpc' = rpc /\ rpc = "none" /\ server_shm_size' = shm_len
        /\ UNCHANGED <<recv_q, new_shm_size, client_shm_size, shm_len>>
    BY <1>5, Zenon DEF RegisterClient, OpenedSize, IInv, JoinedInv, globals, shared, mqueues
  <2> QED BY <2>1, Zenon DEF IInv, ServerSizeInv, Answering
<1>6. CASE ServerResizeStart
  BY <1>6, Zenon DEF ServerResizeStart, IInv, ServerSizeInv, globals, mqueues
<1>7. CASE ServerResizeJoin \/ CopyLoad \/ CopyStore
  <2>1. /\ rpc \in Answering \ {"start"} /\ rpc' \in Answering \ {"start"}
        /\ rpc' \notin {"none", "finish"} /\ rpc # "finish"
        /\ UNCHANGED <<recv_q, server_shm_size, new_shm_size, client_shm_size, shm_len>>
    BY <1>7, Zenon DEF ServerResizeJoin, CopyLoad, CopyStore, Answering, globals, shared,
       mqueues
  <2> QED BY <2>1, Zenon DEF IInv, ServerSizeInv
<1>8. CASE ServerResizeRespond
  <2>1. /\ rpc = "respond" /\ rpc' = "finish" /\ recv_q' = Append(recv_q, Resize)
        /\ UNCHANGED <<server_shm_size, new_shm_size, client_shm_size, shm_len>>
    BY <1>8, SMTT(60) DEF ServerResizeRespond, globals, shared
  <2>2. recv_q' # <<>>
    BY <2>1, SMTT(60) DEF IInv, TypeOK, MqueuesOK
  <2> QED BY <2>1, <2>2, Zenon DEF IInv, ServerSizeInv, Answering
<1>9. CASE ServerResizeFinish
  <2>1. /\ rpc = "finish" /\ rpc' = "none" /\ server_shm_size' = new_shm_size
        /\ UNCHANGED <<recv_q, client_shm_size, shm_len>>
    BY <1>9, ZenonT(60) DEF ServerResizeFinish, SwitchedSize, globals, shared, mqueues
  <2> QED BY <2>1, Zenon DEF IInv, ServerSizeInv, Answering
<1> QED BY <1>1, <1>2, <1>3, <1>4, <1>5, <1>6, <1>7, <1>8, <1>9, ServerSizeFrame

(* Only these actions write server_shm_size, rpc, copy_pos. *)
LEMMA CopiedFrame ==
  [Next]_vars =>
    \/ UNCHANGED <<server_shm_size, rpc, copy_pos>>
    \/ \E w \in Workers : ReceiveResize(w)
    \/ RegisterClient \/ ServerResizeStart \/ ServerResizeJoin \/ CopyLoad
    \/ CopyStore \/ ServerResizeRespond \/ ServerResizeFinish
  BY ZenonT(60) DEF Next, ClientStep, ThreadStep, QueueWorkerStep, ServerStep, ServiceStep,
     ServerResizeStep,
     Prepare, LockEntryIdx, SkipEntry, ClaimEntry, Enqueue, ResizeCheck, ResizeMap,
     ResizeFail, ResizeNotify, ResizeReply, JoinReturn, PollSkip, PollAddress, PollLock,
     PollEntry, PollFault, WorkerCheck, WorkerDequeue, WorkerSend, ReceiveNothing,
     ReceiveRequest, StartRequest, Compress, MarkDone, CompleteRequest, vars, locals,
     globals, queue, shared, mqueues, workers, resizer

(* The memcpy stays inside the server's mapping. *)
LEMMA CopyStep ==
  ASSUME IInv, [Next]_vars
  PROVE  CopyInv'
<1>1. CASE UNCHANGED <<rpc, copy_pos, server_shm_size>>
  BY <1>1, Zenon DEF IInv, CopyInv, copied
<1>2. CASE CopyLoad
  BY <1>2, SMTT(60) DEF CopyLoad, CopyInv, copied
<1>3. ASSUME NEW w \in Workers, ReceiveResize(w) PROVE CopyInv'
  BY <1>3, Zenon DEF ReceiveResize, CopyInv
<1>4. CASE RegisterClient
  BY <1>4, Zenon DEF RegisterClient, CopyInv, IInv, JoinedInv
<1>5. CASE \/ ServerResizeStart \/ ServerResizeJoin \/ CopyStore \/ ServerResizeRespond
           \/ ServerResizeFinish
  BY <1>5 DEF ServerResizeStart, ServerResizeJoin, CopyStore, ServerResizeRespond,
     ServerResizeFinish, CopyInv
<1> QED BY <1>1, <1>2, <1>3, <1>4, <1>5, CopiedFrame

-----------------------------------------------------------------------------
(* tinyfile_init establishes the inductive invariant. *)
LEMMA InitIInv ==
  Init => IInv
<1> SUFFICES ASSUME Init PROVE IInv
  OBVIOUS
<1>0. /\ \A t \in Threads : pos[t] = 1 /\ poll[t] = 1 /\ pc[t] \in {"wait", "call"}
      /\ \A t \in Threads : pc[t] = "call" => Program[t] # <<>>
      /\ \A r \in Requests : slot[r] = None /\ result[r] = None /\ stage[r] = "new"
      /\ \A w \in Workers : spc[w] = "absent"
      /\ request_entry_idx_mutex = None /\ send_q = <<>> /\ recv_q = <<>>
      /\ request_q = <<>>
      /\ rpc = "none" /\ server_shm_size = 0 /\ wpc = "check"
      /\ shm_len = NumEntries /\ client_shm_size = NumEntries
  BY DEF Init
<1>1. LocalsOK
  BY DEF Init, LocalsOK, ClientPcs
<1>2. GlobalsOK
  <2>1. shm_resize_lock = None /\ crashed = FALSE
    BY DEF Init
  <2>2. crashed \in BOOLEAN /\ shm_resize_lock \in Threads \cup {None}
    BY <2>1, ZenonT(60)
  <2>3. client_shm_size \in 1..MaxEntries /\ request_entry_idx_mutex \in Threads \cup {None}
    BY <1>0, Sizes
  <2> QED BY <2>2, <2>3, Zenon DEF GlobalsOK
<1>3. QueueOK
  <2>1. stop_worker = FALSE /\ wreq = None
    BY DEF Init
  <2>2. stop_worker \in BOOLEAN /\ wreq \in Requests \cup {None}
    BY <2>1, ZenonT(60)
  <2>3. request_q \in Seq(Requests) /\ wpc \in {"check", "dequeue", "send", "exited"}
    BY <1>0
  <2> QED BY <2>2, <2>3 DEF QueueOK
<1>4. SharedOK
  BY Sizes, EntryFacts DEF Init, SharedOK
<1>5. MqueuesOK
  BY SizeAssumption DEF Init, MqueuesOK
<1>6. WorkersOK
  BY ZenonT(60) DEF Init, WorkersOK
<1>7. ResizerOK
  BY Sizes, EntryFacts DEF Init, ResizerOK
<1>8. stage \in [Requests -> Stages]
  BY DEF Init, Stages
<1>9. ControlInv
  <2>1. \A t \in Threads : /\ Program[t] # <<>> => Len(Program[t]) >= 1
                           /\ Collect[t] # <<>> => Len(Collect[t]) >= 1
                           /\ Len(Program[t]) >= 0
    BY CallAssumption
  <2> QED
    BY <1>0, <2>1, NoneFacts DEF ControlInv, LockInv, PosInv, PriorityInv, ScanInv,
       PollInv,
             PolledInv, Critical, Unclaimed
<1>10. CallInv
  <2>1. \A t \in Threads : \A i \in 1..Len(Program[t]) : Program[t][i] \in Requests
    BY CallAssumption, SMTT(60)
  <2> QED BY <1>0, <2>1 DEF CallInv
<1>11. SlotInv
  BY <1>0, ZenonT(60) DEF SlotInv
<1>12. PlaceInv
  <2>1. \A x : ~Has(<<>>, x)
    BY DEF Has
  <2>2. Distinct(<<>>)
    BY SMTT(60) DEF Distinct
  <2> QED BY <1>0, <2>1, <2>2, SMTT(60) DEF PlaceInv, ClaimedInv, QueuedInv, SendingInv, SentInv,
             ReceivedInv, Busy
<1>13. EntryInv /\ EntryExclusive /\ OwnResult /\ CopyHarmless
  BY <1>0, SMTT(60) DEF EntryInv, RangeInv, UsedInv, DoneInv, ArgInv, EntryExclusive, OwnResult,
     CopyHarmless, InFlight
<1>14. TokenInv
  <2>1. ~Has(<<>>, Resize) /\ Len(<<>>) <= 1
    BY DEF Has
  <2> QED BY <1>0, <2>1, SMTT(60) DEF TokenInv, ResizeSent, Answering
<1>15. StoppedInv /\ JoinedInv /\ LengthInv /\ ServerSizeInv /\ CopyInv
  BY <1>0, SMTT(60) DEF StoppedInv, JoinedInv, LengthInv, ServerSizeInv, CopyInv, Copying,
     Answering
<1> QED
  BY <1>1, <1>2, <1>3, <1>4, <1>5, <1>6, <1>7, <1>8, <1>9, <1>10, <1>11, <1>12,
     <1>13, <1>14,
     <1>15, ZenonT(60) DEF IInv, TypeOK

(* Every step preserves the inductive invariant. *)
LEMMA NextIInv ==
  IInv /\ [Next]_vars => IInv'
<1> SUFFICES ASSUME IInv, [Next]_vars PROVE IInv'
  OBVIOUS
<1>1. stage' \in [Requests -> Stages]
  BY StageFrame, ZenonT(60) DEF IInv, TypeOK, Stages, Prepare, ClaimEntry, Enqueue, PollEntry,
     WorkerDequeue, WorkerSend, ReceiveRequest, MarkDone
<1>2. TypeOK'
  BY <1>1, LocalsStep, GlobalsStep, QueueStep, SharedStep, MqueuesStep, WorkersStep,
     ResizerStep, ZenonT(60) DEF TypeOK
<1>3. ControlInv'
  BY LockStep, PosStep, PriorityStep, ScanStep, PollStep, PolledStep, ZenonT(60) DEF ControlInv
<1>4. CallInv' /\ SlotInv'
  BY CallStep, SlotStep, SMTT(60)
<1>5. PlaceInv'
  BY ClaimedStep, QueuedStep, SendingStep, SentStep, ReceivedStep, Zenon DEF PlaceInv
<1>6. EntryInv'
  BY RangeStep, UsedStep, DoneStep, ArgStep, Zenon DEF EntryInv
<1>7. EntryExclusive' /\ OwnResult' /\ CopyHarmless'
  BY ExclusiveStep, OwnResultStep, CopyHarmlessStep, SMTT(60)
<1>8. TokenInv' /\ StoppedInv' /\ JoinedInv' /\ LengthInv' /\ ServerSizeInv' /\ CopyInv'
  BY TokenStep, StoppedStep, JoinedStep, LengthStep, ServerSizeStep, CopyStep, ZenonT(60)
<1> QED BY <1>2, <1>3, <1>4, <1>5, <1>6, <1>7, <1>8, ZenonT(60) DEF IInv

(* The inductive invariant holds throughout: what tinyfile_async,          *)
(* is_request_done, the two workers and the two resize_shm functions rely  *)
(* on.                                                                     *)
THEOREM Invariance ==
  Spec => []IInv
  BY InitIInv, NextIInv, PTL DEF Spec

(* Every variable has its type throughout; in particular no index into the *)
(* shared memory leaves the largest segment and no message queue exceeds   *)
(* mq_maxmsg.                                                              *)
THEOREM TypeCorrect ==
  Spec => []TypeOK
<1>1. IInv => TypeOK
  BY Zenon DEF IInv
<1> QED BY <1>1, Invariance, PTL

(* find_shared_entry never gives two requests in flight the same entry. *)
THEOREM Exclusive ==
  Spec => []EntryExclusive
<1>1. IInv => EntryExclusive
  BY Zenon DEF IInv
<1> QED BY <1>1, Invariance, PTL

(* tinyfile_sync and tinyfile_async_join return the outcome of the         *)
(* caller's own request.                                                   *)
THEOREM OwnResults ==
  Spec => []OwnResult
<1>1. IInv => OwnResult
  BY Zenon DEF IInv
<1> QED BY <1>1, Invariance, PTL

(* The memcpy of the server's resize_shm never undoes what happened to a   *)
(* request in flight.                                                      *)
THEOREM CopyIsHarmless ==
  Spec => []CopyHarmless
<1>1. IInv => CopyHarmless
  BY Zenon DEF IInv
<1> QED BY <1>1, Invariance, PTL

(* Outside a resize the client, the server and the object agree on the     *)
(* size.                                                                   *)
THEOREM Agreement ==
  Spec => []SizesAgree
<1>1. IInv => SizesAgree
  BY Zenon DEF IInv, LengthInv, ServerSizeInv, SizesAgree
<1> QED BY <1>1, Invariance, PTL

(* handle_request only touches entries inside the server's mapping. *)
THEOREM ServedInside ==
  Spec => []ServedWithinMapping
<1>1. IInv => ServedWithinMapping
  <2> SUFFICES ASSUME IInv, NEW w \in Workers, NEW r \in Requests, Serving(w, r)
               PROVE  slot[r] < server_shm_size
    BY Zenon DEF ServedWithinMapping
  <2>1. slot[r] < client_shm_size /\ slot[r] \in Nat
    BY ServedFacts, Sizes, SMTT(60) DEF Serving, Busy, IInv, EntryInv, RangeInv, TypeOK,
       LocalsOK, Slots
  <2>2. server_shm_size # 0 /\ rpc # "finish"
    BY Zenon DEF Serving, IInv, JoinedInv, Copying
  <2>3. client_shm_size \in Nat /\ shm_len \in Nat /\ client_shm_size <= shm_len
    BY Sizes, SMTT(60) DEF IInv, LengthInv, NewSize, TypeOK, GlobalsOK, SharedOK
  <2> QED BY <2>1, <2>2, <2>3, SMTT(60) DEF IInv, ServerSizeInv
<1> QED BY <1>1, Invariance, PTL

(* A request is in a place only at the stage that belongs to it, and there *)
(* once.                                                                   *)
LEMMA StationFacts ==
  ASSUME IInv, NEW r \in Requests
  PROVE  /\ \A t, u \in Threads :
              Calling(t, r) => stage[r] = "claimed" /\ (Calling(u, r) => t = u)
         /\ \A i, j \in 1..Len(request_q) :
              request_q[i] = r => stage[r] = "queued" /\ (request_q[j] = r => i = j)
         /\ wpc = "send" /\ wreq = r => stage[r] = "sending"
         /\ \A i, j \in 1..Len(send_q) :
              send_q[i] = r => stage[r] = "sent" /\ (send_q[j] = r => i = j)
         /\ \A w, v \in Workers :
              Serving(w, r) => stage[r] = "received" /\ (Serving(v, r) => w = v)
<1>1. ASSUME NEW t \in Threads, Calling(t, r)
      PROVE  stage[r] = "claimed" /\ pos[t] \in 1..Len(Program[t]) /\ Program[t][pos[t]] = r
  BY <1>1, CurFacts, Zenon DEF Calling, cur, IInv, TypeOK, CallInv
<1>2. \A t, u \in Threads : Calling(t, r) /\ Calling(u, r) => t = u
  BY <1>1, Injective, SMTT(60)
<1>3. \A i, j \in 1..Len(request_q) :
        request_q[i] = r => stage[r] = "queued" /\ (request_q[j] = r => i = j)
  BY Zenon DEF IInv, PlaceInv, QueuedInv, Has, Distinct
<1>4. \A i, j \in 1..Len(send_q) :
        send_q[i] = r => stage[r] = "sent" /\ (send_q[j] = r => i = j)
  BY DEF IInv, PlaceInv, SentInv, Has, Distinct
<1>5. wpc = "send" /\ wreq = r => stage[r] = "sending"
  BY Zenon DEF IInv, PlaceInv, SendingInv
<1>6. \A w, v \in Workers :
        Serving(w, r) => stage[r] = "received" /\ (Serving(v, r) => w = v)
  BY SMTT(60) DEF IInv, PlaceInv, ReceivedInv, Serving, Busy
<1> QED BY <1>1, <1>2, <1>3, <1>4, <1>5, <1>6, Zenon

(* Between the caller and handle_request no request is lost or duplicated, *)
(* whatever workers a resize stops and starts.                             *)
THEOREM Conservation ==
  Spec => []Conserved
<1>1. ASSUME IInv, NEW r \in Requests, NEW x \in Stations(r)
      PROVE  \/ stage[r] = "claimed" /\ \E t \in Threads : Calling(t, r) /\ x = <<"call", t>>
             \/ /\ stage[r] = "queued"
                /\ \E i \in 1..Len(request_q) : request_q[i] = r /\ x = <<"request_q", i>>
             \/ stage[r] = "sending" /\ wpc = "send" /\ x = <<"worker", wpc>>
             \/ /\ stage[r] = "sent"
                /\ \E i \in 1..Len(send_q) : send_q[i] = r /\ x = <<"send_q", i>>
             \/ /\ stage[r] = "received"
                /\ \E w \in Workers : Serving(w, r) /\ x = <<"service", w>>
  BY <1>1, StationFacts, Zenon DEF Stations, Upstream
<1>2. ASSUME IInv, NEW r \in Requests
      PROVE  \A x, y \in Stations(r) : x = y
  BY <1>1, <1>2, StationFacts, SMTT(60)
<1>3. ASSUME IInv, NEW r \in Requests,
             stage[r] \in {"claimed", "queued", "sending", "sent", "received"}
      PROVE  \E x : x \in Stations(r)
  <2>1. CASE stage[r] = "claimed"
    <3>1. PICK t \in Threads : Calling(t, r)
      BY <1>3, <2>1, Zenon DEF IInv, PlaceInv, ClaimedInv
    <3>2. <<"call", t>> \in Stations(r)
      BY <3>1, SMTT(60) DEF Stations, Upstream
    <3> QED BY <3>2, Zenon
  <2>2. CASE stage[r] = "queued"
    <3>1. PICK i \in 1..Len(request_q) : request_q[i] = r
      BY <1>3, <2>2, ZenonT(60) DEF IInv, PlaceInv, QueuedInv, Has
    <3>2. <<"request_q", i>> \in Stations(r)
      BY <3>1, SMTT(60) DEF Stations, Upstream
    <3> QED BY <3>2, Zenon
  <2>3. CASE stage[r] = "sending"
    <3>1. wpc = "send" /\ wreq = r
      BY <1>3, <2>3, ZenonT(60) DEF IInv, PlaceInv, SendingInv
    <3>2. <<"worker", wpc>> \in Stations(r)
      BY <3>1, SMTT(60) DEF Stations, Upstream
    <3> QED BY <3>2, Zenon
  <2>4. CASE stage[r] = "sent"
    <3>1. PICK i \in 1..Len(send_q) : send_q[i] = r
      BY <1>3, <2>4, ZenonT(60) DEF IInv, PlaceInv, SentInv, Has
    <3>2. <<"send_q", i>> \in Stations(r)
      BY <3>1, SMTT(60) DEF Stations, Upstream
    <3> QED BY <3>2, Zenon
  <2>5. CASE stage[r] = "received"
    <3>1. PICK w \in Workers : Serving(w, r)
      BY <1>3, <2>5, ZenonT(60) DEF IInv, PlaceInv, ReceivedInv
    <3>2. <<"service", w>> \in Stations(r)
      BY <3>1, Zenon DEF Stations
    <3> QED BY <3>2, Zenon
  <2> QED BY <1>3, <2>1, <2>2, <2>3, <2>4, <2>5, Zenon
<1>4. IInv => Conserved
  <2> SUFFICES ASSUME IInv, NEW r \in Requests
               PROVE  IF InFlight(r) /\ ~shm[slot[r]].done
                      THEN \E x \in Stations(r) : Stations(r) = {x}
                      ELSE Stations(r) = {}
    BY DEF Conserved
  <2>1. CASE InFlight(r) /\ ~shm[slot[r]].done
    <3>1. stage[r] \in {"claimed", "queued", "sending", "sent", "received"}
      BY <2>1, Zenon DEF InFlight, IInv, TypeOK, Stages, SlotInv, EntryInv, DoneInv
    <3>2. PICK x \in Stations(r) : TRUE
      BY <1>3, <3>1, Zenon
    <3>3. Stations(r) = {x}
      BY <1>2, <3>2, SMTT(60)
    <3> QED BY <2>1, <3>3, Zenon
  <2>2. CASE ~(InFlight(r) /\ ~shm[slot[r]].done)
    <3>1. stage[r] \notin {"claimed", "queued", "sending", "sent", "received"}
      BY <2>2, Zenon DEF InFlight, IInv, SlotInv, EntryInv, DoneInv
    <3>2. Stations(r) = {}
      BY <1>1, <3>1, Zenon
    <3> QED BY <2>2, <3>2, Zenon
  <2> QED BY <2>1, <2>2, Zenon
<1> QED BY <1>4, Invariance, PTL

(* The entry of a request in flight is freed, or stops being done, only by *)
(* the step of is_request_done that delivers its result.                   *)
THEOREM DeliveryFrees ==
  Spec => OnlyDeliveryFrees
<1> DEFINE A == \A r \in Requests :
                  InFlight(r) /\ result'[r] = None
                    => /\ shm'[slot[r]].used
                       /\ shm[slot[r]].done => shm'[slot[r]].done
<1>1. ASSUME IInv, [Next]_vars PROVE A
  <2>1. SUFFICES ASSUME NEW r \in Requests, InFlight(r), result'[r] = None
                 PROVE  /\ shm'[slot[r]].used
                        /\ shm[slot[r]].done => shm'[slot[r]].done
    OBVIOUS
  <2>2. shm[slot[r]].used
    BY <1>1, <2>1, Zenon DEF IInv, EntryInv, UsedInv
  <2>3. CASE Kept(r)
    BY <1>1, <2>1, <2>2, <2>3, KeptFacts, ZenonT(60)
  <2>4. ASSUME NEW t \in Threads, ClaimEntry(t) PROVE Kept(r)
    <3>1. stage[cur(t)] = "new" /\ \A s \in Requests : s # cur(t) => Kept(s)
      BY <1>1, <2>4, ClaimEffect, Zenon DEF Moved
    <3>2. r # cur(t)
      BY <1>1, <2>1, <3>1, ZenonT(60) DEF IInv, SlotInv, InFlight
    <3> QED BY <3>1, <3>2, Zenon
  <2>5. ASSUME NEW t \in Threads, PollEntry(t) PROVE Kept(r)
    BY <1>1, <2>1, <2>5, PollEffect, Zenon
  <2>6. ASSUME NEW w \in Workers, Compress(w)
        PROVE  Kept(r) \/ (shm'[slot[r]].used /\ shm'[slot[r]].done = shm[slot[r]].done)
    BY <1>1, <2>2, <2>6, CompressEffect, ZenonT(60)
  <2>7. ASSUME NEW w \in Workers, MarkDone(w)
        PROVE  Kept(r) \/ (shm'[slot[r]].used /\ shm'[slot[r]].done)
    BY <1>1, <2>2, <2>7, MarkEffect, ZenonT(60)
  <2> QED BY <1>1, <2>3, <2>4, <2>5, <2>6, <2>7, EntryFrame, ZenonT(60)
<1>2. IInv /\ [Next]_vars => [A]_vars
  BY <1>1, SMTT(60)
<1>3. Spec => [][A]_vars
  BY <1>2, Invariance, PTL DEF Spec
<1> QED BY <1>3, Zenon DEF OnlyDeliveryFrees

(* An entry stays accounted for when it keeps its owner, and when it is    *)
(* not used any more.                                                      *)
LEMMA AccountedKept ==
  ASSUME NEW i \in Slots, Accounted(i),
         shm'[i].used => shm[i].used,
         \A r \in Requests : InFlight(r) /\ slot[r] = i
            => (slot'[r] = slot[r] /\ result'[r] = result[r]) \/ ~shm'[i].used
  PROVE  Accounted(i)'
  BY ZenonT(60) DEF Accounted, InFlight

(* Any step but a store of the memcpy leaves an entry accounted for. *)
LEMMA AccountedStep ==
  ASSUME IInv, [Next]_vars, ~CopyStore, NEW i \in Slots, Accounted(i)
  PROVE  Accounted(i)'
<1>0. shm \in [Slots -> Entry] /\ slot \in [Requests -> Slots \cup {None}] /\ shm[i] \in Entry
  BY ZenonT(60) DEF IInv, TypeOK, LocalsOK, SharedOK
<1>1. CASE UNCHANGED <<slot, result, shm>>
  BY <1>1, AccountedKept, Zenon
<1>2. ASSUME NEW t \in Threads, PollLock(t) PROVE Accounted(i)'
  <2>1. UNCHANGED <<slot, result>> /\ shm' = [shm EXCEPT ![slot[polled(t)]].mutex = TRUE]
    BY <1>2, Zenon DEF PollLock
  <2>2. shm'[i].used = shm[i].used
    BY <1>0, <2>1, ZenonT(60) DEF Entry
  <2> QED BY <2>1, <2>2, AccountedKept, Zenon
<1>3. ASSUME NEW t \in Threads, ClaimEntry(t) PROVE Accounted(i)'
  <2> DEFINE x == cur(t)
             k == scan[t].idx
  <2>1. /\ Moved(x, "new", "claimed") /\ k \in Slots
        /\ slot'[x] = k /\ slot'[x] # None /\ result'[x] = None
        /\ \A s \in Requests : s # x => Kept(s)
    BY <1>3, ClaimEffect, Zenon
  <2>2. shm' = [shm EXCEPT ![k] = ClaimedEntry(shm[k], x)]
    BY <1>3, Zenon DEF ClaimEntry
  <2>3. x \in Requests /\ stage[x] = "new"
    BY <2>1, Zenon DEF Moved
  <2> HIDE DEF x, k
  <2>4. CASE i = k
    BY <2>1, <2>3, <2>4, Zenon DEF Accounted, InFlight
  <2>5. CASE i # k
    <3>1. shm'[i] = shm[i]
      BY <1>0, <2>2, <2>5, Zenon
    <3>2. ~InFlight(x)
      BY <2>3, Zenon DEF IInv, SlotInv, InFlight
    <3> QED BY <2>1, <3>1, <3>2, AccountedKept, Zenon DEF Kept
  <2> QED BY <2>4, <2>5, Zenon
<1>4. ASSUME NEW t \in Threads, PollEntry(t) PROVE Accounted(i)'
  <2> DEFINE x == polled(t)
             k == slot[x]
  <2>1. slot' = slot
    BY <1>4, Zenon DEF PollEntry
  <2>2. CASE EntryDone(k)
    <3>1. /\ result' = [result EXCEPT ![x] = shm[k].arg]
          /\ shm' = [shm EXCEPT ![k] = FreedEntry(shm[k])]
      BY <1>4, <2>2, Zenon DEF PollEntry
    <3> HIDE DEF x
    <3>2. CASE i = k
      <4>1. shm'[i] = FreedEntry(shm[i])
        BY <1>0, <3>1, <3>2, Zenon
      <4>2. ~shm'[i].used
        BY <1>0, <4>1, Zenon DEF FreedEntry, Entry
      <4> QED BY <4>2, Zenon DEF Accounted
    <3>3. CASE i # k
      <4>1. shm'[i] = shm[i]
        BY <1>0, <3>1, <3>3, Zenon
      <4>2. \A r \in Requests : r # x => result'[r] = result[r]
        BY <3>1, Zenon DEF IInv, TypeOK, LocalsOK
      <4> QED BY <2>1, <3>3, <4>1, <4>2, AccountedKept, Zenon
    <3> QED BY <3>2, <3>3, Zenon
  <2>3. CASE ~EntryDone(k)
    <3>1. result' = result /\ shm' = [shm EXCEPT ![k].mutex = FALSE]
      BY <1>4, <2>3, Zenon DEF PollEntry
    <3> HIDE DEF x, k
    <3>2. shm'[i].used = shm[i].used
      BY <1>0, <3>1, ZenonT(60) DEF Entry
    <3> QED BY <2>1, <3>1, <3>2, AccountedKept, Zenon
  <2> QED BY <2>2, <2>3, Zenon
<1>5. ASSUME NEW w \in Workers, Compress(w) PROVE Accounted(i)'
  <2>1. /\ UNCHANGED <<slot, result>>
        /\ shm' = [shm EXCEPT ![slot[sreq[w]]].arg = Compressed(@)]
    BY <1>5, Zenon DEF Compress, locals
  <2>2. shm'[i].used = shm[i].used
    BY <1>0, <2>1, ZenonT(60) DEF Entry
  <2> QED BY <2>1, <2>2, AccountedKept, Zenon
<1>6. ASSUME NEW w \in Workers, MarkDone(w) PROVE Accounted(i)'
  <2>1. UNCHANGED <<slot, result>> /\ shm' = [shm EXCEPT ![slot[sreq[w]]].done = TRUE]
    BY <1>6, Zenon DEF MarkDone, locals
  <2>2. shm'[i].used = shm[i].used
    BY <1>0, <2>1, ZenonT(60) DEF Entry
  <2> QED BY <2>1, <2>2, AccountedKept, Zenon
<1>7. ASSUME ServerResizeStart PROVE Accounted(i)'
  <2>1. /\ UNCHANGED <<slot, result>>
        /\ shm' = [j \in Slots |-> IF j \in NewEntries THEN FreshEntry ELSE shm[j]]
    BY <1>7, Zenon DEF ServerResizeStart, locals
  <2>2. shm'[i] = FreshEntry \/ shm'[i] = shm[i]
    BY <2>1, Zenon
  <2>3. ~FreshEntry.used
    BY Zenon DEF FreshEntry, ZeroEntry
  <2> QED BY <2>1, <2>2, <2>3, AccountedKept, Zenon
<1> QED BY <1>1, <1>2, <1>3, <1>4, <1>5, <1>6, <1>7, DataFrame, ZenonT(60)

(* An entry of the shared memory is lost, used by nobody, only in a store  *)
(* of the memcpy in the server's resize_shm.                               *)
THEOREM OnlyCopyLoses ==
  Spec => LostOnlyByCopy
<1> DEFINE A == (\E i \in Slots : Accounted(i) /\ ~Accounted(i)')
                   => rpc = "store" /\ rpc' = "load"
<1>1. ASSUME IInv, [Next]_vars PROVE A
  BY <1>1, AccountedStep, Zenon DEF CopyStore
<1>2. IInv /\ [Next]_vars => [A]_vars
  BY <1>1, Zenon
<1>3. Spec => [][A]_vars
  BY <1>2, Invariance, PTL DEF Spec
<1> QED BY <1>3, Zenon DEF LostOnlyByCopy

(* The server receives the requests of one thread and one priority in the  *)
(* order in which the thread made the calls: request_q_enqueue and mq_send *)
(* put a message behind those of its priority, and request_q_handler is    *)
(* one thread at a time.                                                   *)
THEOREM OrderKept ==
  Spec => []ProgramOrder
<1> DEFINE Past == {"received", "done", "delivered"}
<1>1. Init => OrderInv
  <2> SUFFICES ASSUME Init PROVE OrderInv
    OBVIOUS
  <2>1. request_q = <<>> /\ send_q = <<>> /\ \A r \in Requests : stage[r] = "new"
    BY Zenon DEF Init
  <2>2. InOrder(<<>>) /\ \A r, s : Earlier(<<>>, r, s)
    BY SMTT(60) DEF InOrder, Earlier
  <2> QED BY <2>1, <2>2, Zenon DEF OrderInv, PairInv
<1>2. ASSUME IInv, NEW r \in Requests, slot[r] # None, Upstream(r) = {}
      PROVE  stage[r] \in Past
  <2>1. stage[r] \notin {"new", "rejected"} /\ stage[r] \in Stages
    BY <1>2, Zenon DEF IInv, TypeOK, SlotInv
  <2>2. stage[r] # "claimed"
    BY <1>2, Zenon DEF IInv, PlaceInv, ClaimedInv, Upstream
  <2>3. ASSUME stage[r] = "queued" PROVE FALSE
    <3>1. PICK i \in 1..Len(request_q) : request_q[i] = r
      BY <1>2, <2>3, ZenonT(60) DEF IInv, PlaceInv, QueuedInv, Has
    <3>2. <<"request_q", i>> \in Upstream(r)
      BY <3>1, SMTT(60) DEF Upstream
    <3> QED BY <1>2, <3>2, Zenon
  <2>4. stage[r] # "sending"
    BY <1>2, Zenon DEF IInv, PlaceInv, SendingInv, Upstream
  <2>5. ASSUME stage[r] = "sent" PROVE FALSE
    <3>1. PICK i \in 1..Len(send_q) : send_q[i] = r
      BY <1>2, <2>5, ZenonT(60) DEF IInv, PlaceInv, SentInv, Has
    <3>2. <<"send_q", i>> \in Upstream(r)
      BY <3>1, SMTT(60) DEF Upstream
    <3> QED BY <1>2, <3>2, Zenon
  <2> QED BY <2>1, <2>2, <2>3, <2>4, <2>5, Zenon DEF Stages
<1>3. ASSUME IInv, NEW r \in Requests, stage[r] \in Past
      PROVE  slot[r] # None /\ Upstream(r) = {}
  <2>1. slot[r] # None
    BY <1>3, Zenon DEF IInv, SlotInv
  <2>2. Upstream(r) = {}
    BY <1>3, StationFacts, Zenon DEF Upstream
  <2> QED BY <2>1, <2>2, Zenon
<1>4. ASSUME IInv, OrderInv, NEW t \in Threads,
             NEW i \in DOMAIN Program[t], NEW j \in DOMAIN Program[t], i < j,
             Priority[Program[t][i]] = Priority[Program[t][j]], Received(Program[t][j])
      PROVE  Received(Program[t][i])
  <2> DEFINE r == Program[t][i]
             s == Program[t][j]
  <2>1. i \in 1..Len(Program[t]) /\ j \in 1..Len(Program[t]) /\ r \in Requests /\ s \in Requests
    BY CallAssumption, SMTT(60)
  <2>2. Before(r, s)
    BY <1>4, <2>1, Zenon DEF Before
  <2>3. Received(s) /\ Priority[r] = Priority[s]
    BY <1>4
  <2> HIDE DEF r, s
  <2>4. stage[s] \in Past /\ slot[s] # None
    BY <1>2, <1>4, <2>1, <2>3, Zenon DEF Received
  <2>5. PairInv(r, s)
    BY <1>4, <2>1, <2>2, Zenon DEF OrderInv
  <2>6. stage[r] \notin {"new", "claimed", "queued", "sending", "sent"}
    BY <1>4, <2>1, <2>2, <2>4, <2>5, BeforeFacts, Zenon DEF PairInv
  <2>7. stage[r] # "rejected" /\ stage[r] \in Stages
    BY <1>4, <2>1, <2>3, <2>4, Zenon DEF IInv, TypeOK, SlotInv, PriorityOK
  <2>8. stage[r] \in Past
    BY <2>6, <2>7, Zenon DEF Stages
  <2>9. Received(r)
    BY <1>3, <1>4, <2>1, <2>8, Zenon DEF Received
  <2> QED BY <2>9, Zenon DEF r
<1>5. IInv /\ OrderInv => ProgramOrder
  BY <1>4, Zenon DEF ProgramOrder
<1> QED BY <1>1, <1>5, OrderStep, Invariance, PTL DEF Spec

(* The phase of a request, case by case. *)
LEMMA PhaseFacts ==
  ASSUME IInv, NEW r \in Requests
  PROVE  /\ result[r] # None => AbsPhase[r] = "delivered"
         /\ InFlight(r) => AbsPhase[r] = IF shm[slot[r]].done THEN "served" ELSE "submitted"
         /\ slot[r] = None => AbsPhase[r] = IF r \in Issued THEN "rejected" ELSE "new"
<1>1. result[r] # None => slot[r] # None
  BY Zenon DEF IInv, SlotInv
<1> QED BY <1>1, ZenonT(60) DEF AbsPhase, InFlight

(* The same after a step. *)
LEMMA PhaseFactsNext ==
  ASSUME IInv', NEW r \in Requests
  PROVE  /\ result'[r] # None => AbsPhase'[r] = "delivered"
         /\ InFlight(r)' => AbsPhase'[r] = IF shm'[slot'[r]].done THEN "served" ELSE "submitted"
         /\ slot'[r] = None => AbsPhase'[r] = IF r \in Issued' THEN "rejected" ELSE "new"
<1>1. result'[r] # None => slot'[r] # None
  BY Zenon DEF IInv, SlotInv
<1> QED BY <1>1, ZenonT(60) DEF AbsPhase, InFlight

(* Only calls that return are issued: one that prepare_request rejects, or *)
(* one that was given an entry.                                            *)
LEMMA IssuedStep ==
  ASSUME IInv, [Next]_vars
  PROVE  \/ Issued' = Issued
         \/ \E t \in Threads :
              /\ Prepare(t) \/ Enqueue(t)
              /\ cur(t) \in Requests
              /\ Issued' = Issued \cup {cur(t)}
<1>1. CASE UNCHANGED pos
  BY <1>1, Zenon DEF Issued
<1>2. ASSUME NEW t \in Threads, Prepare(t) \/ Enqueue(t), pos' = [pos EXCEPT ![t] = @ + 1]
      PROVE  cur(t) \in Requests /\ Issued' = Issued \cup {cur(t)}
  <2>1. cur(t) \in Requests /\ pos[t] \in 1..Len(Program[t])
    BY <1>2, CurFacts, Zenon DEF IInv, TypeOK, Prepare, Enqueue, Unclaimed
  <2>2. pos \in [Threads -> Nat \ {0}]
    BY Zenon DEF IInv, TypeOK, LocalsOK
  <2>3. pos'[t] - 1 = pos[t] /\ \A u \in Threads : u # t => pos'[u] = pos[u]
    BY <1>2, <2>2, SMTT(60)
  <2>4. 1..(pos'[t] - 1) = 1..(pos[t] - 1) \cup {pos[t]}
    BY <2>2, <2>3, SMTT(60)
  <2>5. ASSUME NEW r \in Requests
        PROVE  (\E u \in Threads : \E i \in 1..(pos'[u] - 1) : Program[u][i] = r)
                 <=> (\E u \in Threads : \E i \in 1..(pos[u] - 1) : Program[u][i] = r)
                       \/ r = cur(t)
    BY <2>3, <2>4, Zenon DEF cur
  <2> QED BY <2>1, <2>5, Zenon DEF Issued
<1>3. ASSUME NEW t \in Threads, Prepare(t) PROVE UNCHANGED pos \/ pos' = [pos EXCEPT ![t] = @ + 1]
  BY <1>3, Zenon DEF Prepare
<1>4. ASSUME NEW t \in Threads, Enqueue(t) PROVE pos' = [pos EXCEPT ![t] = @ + 1]
  BY <1>4, Zenon DEF Enqueue
<1>5. ASSUME NEW t \in Threads, ClaimEntry(t) PROVE UNCHANGED pos
  BY <1>5, Zenon DEF ClaimEntry
<1> QED BY <1>1, <1>2, <1>3, <1>4, <1>5, CallsFrame, Zenon DEF CallsKept

(* A step that keeps the entries, or only moves an argument, and issues no *)
(* request without an entry, does not show.                                *)
LEMMA PhaseKept ==
  ASSUME IInv, IInv', NEW r \in Requests,
         slot'[r] = slot[r], result'[r] = result[r],
         InFlight(r) => shm'[slot[r]].done = shm[slot[r]].done,
         slot[r] = None => (r \in Issued' <=> r \in Issued)
  PROVE  AbsPhase'[r] = AbsPhase[r]
<1>1. InFlight(r)' <=> InFlight(r)
  BY Zenon DEF InFlight
<1>2. CASE result[r] # None
  BY <1>2, PhaseFacts, PhaseFactsNext, ZenonT(60)
<1>3. CASE InFlight(r)
  BY <1>1, <1>3, PhaseFacts, PhaseFactsNext, ZenonT(60)
<1>4. CASE slot[r] = None
  BY <1>4, PhaseFacts, PhaseFactsNext, ZenonT(60)
<1> QED BY <1>2, <1>3, <1>4, Zenon DEF InFlight

(* Every step of the client and the server is a step of the service, or    *)
(* none.                                                                   *)
LEMMA ServiceStepMap ==
  ASSUME IInv, [Next]_vars, IInv'
  PROVE  [Service!SNext]_(Service!svars)
<1> DEFINE Step(x, p) ==
             /\ x \in Requests /\ AbsPhase'[x] = p
             /\ \A r \in Requests : r # x => AbsPhase'[r] = AbsPhase[r]
<1> DEFINE Phases == {"new", "rejected", "submitted", "served", "delivered"}
<1>0. AbsPhase \in [Requests -> Phases] /\ AbsPhase' \in [Requests -> Phases]
  BY ZenonT(60) DEF AbsPhase
<1>1. ASSUME NEW x, NEW p, Step(x, p) PROVE AbsPhase' = [AbsPhase EXCEPT ![x] = p]
  BY <1>0, <1>1, Zenon
<1>2. ASSUME \A r \in Requests : AbsPhase'[r] = AbsPhase[r] PROVE AbsPhase' = AbsPhase
  BY <1>0, <1>2, SMTT(60)
<1>3. slot \in [Requests -> Slots \cup {None}] /\ slot' \in [Requests -> Slots \cup {None}]
  BY Zenon DEF IInv, TypeOK, LocalsOK
<1>4. result \in [Requests -> Arg \cup {None}] /\ result' \in [Requests -> Arg \cup {None}]
  BY Zenon DEF IInv, TypeOK, LocalsOK
<1>5. CASE \A r \in Requests : Kept(r)
  <2>1. UNCHANGED <<slot, result>>
    <3>1. \A r \in Requests : slot'[r] = slot[r] /\ result'[r] = result[r]
      BY <1>5, Zenon DEF Kept
    <3>2. slot' = slot
      BY <1>3, <3>1, SMTT(60)
    <3>3. result' = result
      BY <1>4, <3>1, SMTT(60)
    <3> QED BY <3>2, <3>3, Zenon
  <2>2. ASSUME NEW r \in Requests, slot[r] = None => (r \in Issued' <=> r \in Issued)
        PROVE  AbsPhase'[r] = AbsPhase[r]
    BY <1>5, <2>1, <2>2, KeptFacts, PhaseKept, ZenonT(60)
  <2>3. CASE Issued' = Issued
    BY <1>2, <2>1, <2>2, <2>3, Zenon DEF Service!svars
  <2>4. ASSUME NEW t \in Threads, Enqueue(t), cur(t) \in Requests,
               Issued' = Issued \cup {cur(t)}
        PROVE  UNCHANGED Service!svars
    <3>1. stage[cur(t)] = "claimed"
      BY <2>4, EnqueueMoves, Zenon DEF Moved
    <3>2. slot[cur(t)] # None
      BY <2>4, <3>1, Zenon DEF IInv, SlotInv
    <3>3. \A r \in Requests : AbsPhase'[r] = AbsPhase[r]
      BY <2>2, <2>4, <3>2, Zenon
    <3> QED BY <1>2, <2>1, <3>3, Zenon DEF Service!svars
  <2>5. ASSUME NEW t \in Threads, Prepare(t), cur(t) \in Requests,
               Issued' = Issued \cup {cur(t)}
        PROVE  Service!SNext \/ UNCHANGED Service!svars
    <3>1. CASE cur(t) \in Issued
      BY <1>2, <2>1, <2>2, <2>5, <3>1, Zenon DEF Service!svars
    <3>2. CASE cur(t) \notin Issued
      <4>1. slot[cur(t)] = None
        BY <2>5, PrepareFacts, CurFacts, Zenon DEF IInv, TypeOK, CallInv, SlotInv, cur, Unclaimed
      <4>2. ~PriorityOK(cur(t))
        <5>1. CASE pos' = pos
          BY <2>5, <3>2, <5>1, Zenon DEF Issued
        <5>2. CASE pos' # pos
          BY <2>5, <5>2, Zenon DEF Prepare
        <5> QED BY <5>1, <5>2, Zenon
      <4>3. AbsPhase[cur(t)] = "new" /\ AbsPhase'[cur(t)] = "rejected"
        BY <2>1, <2>5, <3>2, <4>1, PhaseFacts, PhaseFactsNext, ZenonT(60)
      <4>4. \A r \in Requests : r # cur(t) => AbsPhase'[r] = AbsPhase[r]
        BY <2>2, <2>5, Zenon
      <4>5. AbsPhase' = [AbsPhase EXCEPT ![cur(t)] = "rejected"]
        BY <1>1, <2>5, <4>3, <4>4, Zenon
      <4>6. Service!Reject(cur(t))
        BY <2>1, <2>5, <4>2, <4>3, <4>5, Zenon DEF Service!Reject
      <4> QED BY <2>5, <4>6, Zenon DEF Service!SNext
    <3> QED BY <3>1, <3>2, Zenon
  <2> QED BY <2>3, <2>4, <2>5, IssuedStep, Zenon
<1>6. CASE Issued' = Issued /\ \E t \in Threads : ClaimEntry(t)
  <2>1. PICK t \in Threads : ClaimEntry(t)
    BY <1>6, Zenon
  <2> DEFINE x == cur(t)
             i == scan[t].idx
  <2>2. /\ Moved(x, "new", "claimed") /\ i \in Slots
        /\ slot'[x] = i /\ slot'[x] # None /\ result'[x] = None /\ ~shm'[i].done
        /\ \A s \in Requests : s # x => Kept(s) /\ (InFlight(s) => slot[s] # i)
    BY <2>1, ClaimEffect, Zenon
  <2>3. slot' = [slot EXCEPT ![x] = i] /\ result' = result
    BY <2>1, Zenon DEF ClaimEntry
  <2>4. PriorityOK(x) /\ pos[t] \in 1..Len(Program[t])
    BY <2>1, ClaimFacts, CurFacts, Zenon DEF IInv, TypeOK, ControlInv, PriorityInv, Unclaimed
  <2>5. x \in Requests /\ stage[x] = "new"
    BY <2>2, Zenon DEF Moved
  <2>6. x \notin Issued
    BY <2>4, <2>5, AwaitedFacts, Zenon
  <2> HIDE DEF x, i
  <2>7. slot[x] = None
    BY <2>5, Zenon DEF IInv, SlotInv
  <2>8. AbsPhase[x] = "new"
    BY <2>5, <2>6, <2>7, PhaseFacts, ZenonT(60)
  <2>9. AbsPhase'[x] = "submitted"
    BY <2>2, <2>5, PhaseFactsNext, ZenonT(60) DEF InFlight
  <2>10. ASSUME NEW r \in Requests, r # x PROVE AbsPhase'[r] = AbsPhase[r]
    BY <1>6, <2>2, <2>10, KeptFacts, PhaseKept, ZenonT(60) DEF Kept
  <2>11. AbsPhase' = [AbsPhase EXCEPT ![x] = "submitted"]
    BY <1>1, <2>5, <2>9, <2>10, Zenon
  <2>12. i \in Slots \ Service!Held
    <3>1. ASSUME NEW s \in Requests, AbsPhase[s] \in {"submitted", "served"}
          PROVE  slot[s] # i
      <4>1. s # x /\ InFlight(s)
        BY <2>8, <3>1, PhaseFacts, ZenonT(60) DEF InFlight
      <4> QED BY <2>2, <4>1, Zenon
    <3> QED BY <2>2, <3>1, Zenon DEF Service!Held, Service!Outstanding
  <2>13. Service!Submit(x)
    BY <2>3, <2>4, <2>5, <2>8, <2>11, <2>12, Zenon DEF Service!Submit
  <2> QED BY <2>5, <2>13, Zenon DEF Service!SNext
<1>7. CASE Issued' = Issued /\ \E t \in Threads : PollEntry(t) /\ ~Same("done")
  <2>1. PICK t \in Threads : PollEntry(t) /\ ~Same("done")
    BY <1>7, Zenon
  <2> DEFINE x == polled(t)
  <2>2. /\ Moved(x, "done", "delivered") /\ InFlight(x) /\ result'[x] # None
        /\ result'[x] = shm[slot[x]].arg
        /\ \A s \in Requests : s # x => Kept(s)
    BY <2>1, PollEffect, Zenon DEF Same
  <2>3. slot' = slot /\ result' = [result EXCEPT ![x] = shm[slot[x]].arg]
    <3>1. result' # result
      BY <2>2, Zenon DEF InFlight
    <3> QED BY <2>1, <3>1, PollMoves, ZenonT(60) DEF PollEntry
  <2>4. x \in Requests /\ stage[x] = "done"
    BY <2>2, Zenon DEF Moved
  <2> HIDE DEF x
  <2>5. shm[slot[x]].done /\ shm[slot[x]].arg = Compressed(Plain(x))
    BY <2>2, <2>4, Zenon DEF IInv, EntryInv, DoneInv, ArgInv
  <2>6. AbsPhase[x] = "served" /\ AbsPhase'[x] = "delivered"
    BY <2>2, <2>4, <2>5, PhaseFacts, PhaseFactsNext, ZenonT(60)
  <2>7. ASSUME NEW r \in Requests, r # x PROVE AbsPhase'[r] = AbsPhase[r]
    BY <1>7, <2>2, <2>7, KeptFacts, PhaseKept, ZenonT(60) DEF Kept
  <2>8. AbsPhase' = [AbsPhase EXCEPT ![x] = "delivered"]
    BY <1>1, <2>4, <2>6, <2>7, Zenon
  <2>9. Service!Deliver(x)
    BY <2>3, <2>4, <2>5, <2>6, <2>8, Zenon DEF Service!Deliver, AbsReply, Plain
  <2> QED BY <2>4, <2>9, Zenon DEF Service!SNext
<1>8. CASE Issued' = Issued /\ \E w \in Workers : Compress(w)
  <2>1. PICK w \in Workers : Compress(w)
    BY <1>8, Zenon
  <2> DEFINE x == sreq[w]
  <2>2. /\ x \in Requests /\ slot' = slot /\ result' = result
        /\ shm'[slot[x]].done = shm[slot[x]].done
        /\ \A s \in Requests : s # x => Kept(s)
    BY <2>1, CompressEffect, Zenon
  <2> HIDE DEF x
  <2>3. ASSUME NEW r \in Requests PROVE AbsPhase'[r] = AbsPhase[r]
    BY <1>8, <2>2, <2>3, KeptFacts, PhaseKept, ZenonT(60)
  <2> QED BY <1>2, <2>2, <2>3, Zenon DEF Service!svars
<1>9. CASE Issued' = Issued /\ \E w \in Workers : MarkDone(w)
  <2>1. PICK w \in Workers : MarkDone(w)
    BY <1>9, Zenon
  <2> DEFINE x == sreq[w]
  <2>2. /\ Moved(x, "received", "done") /\ InFlight(x) /\ slot' = slot
        /\ slot'[x] # None /\ result'[x] = None /\ shm'[slot[x]].done
        /\ \A s \in Requests : s # x => Kept(s)
    BY <2>1, MarkEffect, Zenon
  <2>3. result' = result
    BY <2>1, Zenon DEF MarkDone, locals
  <2>4. x \in Requests /\ stage[x] = "received"
    BY <2>2, Zenon DEF Moved
  <2> HIDE DEF x
  <2>5. ~shm[slot[x]].done
    BY <2>2, <2>4, Zenon DEF IInv, EntryInv, DoneInv
  <2>6. AbsPhase[x] = "submitted"
    BY <2>2, <2>4, <2>5, PhaseFacts, ZenonT(60)
  <2>7. AbsPhase'[x] = "served"
    BY <2>2, <2>4, PhaseFactsNext, ZenonT(60) DEF InFlight
  <2>8. ASSUME NEW r \in Requests, r # x PROVE AbsPhase'[r] = AbsPhase[r]
    BY <1>9, <2>2, <2>8, KeptFacts, PhaseKept, ZenonT(60) DEF Kept
  <2>9. AbsPhase' = [AbsPhase EXCEPT ![x] = "served"]
    BY <1>1, <2>4, <2>7, <2>8, Zenon
  <2>10. Service!Serve(x)
    BY <2>2, <2>3, <2>4, <2>6, <2>9, Zenon DEF Service!Serve
  <2> QED BY <2>4, <2>10, Zenon DEF Service!SNext
<1>10. Issued' = Issued \/ \A r \in Requests : Kept(r)
  <2>1. ASSUME NEW t \in Threads, Prepare(t) \/ Enqueue(t) PROVE UNCHANGED <<slot, result, shm>>
    BY <2>1, Zenon DEF Prepare, Enqueue, shared
  <2>2. ASSUME UNCHANGED <<slot, result, shm>>, NEW r \in Requests PROVE Kept(r)
    <3>1. InFlight(r) => shm[slot[r]] \in Entry
      BY Zenon DEF InFlight, IInv, TypeOK, LocalsOK, SharedOK
    <3>2. InFlight(r) => shm'[slot[r]] = [shm[slot[r]] EXCEPT !.mutex = shm'[slot[r]].mutex]
      BY <2>2, <3>1, Zenon DEF Entry
    <3> QED BY <2>2, <3>2, Zenon DEF Kept
  <2> QED BY <2>1, <2>2, IssuedStep, Zenon
<1> QED BY <1>5, <1>6, <1>7, <1>8, <1>9, <1>10, EntryFrame, ZenonT(60)

(* Every behaviour of the client and the server is one that the service     *)
(* promises: tinyfile_async gives each accepted request an entry of its     *)
(* own, handle_request serves it once, and is_request_done delivers its own *)
(* result.                                                                  *)
THEOREM Implementation ==
  Spec => ImplementsService
<1>1. Init => Service!SInit
  <2> SUFFICES ASSUME Init PROVE Service!SInit
    OBVIOUS
  <2>1. /\ slot = [r \in Requests |-> None] /\ result = [r \in Requests |-> None]
        /\ pos = [t \in Threads |-> 1]
    BY Zenon DEF Init
  <2>2. Issued = {}
    <3>1. \A t \in Threads : 1..(pos[t] - 1) = {}
      BY <2>1, SMTT(60)
    <3> QED BY <3>1, Zenon DEF Issued
  <2>3. IInv
    BY InitIInv, Zenon
  <2>4. \A r \in Requests : AbsPhase[r] = "new"
    BY <2>1, <2>2, <2>3, PhaseFacts, ZenonT(60)
  <2>5. AbsPhase \in [Requests -> {"new", "rejected", "submitted", "served", "delivered"}]
    BY ZenonT(60) DEF AbsPhase
  <2>6. AbsPhase = [r \in Requests |-> "new"]
    BY <2>4, <2>5, SMTT(60)
  <2> QED BY <2>1, <2>6, Zenon DEF Service!SInit
<1>2. IInv /\ [Next]_vars => [Service!SNext]_(Service!svars)
  BY NextIInv, ServiceStepMap, Zenon
<1> QED BY <1>1, <1>2, Invariance, PTL DEF Spec, ImplementsService, Service!SSpec

(*****************************************************************************)
(* Entries that two processes may lock                                       *)
(*****************************************************************************)

(* The server registers the client before the segment first grows. *)
RegisteredFirst == shm_len > NumEntries => server_shm_size > 0

(* Then the entries of the client's mapping have shared mutexes, those of  *)
(* the grown object have them from the server's resize_shm on until the    *)
(* client maps them, the memcpy has loaded such an entry, and no mapping   *)
(* of the server is ahead of the client's outside a resize.                *)
ClientReady == \A i \in Slots : i < client_shm_size => shm[i].pshared
ObjectReady ==
  rpc \in Answering \ {"start"} \/ recv_q # <<>>
    => \A i \in Slots : i < shm_len => shm[i].pshared
BufferReady == rpc = "store" => copy_buf.pshared
InStep ==
  rpc \in {"none", "start"} /\ recv_q = <<>> /\ server_shm_size # 0
    => server_shm_size = client_shm_size
ReadyInv == ClientReady /\ ObjectReady /\ BufferReady /\ InStep

(* No step takes the shared mutex from an entry that has one. *)
LEMMA SharedKept ==
  ASSUME IInv, BufferReady, [Next]_vars, NEW i \in Slots, shm[i].pshared
  PROVE  shm'[i].pshared
<1>0. shm \in [Slots -> Entry] /\ shm[i] \in Entry /\ copy_buf \in Entry
  BY Zenon DEF IInv, TypeOK, SharedOK, ResizerOK
<1>1. CASE UNCHANGED <<slot, result, shm>>
  BY <1>1, Zenon
<1>2. ASSUME NEW t \in Threads, PollLock(t) PROVE shm'[i].pshared
  <2>1. shm' = [shm EXCEPT ![slot[polled(t)]].mutex = TRUE]
    BY <1>2, Zenon DEF PollLock
  <2> QED BY <1>0, <2>1, ZenonT(60) DEF Entry
<1>3. ASSUME NEW t \in Threads, ClaimEntry(t) PROVE shm'[i].pshared
  <2>1. shm' = [shm EXCEPT ![scan[t].idx] = ClaimedEntry(shm[scan[t].idx], cur(t))]
    BY <1>3, Zenon DEF ClaimEntry
  <2>2. ClaimedEntry(shm[i], cur(t)).pshared
    BY <1>0, Zenon DEF ClaimedEntry, Entry
  <2> QED BY <1>0, <2>1, <2>2, Zenon
<1>4. ASSUME NEW t \in Threads, PollEntry(t) PROVE shm'[i].pshared
  <2> DEFINE k == slot[polled(t)]
  <2>1. CASE EntryDone(k)
    <3>1. shm' = [shm EXCEPT ![k] = FreedEntry(shm[k])]
      BY <1>4, <2>1, Zenon DEF PollEntry
    <3>2. FreedEntry(shm[i]).pshared
      BY <1>0, Zenon DEF FreedEntry, Entry
    <3> HIDE DEF k
    <3> QED BY <1>0, <3>1, <3>2, Zenon
  <2>2. CASE ~EntryDone(k)
    <3>1. shm' = [shm EXCEPT ![k].mutex = FALSE]
      BY <1>4, <2>2, Zenon DEF PollEntry
    <3> HIDE DEF k
    <3> QED BY <1>0, <3>1, ZenonT(60) DEF Entry
  <2> QED BY <2>1, <2>2, Zenon
<1>5. ASSUME NEW w \in Workers, Compress(w) PROVE shm'[i].pshared
  <2>1. shm' = [shm EXCEPT ![slot[sreq[w]]].arg = Compressed(@)]
    BY <1>5, Zenon DEF Compress
  <2> QED BY <1>0, <2>1, ZenonT(60) DEF Entry
<1>6. ASSUME NEW w \in Workers, MarkDone(w) PROVE shm'[i].pshared
  <2>1. shm' = [shm EXCEPT ![slot[sreq[w]]].done = TRUE]
    BY <1>6, Zenon DEF MarkDone
  <2> QED BY <1>0, <2>1, ZenonT(60) DEF Entry
<1>7. ASSUME ServerResizeStart PROVE shm'[i].pshared
  <2>1. shm'[i] = FreshEntry \/ shm'[i] = shm[i]
    BY <1>7, Zenon DEF ServerResizeStart
  <2>2. FreshEntry.pshared
    BY Zenon DEF FreshEntry, ZeroEntry
  <2> QED BY <2>1, <2>2, Zenon
<1>8. ASSUME CopyStore PROVE shm'[i].pshared
  <2>1. /\ copy_buf.pshared
        /\ shm' = [shm EXCEPT ![copied] = IF copy_pos % 2 = 0
                                    THEN [copy_buf EXCEPT !.mutex = shm[copied].mutex]
                                    ELSE [shm[copied] EXCEPT !.mutex = copy_buf.mutex]]
    BY <1>8, Zenon DEF CopyStore, BufferReady
  <2>2. /\ [copy_buf EXCEPT !.mutex = shm[i].mutex].pshared
        /\ [shm[i] EXCEPT !.mutex = copy_buf.mutex].pshared
    BY <1>0, <2>1, Zenon DEF Entry
  <2>3. CASE i = copied
    BY <1>0, <2>1, <2>2, <2>3, Zenon
  <2>4. CASE i # copied
    BY <1>0, <2>1, <2>4, Zenon
  <2> QED BY <2>3, <2>4, Zenon
<1> QED BY <1>1, <1>2, <1>3, <1>4, <1>5, <1>6, <1>7, <1>8, DataFrame, ZenonT(60)

(* The client maps new entries only when the server has initialised them.  *)
LEMMA ClientReadyStep ==
  ASSUME IInv, ReadyInv, [Next]_vars
  PROVE  ClientReady'
<1>1. ASSUME NEW i \in Slots, i < client_shm_size' PROVE shm[i].pshared
  <2>1. CASE client_shm_size' = client_shm_size
    BY <1>1, <2>1, Zenon DEF ReadyInv, ClientReady
  <2>2. ASSUME NEW t \in Threads, ResizeReply(t) PROVE shm[i].pshared
    <3>1. recv_q # <<>> /\ client_shm_size' = NewSize /\ shm_len = NewSize
      <4>1. pc[t] = "rz_recv" /\ recv_q \in Seq({Resize}) /\ recv_q # <<>>
        BY <2>2, Zenon DEF ResizeReply, IInv, TypeOK, MqueuesOK
      <4>2. Head(recv_q) = Resize
        BY <4>1, AnswerFacts, Zenon DEF IInv, TypeOK
      <4> QED BY <2>2, <4>1, <4>2, ZenonT(60) DEF ResizeReply, IInv, LengthInv
    <3> QED BY <1>1, <3>1, Zenon DEF ReadyInv, ObjectReady
  <2>3. ASSUME NEW t \in Threads, ResizeMap(t) PROVE shm[i].pshared
    BY <2>1, <2>3, Zenon DEF ResizeMap
  <2> QED BY <2>1, <2>2, <2>3, LengthFrame, Zenon
<1>2. ASSUME NEW i \in Slots, i < client_shm_size' PROVE shm'[i].pshared
  BY <1>1, <1>2, SharedKept, Zenon DEF ReadyInv
<1> QED BY <1>2, Zenon DEF ClientReady

(* The server's resize_shm initialises what its mapping lacks, which is    *)
(* what the client's lacks.  The object does not grow again before the     *)
(* answer has come.                                                        *)
LEMMA ObjectReadyStep ==
  ASSUME IInv, ReadyInv, [Next]_vars
  PROVE  ObjectReady'
<1> DEFINE Filled == rpc \in Answering \ {"start"} \/ recv_q # <<>>
           All == \A i \in Slots : i < shm_len => shm[i].pshared
<1>0. Filled => All
  BY Zenon DEF ReadyInv, ObjectReady
<1>1. ASSUME Filled, shm_len' = shm_len PROVE ObjectReady'
  <2>1. ASSUME NEW i \in Slots, i < shm_len' PROVE shm'[i].pshared
    <3>1. shm[i].pshared
      BY <1>0, <1>1, <2>1, Zenon
    <3> QED BY <3>1, SharedKept, Zenon DEF ReadyInv
  <2> QED BY <2>1, Zenon DEF ObjectReady
<1>2. ASSUME ~Filled' PROVE ObjectReady'
  BY <1>2, Zenon DEF ObjectReady
<1> HIDE DEF Filled, All
<1>3. CASE UNCHANGED <<client_shm_size, shm_len, recv_q, server_shm_size, rpc, new_shm_size>>
  BY <1>1, <1>2, <1>3, Zenon DEF Filled
<1>4. ASSUME NEW t \in Threads, ResizeMap(t) PROVE ObjectReady'
  <2>1. pc[t] = "rz_join" /\ UNCHANGED <<rpc, recv_q>>
    BY <1>4, Zenon DEF ResizeMap, resizer, mqueues
  <2>2. recv_q = <<>> /\ rpc \notin Answering
    BY <2>1, OneCritical, Zenon DEF IInv, TokenInv, Critical
  <2> QED BY <1>2, <2>1, <2>2, Zenon DEF Filled
<1>5. ASSUME NEW t \in Threads, ResizeReply(t) PROVE ObjectReady'
  <2>1. recv_q # <<>> /\ shm_len' = shm_len
    BY <1>5, Zenon DEF ResizeReply, shared
  <2> QED BY <1>1, <2>1, Zenon DEF Filled
<1>6. ASSUME NEW w \in Workers, ReceiveResize(w) PROVE ObjectReady'
  <2>1. rpc' = "start" /\ UNCHANGED <<recv_q, shm_len>>
    BY <1>6, SMTT(60) DEF ReceiveResize, shared
  <2> QED BY <1>1, <1>2, <2>1, Zenon DEF Filled
<1>7. CASE RegisterClient
  <2>1. UNCHANGED <<rpc, recv_q, shm_len>>
    BY <1>7, Zenon DEF RegisterClient, shared, mqueues
  <2> QED BY <1>1, <1>2, <2>1, Zenon DEF Filled
<1>8. CASE ServerResizeStart
  <2>1. /\ rpc = "start" /\ shm_len' = shm_len
        /\ shm' = [i \in Slots |-> IF i \in NewEntries THEN FreshEntry ELSE shm[i]]
    BY <1>8, Zenon DEF ServerResizeStart
  <2>2. recv_q = <<>> /\ server_shm_size # 0
    BY <2>1, Zenon DEF IInv, TokenInv, JoinedInv, Answering
  <2>3. server_shm_size = client_shm_size
    BY <2>1, <2>2, Zenon DEF ReadyInv, InStep
  <2>4. FreshEntry.pshared
    BY Zenon DEF FreshEntry, ZeroEntry
  <2>5. ASSUME NEW i \in Slots, i < shm_len' PROVE shm'[i].pshared
    <3>1. i \in NewEntries \/ i < client_shm_size
      BY <2>1, <2>3, <2>5, RangeFacts, Zenon DEF IInv
    <3>2. CASE i \in NewEntries
      BY <2>1, <2>4, <3>2, Zenon
    <3>3. CASE i < client_shm_size
      <4>1. shm[i].pshared
        BY <3>3, Zenon DEF ReadyInv, ClientReady
      <4> QED BY <2>1, <2>4, <4>1, Zenon
    <3> QED BY <3>1, <3>2, <3>3, Zenon
  <2> QED BY <2>5, Zenon DEF ObjectReady
<1>9. CASE ServerResizeJoin \/ CopyLoad \/ CopyStore \/ ServerResizeRespond
  <2>1. rpc \in Answering \ {"start"} /\ shm_len' = shm_len
    BY <1>9, Zenon DEF ServerResizeJoin, CopyLoad, CopyStore, ServerResizeRespond, Answering,
       shared
  <2> QED BY <1>1, <2>1, Zenon DEF Filled
<1>10. CASE ServerResizeFinish
  <2>1. rpc' = "none" /\ UNCHANGED <<recv_q, shm_len>>
    BY <1>10, ZenonT(60) DEF ServerResizeFinish, shared, mqueues
  <2>2. rpc' \notin Answering
    BY <2>1, Zenon DEF Answering
  <2> QED BY <1>1, <1>2, <2>1, <2>2, Zenon DEF Filled
<1> QED BY <1>3, <1>4, <1>5, <1>6, <1>7, <1>8, <1>9, <1>10, ServerSizeFrame, Zenon

(* The memcpy loads entries that have shared mutexes. *)
LEMMA BufferReadyStep ==
  ASSUME IInv, ReadyInv, [Next]_vars
  PROVE  BufferReady'
<1>1. CASE UNCHANGED <<rpc, copy_pos, copy_buf>>
  BY <1>1, Zenon DEF ReadyInv, BufferReady
<1>2. CASE rpc' # "store"
  BY <1>2, Zenon DEF BufferReady
<1>3. ASSUME CopyLoad, rpc' = "store" PROVE BufferReady'
  <2>1. rpc = "load" /\ copied < server_shm_size /\ copy_buf' = shm[copied]
    BY <1>3, Zenon DEF CopyLoad
  <2>2. server_shm_size \in {client_shm_size, shm_len}
    <3>1. server_shm_size # 0
      BY <2>1, Zenon DEF IInv, JoinedInv
    <3> QED BY <2>1, <3>1, Zenon DEF IInv, ServerSizeInv
  <2>3. copied \in Slots
    BY <2>1, RangeFacts, Zenon DEF IInv
  <2>4. shm[copied].pshared
    <3>1. CASE server_shm_size = client_shm_size
      BY <2>1, <2>3, <3>1, Zenon DEF ReadyInv, ClientReady
    <3>2. CASE server_shm_size = shm_len
      BY <2>1, <2>3, <3>2, Zenon DEF ReadyInv, ObjectReady, Answering
    <3> QED BY <2>2, <3>1, <3>2, Zenon
  <2> QED BY <2>1, <2>4, Zenon DEF BufferReady
<1> QED
  BY <1>1, <1>2, <1>3, CopyFrame, ZenonT(60) DEF ReceiveResize, ServerResizeStart,
     ServerResizeJoin, CopyStore, ServerResizeRespond, ServerResizeFinish

(* The server opens the object at the client's size, and leaves each       *)
(* resize with it.                                                         *)
LEMMA InStepStep ==
  ASSUME IInv, ReadyInv, RegisteredFirst, [Next]_vars
  PROVE  InStep'
<1>1. CASE UNCHANGED <<client_shm_size, shm_len, recv_q, server_shm_size, rpc, new_shm_size>>
  BY <1>1, Zenon DEF ReadyInv, InStep
<1>2. ASSUME NEW t \in Threads, ResizeMap(t) PROVE InStep'
  <2>1. UNCHANGED <<rpc, recv_q, server_shm_size, client_shm_size>>
    BY <1>2, Zenon DEF ResizeMap, resizer, mqueues
  <2> QED BY <2>1, Zenon DEF ReadyInv, InStep
<1>3. ASSUME NEW t \in Threads, ResizeReply(t) PROVE InStep'
  <2>1. /\ pc[t] = "rz_recv" /\ recv_q # <<>> /\ UNCHANGED <<rpc, server_shm_size>>
    BY <1>3, Zenon DEF ResizeReply, resizer
  <2>2. client_shm_size' = shm_len
    <3>1. Head(recv_q) = Resize
      BY <2>1, SMTT(60) DEF IInv, TypeOK, MqueuesOK
    <3> QED BY <1>3, <2>1, <3>1, Zenon DEF ResizeReply, IInv, LengthInv
  <2>3. rpc # "start"
    BY <2>1, Zenon DEF IInv, TokenInv, Answering
  <2> QED BY <2>1, <2>2, <2>3, Zenon DEF IInv, ServerSizeInv, InStep
<1>4. ASSUME NEW w \in Workers, ReceiveResize(w) PROVE InStep'
  <2>1. /\ send_q # <<>> /\ Head(send_q) = Resize /\ spc[w] = "receive"
        /\ UNCHANGED <<recv_q, server_shm_size, client_shm_size>>
    BY <1>4, SMTT(60) DEF ReceiveResize, globals
  <2>2. ResizeSent
    <3>1. send_q \in Seq(Requests \cup {Resize})
      BY Zenon DEF IInv, TypeOK, MqueuesOK
    <3> QED BY <2>1, <3>1, SMTT(60) DEF ResizeSent, Has
  <2>3. rpc \notin Answering /\ rpc # "finish"
    BY <2>1, <2>2, Zenon DEF IInv, TokenInv, JoinedInv, Copying
  <2>4. rpc = "none"
    BY <2>3, Zenon DEF Answering, IInv, TypeOK, ResizerOK
  <2> QED BY <2>1, <2>4, Zenon DEF ReadyInv, InStep
<1>5. CASE RegisterClient
  <2>1. /\ server_shm_size = 0 /\ server_shm_size' = shm_len
        /\ client_shm_size' = client_shm_size
    BY <1>5, Zenon DEF RegisterClient, OpenedSize, globals
  <2>2. ~(shm_len > NumEntries)
    BY <2>1, SMTT(60) DEF RegisteredFirst
  <2>4. shm_len # NewSize
    BY <2>2, RangeFacts, Zenon DEF IInv
  <2>5. shm_len = client_shm_size
    BY <2>4, Zenon DEF IInv, LengthInv
  <2> QED BY <2>1, <2>5, Zenon DEF InStep
<1>6. CASE ServerResizeStart \/ ServerResizeJoin \/ CopyLoad \/ CopyStore \/ ServerResizeRespond
  <2>1. rpc' \notin {"none", "start"}
    BY <1>6, Zenon DEF ServerResizeStart, ServerResizeJoin, CopyLoad, CopyStore,
       ServerResizeRespond
  <2> QED BY <2>1, Zenon DEF InStep
<1>7. CASE ServerResizeFinish
  <2>1. /\ rpc = "finish" /\ server_shm_size' = new_shm_size
        /\ UNCHANGED <<recv_q, client_shm_size>>
    BY <1>7, ZenonT(60) DEF ServerResizeFinish, SwitchedSize, globals, mqueues
  <2> QED BY <2>1, Zenon DEF IInv, ServerSizeInv, InStep
<1> QED BY <1>1, <1>2, <1>3, <1>4, <1>5, <1>6, <1>7, ServerSizeFrame, Zenon

(* If the server always registers the client before the segment first      *)
(* grows, every entry that a request is passed through has a mutex that    *)
(* both processes may use: create_shm initialises the first entries, and   *)
(* the server's resize_shm the others before it answers.                   *)
THEOREM SharedWhenRegistered ==
  Spec => SharedIfRegisteredFirst
<1>1. Init => ReadyInv
  <2> SUFFICES ASSUME Init PROVE ReadyInv
    OBVIOUS
  <2>1. /\ shm = [i \in Slots |-> IF i < NumEntries THEN FreshEntry ELSE ZeroEntry]
        /\ client_shm_size = NumEntries /\ rpc = "none" /\ recv_q = <<>>
        /\ server_shm_size = 0
    BY Zenon DEF Init
  <2>2. FreshEntry.pshared
    BY Zenon DEF FreshEntry, ZeroEntry
  <2> QED BY <2>1, <2>2, Zenon DEF ReadyInv, ClientReady, ObjectReady, BufferReady, InStep,
             Answering
<1>2. IInv /\ ReadyInv /\ RegisteredFirst /\ [Next]_vars => ReadyInv'
  BY ClientReadyStep, ObjectReadyStep, BufferReadyStep, InStepStep, Zenon DEF ReadyInv
<1>3. IInv /\ ReadyInv => SharedMutexes
  <2> SUFFICES ASSUME IInv, ReadyInv, NEW r \in Requests, InFlight(r)
               PROVE  shm[slot[r]].pshared
    BY Zenon DEF SharedMutexes
  <2>1. slot[r] \in Slots /\ slot[r] < client_shm_size
    BY Zenon DEF InFlight, IInv, TypeOK, LocalsOK, EntryInv, RangeInv
  <2> QED BY <2>1, Zenon DEF ReadyInv, ClientReady
<1>4. Spec => ([]RegisteredFirst => []SharedMutexes)
  BY <1>1, <1>2, <1>3, Invariance, PTL DEF Spec
<1> QED BY <1>4, PTL DEF SharedIfRegisteredFirst, RegisteredFirst
=============================================================================
