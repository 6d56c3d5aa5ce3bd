------------------------- MODULE TinyfileInvariant -------------------------
(***************************************************************************)
(* An inductive invariant of Tinyfile, the lemmas about its operators and  *)
(* steps that the proofs use, and the proof that every step preserves the  *)
(* types and the places of the requests.  The invariants that the runs     *)
(* check are not inductive: they hold because of where each request is     *)
(* (PlaceInv), what its entry holds (EntryInv), who may touch an entry     *)
(* when (LockInv, TokenInv, JoinedInv) and how the three sizes relate      *)
(* (LengthInv, ServerSizeInv).                                             *)
(***************************************************************************)
EXTENDS Tinyfile, SequenceTheorems, TLAPS

(* Client threads that hold the entry-index mutex; that have no entry yet.  *)
(* The resize thread from the join of the service threads to their         *)
(* restart; before it has answered.  Service threads with a request.       *)
Critical == {"scan", "entry", "rz_join", "rz_send", "rz_recv"}
Unclaimed == {"call", "lock"} \cup Critical
Copying == {"load", "store", "respond", "finish"}
Answering == {"start", "join", "load", "store", "respond"}
Busy == {"received", "serve", "mark"}

(* The argument that find_shared_entry puts into the entry of r. *)
Plain(r) == [src |-> r, dst |-> None]

(* No message is twice in queue q; message x is in it. *)
Distinct(q) == \A i, j \in 1..Len(q) : q[i] = q[j] => i = j
Has(q, x) == \E i \in 1..Len(q) : q[i] = x

ResizeSent == Has(send_q, Resize)

(* One thread at a time runs find_shared_entry. *)
LockInv ==
  \A t \in Threads : pc[t] \in Critical <=> request_entry_idx_mutex = t

(* A thread that makes a call is inside its program. *)
PosInv ==
  \A t \in Threads :
    /\ pos[t] <= Len(Program[t]) + 1
    /\ pc[t] \in Unclaimed \cup {"enqueue"} => pos[t] <= Len(Program[t])

(* Only requests of a legal priority get past prepare_request. *)
PriorityInv ==
  \A t \in Threads : pc[t] \in {"lock"} \cup Critical => PriorityOK(cur(t))

(* find_shared_entry stays inside the client's mapping. *)
ScanInv ==
  \A t \in Threads : pc[t] \in Critical =>
    scan[t].idx < scan[t].size /\ scan[t].size <= client_shm_size

(* tinyfile_async_join stays inside its array. *)
PollInv ==
  \A t \in Threads : Collect[t] # <<>> => poll[t] <= Len(Collect[t])

(* What is_request_done looks at is in flight. *)
PolledInv ==
  \A t \in Threads :
    pc[t] \in {"deref", "locked"} => Collect[t] # <<>> /\ InFlight(polled(t))

ControlInv == LockInv /\ PosInv /\ PriorityInv /\ ScanInv /\ PollInv /\ PolledInv

(* stage tells which calls of a program were made. *)
CallInv ==
  \A t \in Threads : \A i \in 1..Len(Program[t]) :
    LET g == stage[Program[t][i]] IN
    /\ i > pos[t] \/ (i = pos[t] /\ pc[t] # "enqueue") => g = "new"
    /\ i = pos[t] /\ pc[t] = "enqueue" => g = "claimed"
    /\ i < pos[t] => g \notin {"new", "claimed"}

(* stage tells which requests were given an entry or a result. *)
SlotInv ==
  \A r \in Requests :
    /\ slot[r] = None <=> stage[r] \in {"new", "rejected"}
    /\ result[r] # None <=> stage[r] = "delivered"
    /\ PriorityOK(r) => stage[r] # "rejected"
    /\ slot[r] # None => PriorityOK(r)

(* Where a request is, by its stage, and that it is there once. *)
ClaimedInv ==
  \A r \in Requests : stage[r] = "claimed" => \E t \in Threads : Calling(t, r)

QueuedInv ==
  /\ \A r \in Requests : stage[r] = "queued" <=> Has(request_q, r)
  /\ Distinct(request_q)

SendingInv ==
  /\ wpc = "send" => wreq # None /\ stage[wreq] = "sending"
  /\ \A r \in Requests : stage[r] = "sending" => wpc = "send" /\ wreq = r

SentInv ==
  /\ \A r \in Requests : stage[r] = "sent" <=> Has(send_q, r)
  /\ Distinct(send_q)

ReceivedInv ==
  /\ \A w \in Workers :
       spc[w] \in Busy => sreq[w] # None /\ stage[sreq[w]] = "received"
  /\ \A r \in Requests : stage[r] = "received" => \E w \in Workers : Serving(w, r)
  /\ \A w, v \in Workers :
       spc[w] \in Busy /\ spc[v] \in Busy /\ sreq[w] = sreq[v] => w = v

PlaceInv == ClaimedInv /\ QueuedInv /\ SendingInv /\ SentInv /\ ReceivedInv

(* The entry of a request in flight lies in the client's mapping, is in    *)
(* use, is done when its request is, and holds the request's argument,     *)
(* with the compressed path in it once a worker is past compress_service.  *)
RangeInv ==
  \A r \in Requests : InFlight(r) => slot[r] < client_shm_size

UsedInv ==
  \A r \in Requests : InFlight(r) => shm[slot[r]].used

DoneInv ==
  \A r \in Requests : InFlight(r) => (shm[slot[r]].done <=> stage[r] = "done")

ArgInv ==
  \A r \in Requests : InFlight(r) =>
    /\ shm[slot[r]].arg \in {Plain(r), Compressed(Plain(r))}
    /\ stage[r] = "done" => shm[slot[r]].arg = Compressed(Plain(r))
    /\ \A w \in Workers :
         spc[w] = "mark" /\ sreq[w] = r => shm[slot[r]].arg = Compressed(Plain(r))

EntryInv == RangeInv /\ UsedInv /\ DoneInv /\ ArgInv

(* A resize is one token: the command in send_q, the resize thread at work *)
(* or the answer in recv_q, while one thread of the client waits for it.   *)
TokenInv ==
  /\ rpc \in Answering \/ recv_q # <<>> \/ ResizeSent
       => \E t \in Threads : pc[t] = "rz_recv"
  /\ rpc \in Answering => recv_q = <<>> /\ ~ResizeSent
  /\ recv_q # <<>> => ~ResizeSent
  /\ Len(recv_q) <= 1

(* request_q_handler is gone from before the resize command is sent until  *)
(* the answer comes.                                                       *)
StoppedInv ==
  \A t \in Threads : pc[t] \in {"rz_send", "rz_recv"} => wpc = "exited"

(* The service threads are gone while the segment is copied, and not yet   *)
(* there before register_client.                                           *)
JoinedInv ==
  /\ rpc \in Copying => \A w \in Workers : spc[w] = "exited"
  /\ server_shm_size = 0 => rpc = "none" /\ \A w \in Workers : spc[w] = "absent"

(* What the client's mapping and the object measure: they differ by the    *)
(* entries that a resize adds.                                             *)
LengthInv ==
  /\ \A t \in Threads : pc[t] = "rz_join" => NewSize <= MaxEntries
  /\ \A t \in Threads : pc[t] \in {"rz_send", "rz_recv"} => shm_len = NewSize
  /\ (\A t \in Threads : pc[t] \notin {"rz_send", "rz_recv"})
       => shm_len = client_shm_size

(* What the server's mapping measures. *)
ServerSizeInv ==
  /\ server_shm_size # 0 /\ rpc # "finish"
       => server_shm_size \in {client_shm_size, shm_len}
  /\ rpc = "none" /\ recv_q # <<>> => server_shm_size = shm_len
  /\ rpc \in Answering \ {"start"} => new_shm_size = shm_len
  /\ rpc = "finish"
       => new_shm_size = IF recv_q = <<>> THEN client_shm_size ELSE shm_len

(* The memcpy stays inside the server's mapping. *)
CopyInv ==
  rpc = "store" => copied < server_shm_size

IInv ==
  /\ TypeOK /\ ControlInv /\ CallInv /\ SlotInv /\ PlaceInv /\ EntryInv
  /\ EntryExclusive /\ OwnResult /\ CopyHarmless
  /\ TokenInv /\ StoppedInv /\ JoinedInv /\ LengthInv /\ ServerSizeInv /\ CopyInv

(* A step takes r from stage g to stage h. *)
Moved(r, g, h) == r \in Requests /\ stage[r] = g /\ stage' = [stage EXCEPT ![r] = h]

(* The requests of stage g are the same before and after a step. *)
Same(g) == \A r \in Requests : stage'[r] = g <=> stage[r] = g

(* The calls that stand before their request_q_enqueue are the same before *)
(* and after a step.                                                       *)
CallsKept == UNCHANGED pos /\ \A t \in Threads : pc'[t] = "enqueue" <=> pc[t] = "enqueue"

(* A step leaves r its entry, its result and, in flight, all of the entry  *)
(* but its mutex.                                                          *)
Kept(r) ==
  /\ slot'[r] = slot[r] /\ result'[r] = result[r]
  /\ InFlight(r) => shm'[slot[r]] = [shm[slot[r]] EXCEPT !.mutex = shm'[slot[r]].mutex]

(*****************************************************************************)
(* Constants, sequences, entries, and what the control state tells           *)
(*****************************************************************************)

(* TINYFILE_SHM_SIZE holds at least one entry and at most as many as       *)
(* TINYFILE_SHM_MAX_SIZE.                                                  *)
LEMMA Sizes ==
  NumEntries \in Nat /\ NumEntries > 0 /\ MaxEntries \in Nat /\ NumEntries <= MaxEntries
  BY SizeAssumption DEF NumEntries, MaxEntries

(* None is no request, thread, slot or argument. *)
LEMMA NoneFacts ==
  None \notin Requests /\ None \notin Threads /\ None \notin Slots /\ None \notin Arg
  BY CallAssumption

(* The programs have a length. *)
LEMMA Lengths == \A t \in Threads : Len(Program[t]) \in Nat
BY CallAssumption

(* A request is issued once and collected once: the programs of all        *)
(* threads together, and what they collect, repeat nothing.                *)
LEMMA Injective ==
  /\ \A t, u \in Threads : \A i \in 1..Len(Program[t]), j \in 1..Len(Program[u]) :
       Program[t][i] = Program[u][j] => t = u /\ i = j
  /\ \A t, u \in Threads : \A i \in 1..Len(Collect[t]), j \in 1..Len(Collect[u]) :
       Collect[t][i] = Collect[u][j] => t = u /\ i = j
<1>1. \A f \in {Program, Collect} : \A t, u \in Threads :
        \A i \in DOMAIN f[t], j \in DOMAIN f[u] : f[t][i] = f[u][j] => t = u /\ i = j
  BY CallAssumption
<1>2. \A t, u \in Threads : \A i \in DOMAIN Program[t], j \in DOMAIN Program[u] :
        Program[t][i] = Program[u][j] => t = u /\ i = j
  BY <1>1, Zenon
<1>3. \A t, u \in Threads : \A i \in DOMAIN Collect[t], j \in DOMAIN Collect[u] :
        Collect[t][i] = Collect[u][j] => t = u /\ i = j
  BY <1>1, Zenon
<1>4. \A t \in Threads : /\ DOMAIN Program[t] = 1..Len(Program[t])
                         /\ DOMAIN Collect[t] = 1..Len(Collect[t])
  BY CallAssumption
<1>5. ASSUME NEW t \in Threads, NEW u \in Threads
      PROVE  /\ \A i \in 1..Len(Program[t]), j \in 1..Len(Program[u]) :
                  Program[t][i] = Program[u][j] => t = u /\ i = j
             /\ \A i \in 1..Len(Collect[t]), j \in 1..Len(Collect[u]) :
                  Collect[t][i] = Collect[u][j] => t = u /\ i = j
  <2>1. /\ DOMAIN Program[t] = 1..Len(Program[t]) /\ DOMAIN Collect[t] = 1..Len(Collect[t])
        /\ DOMAIN Program[u] = 1..Len(Program[u])
        /\ DOMAIN Collect[u] = 1..Len(Collect[u])
    BY <1>4
  <2>2. ASSUME NEW i \in 1..Len(Program[t]), NEW j \in 1..Len(Program[u]),
               Program[t][i] = Program[u][j]
        PROVE  t = u /\ i = j
    <3>1. i \in DOMAIN Program[t] /\ j \in DOMAIN Program[u]
      BY <2>1
    <3> QED BY <1>2, <2>2, <3>1, Zenon
  <2>3. ASSUME NEW i \in 1..Len(Collect[t]), NEW j \in 1..Len(Collect[u]),
               Collect[t][i] = Collect[u][j]
        PROVE  t = u /\ i = j
    <3>1. i \in DOMAIN Collect[t] /\ j \in DOMAIN Collect[u]
      BY <2>1
    <3> QED BY <1>3, <2>3, <3>1, ZenonT(60)
  <2> QED BY <2>2, <2>3
<1> QED BY <1>5

(* The elements of a sequence with m inserted before position k. *)
LEMMA InsertAtFacts ==
  ASSUME NEW S, NEW q \in Seq(S), NEW m \in S, NEW k \in 1..(Len(q) + 1)
  PROVE  /\ InsertAt(q, k, m) \in Seq(S)
         /\ Len(InsertAt(q, k, m)) = Len(q) + 1
         /\ \A j \in 1..(Len(q) + 1) :
              InsertAt(q, k, m)[j] =
                IF j < k THEN q[j] ELSE IF j = k THEN m ELSE q[j - 1]
<1> DEFINE a == SubSeq(q, 1, k - 1)
           b == SubSeq(q, k, Len(q))
<1>1. /\ a \in Seq(S) /\ Len(a) = k - 1
      /\ \A i \in 1..(k - 1) : a[i] = q[i]
  BY SubSeqProperties
<1>2. /\ b \in Seq(S) /\ Len(b) = Len(q) - k + 1
      /\ \A i \in 1..(Len(q) - k + 1) : b[i] = q[k + i - 1]
  <2>1. \A i \in k..Len(q) : q[i] \in S
    OBVIOUS
  <2> QED BY <2>1, SubSeqProperties
<1>3. <<m>> \in Seq(S) /\ Len(<<m>>) = 1 /\ <<m>>[1] = m
  OBVIOUS
<1> HIDE DEF a, b
<1> DEFINE c == a \o <<m>>
<1>4. /\ c \in Seq(S) /\ Len(c) = k
      /\ \A i \in 1..k : c[i] = IF i <= k - 1 THEN a[i] ELSE <<m>>[i - (k - 1)]
  BY <1>1, <1>3, ConcatProperties
<1> HIDE DEF c
<1>5. /\ c \o b \in Seq(S) /\ Len(c \o b) = Len(q) + 1
      /\ \A i \in 1..(Len(q) + 1) : (c \o b)[i] = IF i <= k THEN c[i] ELSE b[i - k]
  <2>1. /\ c \o b \in Seq(S) /\ Len(c \o b) = Len(c) + Len(b)
        /\ \A i \in 1..Len(c) + Len(b) :
             (c \o b)[i] = IF i <= Len(c) THEN c[i] ELSE b[i - Len(c)]
    BY <1>2, <1>4, ConcatProperties, ZenonT(60)
  <2>2. Len(c) + Len(b) = Len(q) + 1
    BY <1>2, <1>4
  <2> QED BY <2>1, <2>2, <1>4
<1>6. InsertAt(q, k, m) = c \o b
  BY DEF InsertAt, a, b, c
<1>7. ASSUME NEW j \in 1..(Len(q) + 1)
      PROVE  (c \o b)[j] = IF j < k THEN q[j] ELSE IF j = k THEN m ELSE q[j - 1]
  <2>1. CASE j < k
    BY <2>1, <1>1, <1>4, <1>5
  <2>2. CASE j = k
    BY <2>2, <1>3, <1>4, <1>5
  <2>3. CASE j > k
    <3>1. (c \o b)[j] = b[j - k]
      BY <2>3, <1>5
    <3>2. j - k \in 1..(Len(q) - k + 1) /\ k + (j - k) - 1 = j - 1
      BY <2>3
    <3>3. b[j - k] = q[k + (j - k) - 1]
      BY <3>2, <1>2
    <3> QED BY <2>3, <3>1, <3>2, <3>3
  <2>4. j < k \/ j = k \/ j > k
    OBVIOUS
  <2> QED BY <2>1, <2>2, <2>3, <2>4, Zenon
<1> QED BY <1>5, <1>6, <1>7

(* The same for a message that request_q_enqueue or mq_send inserts. *)
LEMMA Insertion ==
  ASSUME NEW S, NEW q \in Seq(S), NEW m \in S, NEW k \in InsertionPoints(q, m)
  PROVE  /\ InsertAt(q, k, m) \in Seq(S)
         /\ k \in 1..(Len(q) + 1)
         /\ Len(InsertAt(q, k, m)) = Len(q) + 1
         /\ \A j \in 1..(Len(q) + 1) :
              InsertAt(q, k, m)[j] =
                IF j < k THEN q[j] ELSE IF j = k THEN m ELSE q[j - 1]
<1>1. k \in 1..(Len(q) + 1)
  BY DEF InsertionPoints
<1>2. InsertAt(q, k, m) \in Seq(S) /\ Len(InsertAt(q, k, m)) = Len(q) + 1
  BY <1>1, InsertAtFacts
<1>3. \A j \in 1..(Len(q) + 1) :
        InsertAt(q, k, m)[j] = IF j < k THEN q[j] ELSE IF j = k THEN m ELSE q[j - 1]
  BY <1>1, InsertAtFacts
<1> QED BY <1>1, <1>2, <1>3

(* Inserting a message adds it and nothing else, and keeps the messages    *)
(* distinct.                                                               *)
LEMMA InsertionFacts ==
  ASSUME NEW S, NEW q \in Seq(S), NEW m \in S, NEW k \in InsertionPoints(q, m)
  PROVE  /\ InsertAt(q, k, m) \in Seq(S)
         /\ Len(InsertAt(q, k, m)) = Len(q) + 1
         /\ \A x : Has(InsertAt(q, k, m), x) <=> x = m \/ Has(q, x)
         /\ Distinct(q) /\ ~Has(q, m) => Distinct(InsertAt(q, k, m))
<1> DEFINE n == Len(q)
           p == InsertAt(q, k, m)
<1>1. /\ n \in Nat /\ k \in 1..(n + 1) /\ p \in Seq(S) /\ Len(p) = n + 1
      /\ \A j \in 1..(n + 1) : p[j] = IF j < k THEN q[j] ELSE IF j = k THEN m ELSE q[j - 1]
  BY Insertion
<1> HIDE DEF n, p
<1>2. Len(q) = n
  BY DEF n
<1>3. ASSUME NEW x, Has(p, x), x # m PROVE Has(q, x)
  <2>1. PICK j \in 1..(n + 1) : p[j] = x
    BY <1>1, <1>3 DEF Has
  <2>2. CASE j < k
    <3>1. j \in 1..n /\ q[j] = x
      BY <1>1, <2>1, <2>2
    <3> QED BY <1>2, <3>1 DEF Has
  <2>3. CASE j > k
    <3>1. j - 1 \in 1..n /\ q[j - 1] = x
      BY <1>1, <2>1, <2>3
    <3> QED BY <1>2, <3>1 DEF Has
  <2> QED BY <1>1, <1>3, <2>1, <2>2, <2>3
<1>4. ASSUME NEW x, Has(q, x) PROVE Has(p, x)
  <2>1. PICK j \in 1..n : q[j] = x
    BY <1>2, <1>4 DEF Has
  <2>2. CASE j < k
    <3>1. j \in 1..(n + 1) /\ p[j] = x
      BY <1>1, <2>1, <2>2
    <3> QED BY <1>1, <3>1 DEF Has
  <2>3. CASE j >= k
    <3>1. j + 1 \in 1..(n + 1) /\ p[j + 1] = x
      BY <1>1, <2>1, <2>3
    <3> QED BY <1>1, <3>1 DEF Has
  <2> QED BY <1>1, <2>1, <2>2, <2>3
<1>5. Has(p, m)
  BY <1>1 DEF Has
<1>6. ASSUME Distinct(q), ~Has(q, m) PROVE Distinct(p)
  <2> DEFINE o(i) == IF i < k THEN i ELSE i - 1
  <2>1. \A i, j \in 1..n : q[i] = q[j] => i = j
    BY <1>2, <1>6 DEF Distinct
  <2>2. \A i \in 1..n : q[i] # m
    BY <1>2, <1>6 DEF Has
  <2>3. \A i \in 1..(n + 1) : i # k => o(i) \in 1..n /\ p[i] = q[o(i)]
    BY <1>1
  <2>4. p[k] = m
    BY <1>1
  <2>5. ASSUME NEW i \in 1..(n + 1), NEW j \in 1..(n + 1), p[i] = p[j] PROVE i = j
    <3>1. CASE i = k \/ j = k
      BY <2>2, <2>3, <2>4, <2>5, <3>1
    <3>2. CASE i # k /\ j # k
      <4>1. o(i) = o(j)
        BY <2>1, <2>3, <2>5, <3>2
      <4> QED BY <1>1, <3>2, <4>1
    <3> QED BY <3>1, <3>2
  <2> QED BY <1>1, <2>5 DEF Distinct
<1> QED BY <1>1, <1>2, <1>3, <1>4, <1>5, <1>6 DEF p

(* Taking the head of a queue removes it and nothing else, and keeps the   *)
(* messages distinct.                                                      *)
LEMMA HeadFacts ==
  ASSUME NEW S, NEW q \in Seq(S), q # <<>>
  PROVE  /\ Head(q) \in S /\ Tail(q) \in Seq(S) /\ Len(Tail(q)) = Len(q) - 1
         /\ Has(q, Head(q))
         /\ \A x : Has(q, x) <=> x = Head(q) \/ Has(Tail(q), x)
         /\ Distinct(q) => Distinct(Tail(q)) /\ ~Has(Tail(q), Head(q))
<1> DEFINE n == Len(q)
           p == Tail(q)
<1>1. n \in Nat /\ n > 0 /\ Head(q) = q[1] /\ Head(q) \in S
  OBVIOUS
<1>2. p \in Seq(S) /\ Len(p) = n - 1 /\ \A i \in 1..(n - 1) : p[i] = q[i + 1]
  BY HeadTailProperties
<1> HIDE DEF n, p
<1>3. Len(q) = n
  BY DEF n
<1>4. Has(q, Head(q))
  BY <1>1, <1>3 DEF Has
<1>5. ASSUME NEW x, Has(q, x), x # Head(q) PROVE Has(p, x)
  <2>1. PICK i \in 1..n : q[i] = x
    BY <1>3, <1>5 DEF Has
  <2>2. i - 1 \in 1..(n - 1) /\ p[i - 1] = q[i]
    BY <1>1, <1>2, <1>5, <2>1
  <2> QED BY <1>2, <2>1, <2>2 DEF Has
<1>6. ASSUME NEW x, Has(p, x) PROVE Has(q, x)
  <2>1. PICK i \in 1..(n - 1) : p[i] = x
    BY <1>2, <1>6 DEF Has
  <2>2. i + 1 \in 1..n /\ q[i + 1] = x
    BY <1>1, <1>2, <2>1
  <2> QED BY <1>3, <2>2 DEF Has
<1>7. ASSUME Distinct(q) PROVE Distinct(p) /\ ~Has(p, Head(q))
  <2>1. \A i, j \in 1..n : q[i] = q[j] => i = j
    BY <1>3, <1>7 DEF Distinct
  <2>2. Distinct(p)
    <3> SUFFICES ASSUME NEW i \in 1..(n - 1), NEW j \in 1..(n - 1), p[i] = p[j]
                 PROVE  i = j
      BY <1>2 DEF Distinct
    <3>1. i + 1 \in 1..n /\ j + 1 \in 1..n /\ q[i + 1] = q[j + 1]
      BY <1>1, <1>2
    <3>2. i + 1 = j + 1
      BY <2>1, <3>1
    <3> QED BY <3>2
  <2>3. ~Has(p, Head(q))
    <3> SUFFICES ASSUME NEW i \in 1..(n - 1), p[i] = q[1] PROVE FALSE
      BY <1>1, <1>2 DEF Has
    <3>1. i + 1 \in 1..n /\ 1 \in 1..n /\ q[i + 1] = q[1]
      BY <1>1, <1>2
    <3>2. i + 1 = 1
      BY <2>1, <3>1
    <3> QED BY <3>2
  <2> QED BY <2>2, <2>3
<1> QED BY <1>1, <1>2, <1>3, <1>4, <1>5, <1>6, <1>7, SMTT(60) DEF p

(* Queue q never gives a message before one of a higher priority, and      *)
(* gives r before s.                                                       *)
InOrder(q) ==
  \A a, b \in 1..Len(q) : a < b => MsgPriority(q[a]) >= MsgPriority(q[b])
Earlier(q, r, s) == \A a, b \in 1..Len(q) : q[a] = r /\ q[b] = s => a < b

(* Messages have comparable priorities. *)
LEMMA PriorityFacts ==
  /\ \A m \in Requests \cup {Resize} : MsgPriority(m) \in Int
  /\ \A r \in Requests : r # Resize /\ MsgPriority(r) = Priority[r]
<1>1. \A r \in Requests : r # Resize /\ Priority[r] \in Nat
  BY CallAssumption, SMTT(60) DEF Resize
<1> QED BY <1>1, SMTT(60) DEF MsgPriority

(* request_q_enqueue and mq_send keep a queue ordered, and put a message   *)
(* behind those of its own priority.                                       *)
LEMMA InsertOrder ==
  ASSUME NEW q \in Seq(Requests \cup {Resize}), NEW m \in Requests \cup {Resize},
         NEW k \in InsertionPoints(q, m), InOrder(q), ~Has(q, m)
  PROVE  /\ InOrder(InsertAt(q, k, m))
         /\ \A r, s \in Requests :
              Earlier(q, r, s) /\ (m = r => ~Has(q, s)) /\ r # s /\ MsgPriority(r) = MsgPriority(s)
                => Earlier(InsertAt(q, k, m), r, s)
<1> DEFINE p == InsertAt(q, k, m)
           n == Len(q)
           pr(a) == MsgPriority(q[a])
<1>1. /\ n \in Nat /\ k \in 1..(n + 1) /\ Len(p) = n + 1
      /\ \A j \in 1..(n + 1) : p[j] = IF j < k THEN q[j] ELSE IF j = k THEN m ELSE q[j - 1]
  BY Insertion
<1>2. MsgPriority(m) \in Int /\ \A a \in 1..n : q[a] \in Requests \cup {Resize} /\ pr(a) \in Int
  BY PriorityFacts
<1>3. \A a \in 1..n : a < k => pr(a) >= MsgPriority(m)
  BY <1>1, SMTT(60) DEF InsertionPoints
<1>4. \A a \in 1..n : a >= k => pr(a) < MsgPriority(m)
  <2>1. k <= n => pr(k) < MsgPriority(m)
    BY Zenon DEF InsertionPoints
  <2>2. \A a \in 1..n : k < a => pr(k) >= pr(a)
    BY <1>1, SMTT(60) DEF InOrder
  <2> QED BY <1>1, <1>2, <2>1, <2>2, SMTT(60)
<1>5. \A a, b \in 1..n : a < b => pr(a) >= pr(b)
  BY Zenon DEF InOrder
<1> HIDE DEF p, n
<1>6. ASSUME NEW a \in 1..(n + 1), NEW b \in 1..(n + 1), a < b
      PROVE  MsgPriority(p[a]) >= MsgPriority(p[b])
  <2>1. CASE b < k
    BY <1>1, <1>5, <1>6, <2>1, SMTT(60)
  <2>2. CASE b = k
    BY <1>1, <1>3, <1>6, <2>2, SMTT(60)
  <2>3. CASE b > k /\ a < k
    <3>1. p[a] = q[a] /\ p[b] = q[b - 1] /\ a \in 1..n /\ b - 1 \in 1..n /\ a < b - 1
      BY <1>1, <1>6, <2>3, SMTT(60)
    <3> QED BY <1>5, <3>1, Zenon
  <2>4. CASE b > k /\ a = k
    <3>1. p[a] = m /\ p[b] = q[b - 1] /\ b - 1 \in 1..n /\ b - 1 >= k
      BY <1>1, <1>6, <2>4, SMTT(60)
    <3>2. MsgPriority(p[b]) < MsgPriority(p[a]) /\ MsgPriority(p[b]) \in Int
      BY <1>2, <1>4, <3>1, Zenon
    <3> QED BY <1>2, <3>1, <3>2, SMTT(60)
  <2>5. CASE b > k /\ a > k
    <3>1. /\ p[a] = q[a - 1] /\ p[b] = q[b - 1]
          /\ a - 1 \in 1..n /\ b - 1 \in 1..n /\ a - 1 < b - 1
      BY <1>1, <1>6, <2>5, SMTT(60)
    <3> QED BY <1>5, <3>1, Zenon
  <2>6. b < k \/ b = k \/ (b > k /\ a < k) \/ (b > k /\ a = k) \/ (b > k /\ a > k)
    BY <1>1, SMTT(60)
  <2> QED BY <2>1, <2>2, <2>3, <2>4, <2>5, <2>6, Zenon
<1>7. InOrder(p)
  BY <1>1, <1>6, Zenon DEF InOrder
<1>8. ASSUME NEW r \in Requests, NEW s \in Requests, Earlier(q, r, s), m = r => ~Has(q, s),
             r # s, MsgPriority(r) = MsgPriority(s)
      PROVE  Earlier(p, r, s)
  <2> SUFFICES ASSUME NEW a \in 1..(n + 1), NEW b \in 1..(n + 1), p[a] = r, p[b] = s
               PROVE  a < b
    BY <1>1, Zenon DEF Earlier
  <2>1. \A c, d \in 1..n : q[c] = r /\ q[d] = s => c < d
    BY <1>8, Zenon DEF Earlier, n
  <2>2. m = r => \A d \in 1..n : q[d] # s
    BY <1>8, Zenon DEF Has, n
  <2>3. CASE m = r
    <3>1. b # k
      BY <1>1, <1>8, <2>3, SMTT(60)
    <3>2. b < k => b \in 1..n
      BY <1>1, SMTT(60)
    <3>3. b > k => b - 1 \in 1..n
      BY <1>1, SMTT(60)
    <3> QED BY <1>1, <2>2, <2>3, <3>1, <3>2, <3>3, SMTT(60)
  <2>4. CASE m # r /\ m = s
    <3>1. a # k
      BY <1>1, <2>4, SMTT(60)
    <3>2. ASSUME a > k PROVE FALSE
      <4>1. a - 1 \in 1..n /\ a - 1 >= k /\ q[a - 1] = r
        BY <1>1, <3>2, SMTT(60)
      <4>2. MsgPriority(r) < MsgPriority(m)
        BY <1>4, <4>1, Zenon
      <4> QED BY <1>2, <1>8, <2>4, <4>2, SMTT(60)
    <3>3. ASSUME b < k PROVE FALSE
      <4>1. b \in 1..n /\ q[b] = m
        BY <1>1, <2>4, <3>3, SMTT(60)
      <4> QED BY <4>1, Zenon DEF Has, n
    <3> QED BY <1>1, <3>1, <3>2, <3>3, SMTT(60)
  <2>5. CASE m # r /\ m # s
    BY <1>1, <2>1, <2>5, SMTT(60)
  <2> QED BY <2>3, <2>4, <2>5, Zenon
<1> QED BY <1>7, <1>8, Zenon DEF p

(* Taking the head keeps a queue ordered; if it is s, then r is not there. *)
LEMMA TailOrder ==
  ASSUME NEW S, NEW q \in Seq(S), q # <<>>
  PROVE  /\ InOrder(q) => InOrder(Tail(q))
         /\ \A r, s : Earlier(q, r, s) => Earlier(Tail(q), r, s)
         /\ \A r : Earlier(q, r, Head(q)) => ~Has(q, r)
<1> DEFINE n == Len(q)
           p == Tail(q)
<1>1. n \in Nat /\ n > 0 /\ Head(q) = q[1]
  OBVIOUS
<1>2. Len(p) = n - 1 /\ \A i \in 1..(n - 1) : p[i] = q[i + 1]
  BY HeadTailProperties
<1> HIDE DEF n, p
<1>3. Len(q) = n
  BY DEF n
<1>4. InOrder(q) => InOrder(p)
  BY <1>1, <1>2, <1>3, SMTT(60) DEF InOrder
<1>5. \A r, s : Earlier(q, r, s) => Earlier(p, r, s)
  BY <1>1, <1>2, <1>3, SMTT(60) DEF Earlier
<1>6. \A r : Earlier(q, r, Head(q)) => ~Has(q, r)
  BY <1>1, <1>3, SMTT(60) DEF Earlier, Has
<1> QED BY <1>4, <1>5, <1>6, Zenon DEF p

(* What CallInv says of the call at position i of a program at position p  *)
(* and control point c, if the stage of its request is g: it holds on when *)
(* the current call gets its entry, and when it is over.                   *)
CallOK(i, p, c, g) ==
  /\ i > p \/ (i = p /\ c # "enqueue") => g = "new"
  /\ i = p /\ c = "enqueue" => g = "claimed"
  /\ i < p => g \notin {"new", "claimed"}

LEMMA CallClaims ==
  ASSUME NEW i \in Nat, NEW p \in Nat, NEW c, NEW g, CallOK(i, p, c, g)
  PROVE  CallOK(i, p, "enqueue", IF i = p THEN "claimed" ELSE g)
BY DEF CallOK

LEMMA CallAdvances ==
  ASSUME NEW i \in Nat, NEW p \in Nat, NEW c, NEW g, CallOK(i, p, c, g),
         NEW d, d # "enqueue", NEW h, h \notin {"new", "claimed"}
  PROVE  CallOK(i, p + 1, d, IF i = p THEN h ELSE g)
BY DEF CallOK

(* The sizes, and the position of the copy, are numbers. *)
LEMMA SizeFacts ==
  ASSUME TypeOK
  PROVE  /\ client_shm_size \in Nat \ {0} /\ shm_len \in Nat /\ shm_len <= MaxEntries
         /\ server_shm_size \in Nat /\ server_shm_size <= MaxEntries
         /\ copied \in Nat /\ NewSize \in Nat /\ NewSize > NumEntries
<1>1. /\ client_shm_size \in 1..MaxEntries /\ shm_len \in 1..MaxEntries
      /\ server_shm_size \in 0..MaxEntries /\ copy_pos \in Nat
  BY Zenon DEF TypeOK, GlobalsOK, SharedOK, ResizerOK
<1> QED BY <1>1, Sizes, SMTT(60) DEF copied, NewSize

(* The entry to copy is one of the object, an entry of the object is in    *)
(* the client's mapping or new, and a mapping has more than the first      *)
(* entries once it has grown.                                              *)
LEMMA RangeFacts ==
  ASSUME TypeOK
  PROVE  /\ copied < server_shm_size => copied \in Slots
         /\ \A i \in Slots : server_shm_size = client_shm_size /\ i < shm_len
              => i \in NewEntries \/ i < client_shm_size
         /\ ~(shm_len > NumEntries) => shm_len # NewSize
<1>1. copied < server_shm_size => copied \in Slots
  BY SizeFacts, Sizes, SMTT(60) DEF Slots
<1>2. ASSUME NEW i \in Slots, server_shm_size = client_shm_size, i < shm_len
      PROVE  i \in NewEntries \/ i < client_shm_size
  BY <1>2, SizeFacts, Sizes, SMTT(60) DEF Slots, NewEntries
<1>3. ~(shm_len > NumEntries) => shm_len # NewSize
  BY SizeFacts, Sizes, SMTT(60)
<1> QED BY <1>1, <1>2, <1>3, Zenon

(* The only message of recv_q is the answer to a resize. *)
LEMMA AnswerFacts ==
  ASSUME MqueuesOK, recv_q # <<>>
  PROVE  Head(recv_q) = Resize
BY SMTT(60) DEF MqueuesOK

(* What initialisation, claim, compress_service and delivery leave in an   *)
(* entry is an entry.                                                      *)
LEMMA EntryFacts ==
  /\ ZeroEntry \in Entry /\ FreshEntry \in Entry
  /\ \A a \in Arg : Compressed(a) \in Arg
  /\ \A e \in Entry : FreedEntry(e) \in Entry
  /\ \A e \in Entry : \A r \in Requests : ClaimedEntry(e, r) \in Entry
<1>1. ZeroEntry \in Entry
  BY DEF ZeroEntry, Entry, Arg, NoArg
<1>2. FreshEntry \in Entry
  BY <1>1, Zenon DEF FreshEntry, Entry
<1>3. \A a \in Arg : Compressed(a) \in Arg
  BY DEF Compressed, Arg
<1>4. \A e \in Entry : FreedEntry(e) \in Entry
  BY Zenon DEF FreedEntry, Entry
<1>5. \A e \in Entry : \A r \in Requests : ClaimedEntry(e, r) \in Entry
  BY Zenon DEF ClaimedEntry, Entry, Arg
<1> QED BY <1>1, <1>2, <1>3, <1>4, <1>5, SMTT(60)

(* compress_service writes the same compressed path when it runs on its    *)
(* own result.                                                             *)
LEMMA Idempotent ==
  \A r : Compressed(Compressed(Plain(r))) = Compressed(Plain(r))
  BY ZenonT(60) DEF Compressed, Plain

(* A thread inside tinyfile_async is at a request of its program. *)
LEMMA CurFacts ==
  ASSUME LocalsOK, ControlInv, NEW t \in Threads, pc[t] \in Unclaimed \cup {"enqueue"}
  PROVE  cur(t) \in Requests /\ pos[t] \in 1..Len(Program[t])
  BY CallAssumption, SMTT(60) DEF LocalsOK, ControlInv, PosInv, cur

(* The index of find_shared_entry is a slot inside the client's mapping. *)
LEMMA ScanFacts ==
  ASSUME LocalsOK, GlobalsOK, ControlInv, NEW t \in Threads, pc[t] \in Critical
  PROVE  /\ scan[t].idx \in Slots /\ scan[t].idx < client_shm_size
         /\ scan[t].idx \in Nat /\ scan[t].size \in Nat /\ scan[t].size > 0
  BY Sizes DEF LocalsOK, GlobalsOK, ControlInv, ScanInv, Slots

(* The next index of find_shared_entry lies inside the segment it scans. *)
LEMMA ScanNext ==
  ASSUME LocalsOK, GlobalsOK, ControlInv, NEW t \in Threads, AtEntry(t)
  PROVE  (scan[t].idx + 1) % scan[t].size \in 0..(scan[t].size - 1)
<1>1. scan[t].idx \in Nat /\ scan[t].size \in Nat /\ scan[t].size > 0
  BY ScanFacts DEF AtEntry, Critical
<1>2. ASSUME NEW a \in Nat, NEW b \in Nat, b > 0 PROVE (a + 1) % b \in 0..(b - 1)
  BY <1>2, SMTT(60)
<1> QED BY <1>1, <1>2, SMTT(60)

(* find_shared_entry claims an existing slot, for a request of the         *)
(* program, under the entry-index mutex.                                   *)
LEMMA ClaimFacts ==
  ASSUME LocalsOK, GlobalsOK, ControlInv, NEW t \in Threads, ClaimEntry(t)
  PROVE  cur(t) \in Requests /\ scan[t].idx \in Slots /\ pc[t] \in Critical
<1>1. pc[t] \in {"scan", "entry"}
  BY DEF ClaimEntry, AtEntry
<1> QED BY <1>1, CurFacts, ScanFacts, Zenon DEF Critical, Unclaimed

(* A thread that waits for something has something to collect. *)
LEMMA PendingFacts ==
  ASSUME NEW t \in Threads, Pending(t) # {}
  PROVE  Collect[t] # <<>>
<1>1. Range(<<>>) = {}
  BY DEF Range
<1> QED BY <1>1 DEF Pending

(* tinyfile_async_join moves to another element of its array. *)
LEMMA NextPollFacts ==
  ASSUME LocalsOK, ControlInv, NEW t \in Threads, Collect[t] # <<>>
  PROVE  NextPoll(t) \in 1..Len(Collect[t]) /\ NextPoll(t) <= Len(Collect[t])
<1>1. Len(Collect[t]) \in Nat /\ Len(Collect[t]) > 0 /\ poll[t] \in Nat
  BY CallAssumption, SMTT(60) DEF LocalsOK
<1>2. ASSUME NEW a \in Nat, NEW b \in Nat, b > 0 PROVE (a % b) + 1 \in 1..b
  BY <1>2, SMTT(60)
<1> QED BY <1>1, <1>2, SMTT(60) DEF NextPoll

(* is_request_done looks at a request that has a slot. *)
LEMMA PolledFacts ==
  ASSUME LocalsOK, ControlInv, NEW t \in Threads, pc[t] \in {"deref", "locked"}
  PROVE  /\ polled(t) \in Requests /\ slot[polled(t)] \in Slots
         /\ Collect[t] # <<>> /\ poll[t] \in 1..Len(Collect[t])
<1>1. Collect[t] # <<>> /\ poll[t] \in 1..Len(Collect[t]) /\ InFlight(polled(t))
  BY CallAssumption DEF LocalsOK, ControlInv, PollInv, PolledInv
<1>2. polled(t) \in Requests
  BY <1>1, CallAssumption, SMTT(60) DEF polled
<1> QED BY <1>1, <1>2, SMTT(60) DEF InFlight, LocalsOK

(* prepare_request lets a legal priority pass, and otherwise ends the      *)
(* call.                                                                   *)
LEMMA PrepareFacts ==
  ASSUME LocalsOK, NEW t \in Threads, Prepare(t)
  PROVE  /\ pc[t] = "call"
         /\ \A u \in Threads : u # t => pc'[u] = pc[u] /\ pos'[u] = pos[u]
         /\ \/ /\ PriorityOK(cur(t))
               /\ pc'[t] = "lock" /\ pos' = pos /\ stage' = stage
            \/ /\ ~PriorityOK(cur(t))
               /\ pc'[t] = AfterError(t) /\ AfterError(t) \in {"call", "wait"}
               /\ pos' = [pos EXCEPT ![t] = @ + 1]
               /\ stage' = [stage EXCEPT ![cur(t)] = "rejected"]
  BY DEF Prepare, LocalsOK, Goto, AfterError

(* At half size find_shared_entry goes on with the entry, or stops the     *)
(* worker and resizes if the grown segment is not too big.                 *)
LEMMA ResizeCheckFacts ==
  ASSUME LocalsOK, NEW t \in Threads, ResizeCheck(t)
  PROVE  /\ pc[t] = "scan"
         /\ pc'[t] \in {"entry", "rz_join"}
         /\ pc'[t] = "rz_join" => ~ResizeTooBig /\ stop_worker'
         /\ pc'[t] = "entry" => stop_worker' = stop_worker
         /\ \A u \in Threads : u # t => pc'[u] = pc[u]
  BY Zenon DEF ResizeCheck, LocalsOK, Goto

(* A call that has returned without an error has been given an entry. *)
LEMMA AwaitedFacts ==
  ASSUME IInv, NEW r \in Requests, r \in Issued, PriorityOK(r)
  PROVE  slot[r] # None /\ stage[r] \notin {"new", "claimed", "rejected"}
<1>1. PICK t \in Threads : \E i \in 1..(pos[t] - 1) : Program[t][i] = r
  BY Zenon DEF Issued
<1>2. PICK i \in 1..(pos[t] - 1) : Program[t][i] = r
  BY <1>1
<1>3. pos \in [Threads -> Nat \ {0}] /\ PosInv /\ CallInv /\ SlotInv
  BY Zenon DEF IInv, TypeOK, LocalsOK, ControlInv
<1>4. i \in 1..Len(Program[t]) /\ i < pos[t]
  BY <1>2, <1>3, CallAssumption, SMTT(60) DEF PosInv
<1>5. stage[r] \notin {"new", "claimed"}
  BY <1>2, <1>3, <1>4 DEF CallInv
<1> QED BY <1>3, <1>5, Zenon DEF SlotInv

(* The request-queue worker is gone while a resize is under way. *)
LEMMA StoppedFacts ==
  ASSUME IInv, NEW t \in Threads, pc[t] \in {"rz_send", "rz_recv"}
  PROVE  wpc = "exited"
  BY Zenon DEF IInv, StoppedInv

(* The entry-index mutex is exclusive. *)
LEMMA OneCritical ==
  ASSUME IInv
  PROVE  \A t, u \in Threads : pc[t] \in Critical /\ pc[u] \in Critical => t = u
  BY Zenon DEF IInv, ControlInv, LockInv

(* What a service thread works on was received and is in flight. *)
LEMMA ServedFacts ==
  ASSUME IInv, NEW w \in Workers, spc[w] \in Busy
  PROVE  /\ sreq[w] \in Requests /\ stage[sreq[w]] = "received"
         /\ InFlight(sreq[w]) /\ slot[sreq[w]] \in Slots
<1>1. sreq[w] \in Requests /\ stage[sreq[w]] = "received"
  BY Zenon DEF IInv, TypeOK, WorkersOK, PlaceInv, ReceivedInv
<1>2. InFlight(sreq[w])
  BY <1>1, Zenon DEF IInv, SlotInv, InFlight
<1>3. slot \in [Requests -> Slots \cup {None}]
  BY Zenon DEF IInv, TypeOK, LocalsOK
<1> QED BY <1>1, <1>2, <1>3, SMTT(60) DEF InFlight

(*****************************************************************************)
(* What a step does to the stage of a request and to the calls under way     *)
(*****************************************************************************)

(* prepare_request rejects new requests only. *)
LEMMA PrepareMoves ==
  ASSUME IInv, NEW t \in Threads, Prepare(t)
  PROVE  \/ stage' = stage
         \/ Moved(cur(t), "new", "rejected") /\ ~PriorityOK(cur(t))
<1>1. cur(t) \in Requests /\ pos[t] \in 1..Len(Program[t]) /\ pc[t] = "call"
  BY PrepareFacts, CurFacts, Zenon DEF IInv, TypeOK, Unclaimed
<1>2. stage[cur(t)] = "new"
  BY <1>1, Zenon DEF IInv, CallInv, cur
<1> QED BY <1>1, <1>2, PrepareFacts, Zenon DEF IInv, TypeOK, Moved

(* find_shared_entry gives an entry to a new request. *)
LEMMA ClaimMoves ==
  ASSUME IInv, NEW t \in Threads, ClaimEntry(t)
  PROVE  Moved(cur(t), "new", "claimed")
<1>1. cur(t) \in Requests /\ pos[t] \in 1..Len(Program[t]) /\ pc[t] # "enqueue"
  BY ClaimFacts, CurFacts, Zenon DEF IInv, TypeOK, Critical, Unclaimed
<1>2. stage[cur(t)] = "new"
  BY <1>1, Zenon DEF IInv, CallInv, cur
<1> QED BY <1>1, <1>2, SMTT(60) DEF Moved, ClaimEntry

(* request_q_enqueue queues the request that was given an entry. *)
LEMMA EnqueueMoves ==
  ASSUME IInv, NEW t \in Threads, Enqueue(t)
  PROVE  Moved(cur(t), "claimed", "queued")
<1>1. cur(t) \in Requests /\ pos[t] \in 1..Len(Program[t]) /\ pc[t] = "enqueue"
  BY CurFacts, Zenon DEF IInv, TypeOK, Enqueue
<1>2. stage[cur(t)] = "claimed"
  BY <1>1, Zenon DEF IInv, CallInv, cur
<1> QED BY <1>1, <1>2, SMTT(60) DEF Moved, Enqueue

(* is_request_done delivers a request that is done, or nothing. *)
LEMMA PollMoves ==
  ASSUME IInv, NEW t \in Threads, PollEntry(t)
  PROVE  \/ stage' = stage /\ result' = result
         \/ /\ Moved(polled(t), "done", "delivered")
            /\ shm[slot[polled(t)]].done
            /\ result' = [result EXCEPT ![polled(t)] = shm[slot[polled(t)]].arg]
<1>1. polled(t) \in Requests /\ InFlight(polled(t))
  BY PolledFacts, Zenon DEF IInv, TypeOK, PollEntry, ControlInv, PolledInv
<1>2. shm[slot[polled(t)]].done => stage[polled(t)] = "done"
  BY <1>1, Zenon DEF IInv, EntryInv, DoneInv
<1> QED BY <1>1, <1>2, Zenon DEF Moved, PollEntry, EntryDone

(* request_q_handler takes a queued request, or nothing. *)
LEMMA DequeueMoves ==
  ASSUME IInv, WorkerDequeue
  PROVE  \/ stage' = stage
         \/ request_q # <<>> /\ Moved(Head(request_q), "queued", "sending")
<1>1. CASE request_q = <<>>
  BY <1>1 DEF WorkerDequeue
<1>2. CASE request_q # <<>>
  <2>1. Head(request_q) \in Requests /\ Has(request_q, Head(request_q))
    BY <1>2, HeadFacts, Zenon DEF IInv, TypeOK, QueueOK
  <2>2. stage[Head(request_q)] = "queued"
    BY <2>1, Zenon DEF IInv, PlaceInv, QueuedInv
  <2> QED BY <1>2, <2>1, <2>2, SMTT(60) DEF WorkerDequeue, Moved
<1> QED BY <1>1, <1>2, SMTT(60)

(* request_q_handler sends the request that it took. *)
LEMMA SendMoves ==
  ASSUME IInv, WorkerSend
  PROVE  Moved(wreq, "sending", "sent")
  BY NoneFacts, Zenon DEF IInv, TypeOK, QueueOK, PlaceInv, SendingInv, WorkerSend, Moved

(* service_worker receives a request that was sent. *)
LEMMA ReceiveMoves ==
  ASSUME IInv, NEW w \in Workers, ReceiveRequest(w)
  PROVE  Moved(Head(send_q), "sent", "received")
<1>1. Head(send_q) \in Requests /\ Has(send_q, Head(send_q))
  <2>1. send_q \in Seq(Requests \cup {Resize}) /\ send_q # <<>> /\ Head(send_q) # Resize
    BY Zenon DEF IInv, TypeOK, MqueuesOK, ReceiveRequest
  <2> QED BY <2>1, HeadFacts, SMTT(60)
<1>2. stage[Head(send_q)] = "sent"
  BY <1>1, Zenon DEF IInv, PlaceInv, SentInv, ReceiveRequest
<1> QED BY <1>1, <1>2, Zenon DEF ReceiveRequest, Moved

(* handle_request marks a received request done. *)
LEMMA MarkMoves ==
  ASSUME IInv, NEW w \in Workers, MarkDone(w)
  PROVE  Moved(sreq[w], "received", "done")
  BY NoneFacts, Zenon DEF IInv, TypeOK, WorkersOK, PlaceInv, ReceivedInv, Busy, MarkDone, Moved

(* Only these actions write stage. *)
LEMMA StageFrame ==
  [Next]_vars =>
    \/ UNCHANGED stage
    \/ \E t \in Threads : Prepare(t) \/ ClaimEntry(t) \/ Enqueue(t) \/ PollEntry(t)
    \/ \E w \in Workers : ReceiveRequest(w) \/ MarkDone(w)
    \/ WorkerDequeue \/ WorkerSend
  BY ZenonT(60) DEF Next, ClientStep, ThreadStep, QueueWorkerStep, ServerStep, ServiceStep,
     ServerResizeStep,
     LockEntryIdx, SkipEntry, ResizeCheck, ResizeMap, ResizeFail, ResizeNotify,
     ResizeReply, JoinReturn, PollSkip, PollAddress, PollLock, PollFault, WorkerCheck,
     ReceiveNothing, ReceiveResize, StartRequest, Compress, CompleteRequest,
     ServerResizeStart, ServerResizeJoin, CopyLoad, CopyStore, ServerResizeRespond,
     ServerResizeFinish, RegisterClient, vars, locals, globals, queue, shared, mqueues,
     workers, resizer

(* Only these actions write slot, result. *)
LEMMA SlotFrame ==
  [Next]_vars =>
    \/ UNCHANGED <<slot, result>>
    \/ \E t \in Threads : ClaimEntry(t) \/ PollEntry(t)
  BY ZenonT(60) DEF Next, ClientStep, ThreadStep, QueueWorkerStep, ServerStep, ServiceStep,
     ServerResizeStep,
     Prepare, LockEntryIdx, SkipEntry, Enqueue, ResizeCheck, ResizeMap, ResizeFail,
     ResizeNotify, ResizeReply, JoinReturn, PollSkip, PollAddress, PollLock, PollFault,
     WorkerCheck, WorkerDequeue, WorkerSend, ReceiveNothing, ReceiveResize,
     ReceiveRequest, StartRequest, Compress, MarkDone, CompleteRequest,
     ServerResizeStart, ServerResizeJoin, CopyLoad, CopyStore, ServerResizeRespond,
     ServerResizeFinish, RegisterClient, vars, locals, globals, queue, shared, mqueues,
     workers, resizer

(* For each stage, the actions that take a request into it or out of it. *)
LEMMA SameStage ==
  ASSUME IInv, [Next]_vars
  PROVE  /\ Same("new") \/ \E t \in Threads : Prepare(t) \/ ClaimEntry(t)
         /\ Same("rejected") \/ \E t \in Threads : Prepare(t)
         /\ Same("claimed") \/ \E t \in Threads : ClaimEntry(t) \/ Enqueue(t)
         /\ Same("queued") \/ (\E t \in Threads : Enqueue(t)) \/ WorkerDequeue
         /\ Same("sending") \/ WorkerDequeue \/ WorkerSend
         /\ Same("sent") \/ WorkerSend \/ \E w \in Workers : ReceiveRequest(w)
         /\ Same("received") \/ \E w \in Workers : ReceiveRequest(w) \/ MarkDone(w)
         /\ Same("done") \/ (\E w \in Workers : MarkDone(w)) \/ \E t \in Threads : PollEntry(t)
         /\ Same("delivered") \/ \E t \in Threads : PollEntry(t)
<1>1. ASSUME NEW r, NEW g, NEW h, Moved(r, g, h)
      PROVE  \A x \in Stages \ {g, h} : Same(x)
  BY <1>1, Zenon DEF Same, Moved, IInv, TypeOK
<1>2. CASE stage' = stage
  BY <1>2, Zenon DEF Same
<1>3. ASSUME NEW t \in Threads, Prepare(t)
      PROVE  \A x \in Stages \ {"new", "rejected"} : Same(x)
  BY <1>1, <1>2, <1>3, PrepareMoves, SMTT(60) DEF Same
<1>4. ASSUME NEW t \in Threads, ClaimEntry(t)
      PROVE  \A x \in Stages \ {"new", "claimed"} : Same(x)
  BY <1>1, <1>4, ClaimMoves, Zenon
<1>5. ASSUME NEW t \in Threads, Enqueue(t)
      PROVE  \A x \in Stages \ {"claimed", "queued"} : Same(x)
  BY <1>1, <1>5, EnqueueMoves, Zenon
<1>6. ASSUME NEW t \in Threads, PollEntry(t)
      PROVE  \A x \in Stages \ {"done", "delivered"} : Same(x)
  BY <1>1, <1>6, PollMoves, SMTT(60) DEF Same
<1>7. ASSUME WorkerDequeue
      PROVE  \A x \in Stages \ {"queued", "sending"} : Same(x)
  BY <1>1, <1>7, DequeueMoves, SMTT(60) DEF Same
<1>8. ASSUME WorkerSend
      PROVE  \A x \in Stages \ {"sending", "sent"} : Same(x)
  BY <1>1, <1>8, SendMoves, Zenon
<1>9. ASSUME NEW w \in Workers, ReceiveRequest(w)
      PROVE  \A x \in Stages \ {"sent", "received"} : Same(x)
  BY <1>1, <1>9, ReceiveMoves, Zenon
<1>10. ASSUME NEW w \in Workers, MarkDone(w)
      PROVE  \A x \in Stages \ {"received", "done"} : Same(x)
  BY <1>1, <1>10, MarkMoves, Zenon
<1> QED
  BY <1>2, <1>3, <1>4, <1>5, <1>6, <1>7, <1>8, <1>9, <1>10, StageFrame, Zenon DEF Stages

(* Only these actions write pc, pos. *)
LEMMA PosFrame ==
  [Next]_vars =>
    \/ UNCHANGED <<pc, pos>>
    \/ \E t \in Threads :
          \/ Prepare(t) \/ LockEntryIdx(t) \/ SkipEntry(t) \/ ClaimEntry(t)
          \/ Enqueue(t) \/ ResizeCheck(t) \/ ResizeMap(t) \/ ResizeFail(t)
          \/ ResizeNotify(t) \/ ResizeReply(t) \/ JoinReturn(t) \/ PollAddress(t)
          \/ PollLock(t) \/ PollEntry(t)
  BY ZenonT(60) DEF Next, ClientStep, ThreadStep, QueueWorkerStep, ServerStep, ServiceStep,
     ServerResizeStep,
     PollSkip, PollFault, WorkerCheck, WorkerDequeue, WorkerSend, ReceiveNothing,
     ReceiveResize, ReceiveRequest, StartRequest, Compress, MarkDone, CompleteRequest,
     ServerResizeStart, ServerResizeJoin, CopyLoad, CopyStore, ServerResizeRespond,
     ServerResizeFinish, RegisterClient, vars, locals, globals, queue, shared, mqueues,
     workers, resizer

(* Only prepare_request, a claim and request_q_enqueue change which thread *)
(* stands where in its program.                                            *)
LEMMA CallsFrame ==
  ASSUME IInv, [Next]_vars
  PROVE  CallsKept \/ \E t \in Threads : Prepare(t) \/ ClaimEntry(t) \/ Enqueue(t)
<1>1. CASE UNCHANGED <<pc, pos>>
  BY <1>1 DEF CallsKept
<1>2. ASSUME NEW t \in Threads, ResizeCheck(t) PROVE CallsKept
  BY <1>2, ResizeCheckFacts, ZenonT(60) DEF CallsKept, IInv, TypeOK, ResizeCheck
<1>3. ASSUME NEW t \in Threads, LockEntryIdx(t) PROVE CallsKept
  BY <1>3, Zenon DEF LockEntryIdx, Goto, CallsKept, IInv, TypeOK, LocalsOK
<1>4. ASSUME NEW t \in Threads, SkipEntry(t) PROVE CallsKept
  BY <1>4, Zenon DEF SkipEntry, Goto, AtEntry, CallsKept, IInv, TypeOK, LocalsOK
<1>5. ASSUME NEW t \in Threads, ResizeMap(t) PROVE CallsKept
  BY <1>5, Zenon DEF ResizeMap, Goto, CallsKept, IInv, TypeOK, LocalsOK
<1>6. ASSUME NEW t \in Threads, ResizeFail(t) PROVE CallsKept
  BY <1>6, Zenon DEF ResizeFail, Goto, CallsKept, IInv, TypeOK, LocalsOK
<1>7. ASSUME NEW t \in Threads, ResizeNotify(t) PROVE CallsKept
  BY <1>7, Zenon DEF ResizeNotify, Goto, CallsKept, IInv, TypeOK, LocalsOK
<1>8. ASSUME NEW t \in Threads, ResizeReply(t) PROVE CallsKept
  BY <1>8, Zenon DEF ResizeReply, Goto, CallsKept, IInv, TypeOK, LocalsOK
<1>9. ASSUME NEW t \in Threads, JoinReturn(t) PROVE CallsKept
  BY <1>9, Zenon DEF JoinReturn, Goto, CallsKept, IInv, TypeOK, LocalsOK
<1>10. ASSUME NEW t \in Threads, PollAddress(t) PROVE CallsKept
  BY <1>10, Zenon DEF PollAddress, Goto, CallsKept, IInv, TypeOK, LocalsOK
<1>11. ASSUME NEW t \in Threads, PollLock(t) PROVE CallsKept
  BY <1>11, Zenon DEF PollLock, Goto, CallsKept, IInv, TypeOK, LocalsOK
<1>12. ASSUME NEW t \in Threads, PollEntry(t) PROVE CallsKept
  BY <1>12, Zenon DEF PollEntry, Goto, FreedEntry, CallsKept, IInv, TypeOK, LocalsOK
<1> QED
  BY PosFrame, <1>1, <1>2, <1>3, <1>4, <1>5, <1>6, <1>7, <1>8, <1>9, <1>10, <1>11,
     <1>12

(* Only these actions write pc. *)
LEMMA PcFrame ==
  [Next]_vars =>
    \/ UNCHANGED pc
    \/ \E t \in Threads :
          \/ Prepare(t) \/ LockEntryIdx(t) \/ SkipEntry(t) \/ ClaimEntry(t)
          \/ Enqueue(t) \/ ResizeCheck(t) \/ ResizeMap(t) \/ ResizeFail(t)
          \/ ResizeNotify(t) \/ ResizeReply(t) \/ JoinReturn(t) \/ PollAddress(t)
          \/ PollLock(t) \/ PollEntry(t)
  BY ZenonT(60) DEF Next, ClientStep, ThreadStep, QueueWorkerStep, ServerStep, ServiceStep,
     ServerResizeStep,
     PollSkip, PollFault, WorkerCheck, WorkerDequeue, WorkerSend, ReceiveNothing,
     ReceiveResize, ReceiveRequest, StartRequest, Compress, MarkDone, CompleteRequest,
     ServerResizeStart, ServerResizeJoin, CopyLoad, CopyStore, ServerResizeRespond,
     ServerResizeFinish, RegisterClient, vars, locals, globals, queue, shared, mqueues,
     workers, resizer

(* How threads get into and out of the phases of the client's resize_shm. *)
LEMMA PcFacts ==
  ASSUME IInv, [Next]_vars, NEW u \in Threads
  PROVE  /\ pc'[u] = "rz_join" => pc[u] = "rz_join" \/ ResizeCheck(u)
         /\ pc'[u] = "rz_send" => pc[u] = "rz_send" \/ ResizeMap(u)
         /\ pc'[u] = "rz_recv" => pc[u] = "rz_recv" \/ ResizeNotify(u)
         /\ pc[u] = "rz_send" => pc'[u] = "rz_send" \/ ResizeNotify(u)
         /\ pc[u] = "rz_recv" => pc'[u] = "rz_recv" \/ ResizeReply(u)
<1> DEFINE P(v) == /\ pc'[v] = "rz_join" => pc[v] = "rz_join" \/ ResizeCheck(v)
                   /\ pc'[v] = "rz_send" => pc[v] = "rz_send" \/ ResizeMap(v)
                   /\ pc'[v] = "rz_recv" => pc[v] = "rz_recv" \/ ResizeNotify(v)
                   /\ pc[v] = "rz_send" => pc'[v] = "rz_send" \/ ResizeNotify(v)
                   /\ pc[v] = "rz_recv" => pc'[v] = "rz_recv" \/ ResizeReply(v)
<1>1. CASE UNCHANGED pc
  BY <1>1
<1>2. ASSUME NEW t \in Threads, Prepare(t) PROVE P(u)
  BY <1>2, PrepareFacts, Zenon DEF IInv, TypeOK
<1>3. ASSUME NEW t \in Threads, ResizeCheck(t) PROVE P(u)
  BY <1>3, ResizeCheckFacts, Zenon DEF IInv, TypeOK
<1>4. ASSUME NEW t \in Threads, LockEntryIdx(t) PROVE P(u)
  BY <1>4, ZenonT(60) DEF LockEntryIdx, Goto, IInv, TypeOK, LocalsOK
<1>5. ASSUME NEW t \in Threads, SkipEntry(t) PROVE P(u)
  BY <1>5, Zenon DEF SkipEntry, Goto, AtEntry, IInv, TypeOK, LocalsOK
<1>6. ASSUME NEW t \in Threads, ClaimEntry(t) PROVE P(u)
  BY <1>6, Zenon DEF ClaimEntry, Goto, AtEntry, ClaimedEntry, cur, IInv, TypeOK, LocalsOK
<1>7. ASSUME NEW t \in Threads, Enqueue(t) PROVE P(u)
  BY <1>7, Zenon DEF Enqueue, Goto, cur, AfterCall, AfterError, IInv, TypeOK, LocalsOK
<1>8. ASSUME NEW t \in Threads, ResizeMap(t) PROVE P(u)
  BY <1>8, ZenonT(60) DEF ResizeMap, Goto, IInv, TypeOK, LocalsOK
<1>9. ASSUME NEW t \in Threads, ResizeFail(t) PROVE P(u)
  BY <1>9, Zenon DEF ResizeFail, Goto, IInv, TypeOK, LocalsOK
<1>10. ASSUME NEW t \in Threads, ResizeNotify(t) PROVE P(u)
  BY <1>10, Zenon DEF ResizeNotify, Goto, IInv, TypeOK, LocalsOK
<1>11. ASSUME NEW t \in Threads, ResizeReply(t) PROVE P(u)
  BY <1>11, ZenonT(60) DEF ResizeReply, Goto, IInv, TypeOK, LocalsOK
<1>12. ASSUME NEW t \in Threads, JoinReturn(t) PROVE P(u)
  BY <1>12, Zenon DEF JoinReturn, Goto, IInv, TypeOK, LocalsOK
<1>13. ASSUME NEW t \in Threads, PollAddress(t) PROVE P(u)
  BY <1>13, Zenon DEF PollAddress, Goto, IInv, TypeOK, LocalsOK
<1>14. ASSUME NEW t \in Threads, PollLock(t) PROVE P(u)
  BY <1>14, Zenon DEF PollLock, Goto, IInv, TypeOK, LocalsOK
<1>15. ASSUME NEW t \in Threads, PollEntry(t) PROVE P(u)
  BY <1>15, ZenonT(60) DEF PollEntry, Goto, FreedEntry, IInv, TypeOK, LocalsOK
<1> QED
  BY PcFrame, <1>1, <1>2, <1>3, <1>4, <1>5, <1>6, <1>7, <1>8, <1>9, <1>10, <1>11,
     <1>12, <1>13, <1>14, <1>15, Zenon

(* Only these actions write spc, sreq. *)
LEMMA SpcFrame ==
  [Next]_vars =>
    \/ UNCHANGED <<spc, sreq>>
    \/ \E w \in Workers :
          \/ ReceiveNothing(w) \/ ReceiveResize(w) \/ ReceiveRequest(w)
          \/ StartRequest(w) \/ Compress(w) \/ MarkDone(w) \/ CompleteRequest(w)
    \/ RegisterClient \/ ServerResizeFinish
  BY ZenonT(60) DEF Next, ClientStep, ThreadStep, QueueWorkerStep, ServerStep, ServiceStep,
     ServerResizeStep,
     Prepare, LockEntryIdx, SkipEntry, ClaimEntry, Enqueue, ResizeCheck, ResizeMap,
     ResizeFail, ResizeNotify, ResizeReply, JoinReturn, PollSkip, PollAddress, PollLock,
     PollEntry, PollFault, WorkerCheck, WorkerDequeue, WorkerSend, ServerResizeStart,
     ServerResizeJoin, CopyLoad, CopyStore, ServerResizeRespond, vars, locals, globals,
     queue, shared, mqueues, workers, resizer

(* Only compress_service brings a service thread to the marking of a       *)
(* request.                                                                *)
LEMMA MarkFrame ==
  ASSUME IInv, [Next]_vars
  PROVE  \/ \A v \in Workers : spc'[v] = "mark" => spc[v] = "mark" /\ sreq'[v] = sreq[v]
         \/ \E w \in Workers : Compress(w)
  BY SpcFrame, ZenonT(60) DEF IInv, TypeOK, WorkersOK, ReceiveNothing, ReceiveResize,
     ReceiveRequest,
     StartRequest, MarkDone, CompleteRequest, StopCheck, ServerResizeFinish,
     RegisterClient,
     StartedWorkers

(*****************************************************************************)
(* What a step does to the entries of the requests in flight                 *)
(*****************************************************************************)

(* What a request keeps when a step leaves all of its entry but the mutex. *)
LEMMA KeptFacts ==
  ASSUME IInv, NEW r \in Requests, Kept(r)
  PROVE  /\ InFlight(r)' <=> InFlight(r)
         /\ InFlight(r) => /\ slot[r] \in Slots /\ slot'[r] = slot[r]
                           /\ shm'[slot[r]].used = shm[slot[r]].used
                           /\ shm'[slot[r]].done = shm[slot[r]].done
                           /\ shm'[slot[r]].arg = shm[slot[r]].arg
<1>1. InFlight(r)' <=> InFlight(r)
  BY SMTT(60) DEF Kept, InFlight
<1>2. InFlight(r) => slot[r] \in Slots
  BY Zenon DEF InFlight, IInv, TypeOK, LocalsOK
<1> QED BY <1>1, <1>2, Zenon DEF Kept, IInv, TypeOK, SharedOK, Entry

(* A claim: the new request gets an entry that no request in flight has,   *)
(* and every other request keeps its own.                                  *)
LEMMA ClaimEffect ==
  ASSUME IInv, NEW t \in Threads, ClaimEntry(t)
  PROVE  LET r == cur(t)
             i == scan[t].idx
         IN  /\ Moved(r, "new", "claimed")
             /\ i \in Slots /\ i < client_shm_size
             /\ slot'[r] = i /\ slot'[r] # None /\ result'[r] = None
             /\ shm'[i].used /\ ~shm'[i].done /\ shm'[i].arg = Plain(r)
             /\ \A s \in Requests : s # r => Kept(s) /\ (InFlight(s) => slot[s] # i)
<1> DEFINE r == cur(t)
           i == scan[t].idx
<1>1. Moved(r, "new", "claimed") /\ r \in Requests /\ stage[r] = "new"
  BY ClaimMoves, Zenon DEF Moved
<1>2. i \in Slots /\ i # None /\ i < client_shm_size
  BY ClaimFacts, ScanFacts, NoneFacts, Zenon DEF IInv, TypeOK
<1>3. /\ slot' = [slot EXCEPT ![r] = i] /\ result' = result
      /\ shm' = [shm EXCEPT ![i] = ClaimedEntry(shm[i], r)] /\ ~shm[i].used
  BY Zenon DEF ClaimEntry, EntryFree
<1> HIDE DEF r, i
<1>4. slot'[r] = i /\ slot'[r] # None /\ result'[r] = None
  BY <1>1, <1>2, <1>3, Zenon DEF IInv, TypeOK, LocalsOK, SlotInv, InFlight
<1>5. shm'[i] = ClaimedEntry(shm[i], r) /\ \A j \in Slots : j # i => shm'[j] = shm[j]
  BY <1>2, <1>3, Zenon DEF IInv, TypeOK, SharedOK
<1>6. shm'[i].used /\ ~shm'[i].done /\ shm'[i].arg = Plain(r)
  BY <1>2, <1>5, ZenonT(60) DEF ClaimedEntry, Plain, IInv, TypeOK, SharedOK, Entry
<1>7. ASSUME NEW s \in Requests, s # r PROVE Kept(s) /\ (InFlight(s) => slot[s] # i)
  <2>1. slot'[s] = slot[s] /\ result'[s] = result[s]
    BY <1>3, <1>7, Zenon DEF IInv, TypeOK, LocalsOK
  <2>2. InFlight(s) => slot[s] # i /\ slot[s] \in Slots
    BY <1>3, Zenon DEF IInv, EntryInv, UsedInv, InFlight, TypeOK, LocalsOK
  <2>3. InFlight(s) => shm'[slot[s]] = [shm[slot[s]] EXCEPT !.mutex = shm'[slot[s]].mutex]
    BY <1>5, <2>2, Zenon DEF IInv, TypeOK, SharedOK, Entry
  <2> QED BY <2>1, <2>2, <2>3, Zenon DEF Kept
<1> QED BY <1>1, <1>2, <1>4, <1>6, <1>7, ZenonT(60) DEF r, i

(* A look at an entry in is_request_done: it delivers the argument of a    *)
(* done entry and leaves every other request its entry, or it leaves them  *)
(* all.                                                                    *)
LEMMA PollEffect ==
  ASSUME IInv, NEW t \in Threads, PollEntry(t)
  PROVE  \/ stage' = stage /\ \A s \in Requests : Kept(s)
         \/ LET r == polled(t) IN
            /\ Moved(r, "done", "delivered")
            /\ InFlight(r) /\ result'[r] # None
            /\ result'[r] = shm[slot[r]].arg
            /\ \A s \in Requests : s # r => Kept(s)
<1> DEFINE r == polled(t)
           i == slot[r]
<1>1. r \in Requests /\ i \in Slots /\ InFlight(r) /\ slot' = slot
  BY PolledFacts, Zenon DEF IInv, TypeOK, PollEntry, ControlInv, PolledInv
<1>2. CASE ~EntryDone(i)
  <2>1. result' = result /\ stage' = stage /\ shm' = [shm EXCEPT ![i].mutex = FALSE]
    BY <1>2 DEF PollEntry
  <2> HIDE DEF r, i
  <2>2. \A j \in Slots : shm'[j] = [shm[j] EXCEPT !.mutex = shm'[j].mutex]
    BY <1>1, <2>1, Zenon DEF IInv, TypeOK, SharedOK, Entry
  <2>3. \A s \in Requests : Kept(s)
    BY <1>1, <2>1, <2>2, ZenonT(60) DEF Kept, InFlight, IInv, TypeOK, LocalsOK
  <2> QED BY <2>1, <2>3
<1>3. CASE EntryDone(i)
  <2>1. /\ result' = [result EXCEPT ![r] = shm[i].arg]
        /\ shm' = [shm EXCEPT ![i] = FreedEntry(shm[i])]
    BY <1>3 DEF PollEntry
  <2>2. Moved(r, "done", "delivered")
    <3>1. stage[r] = "done"
      BY <1>1, <1>3, Zenon DEF IInv, EntryInv, DoneInv, EntryDone
    <3> QED BY <1>1, <1>3, <3>1, Zenon DEF PollEntry, Moved
  <2> HIDE DEF r
  <2>3. shm[i].arg # None
    BY <1>1, NoneFacts, ZenonT(60) DEF IInv, TypeOK, SharedOK, Entry
  <2>4. result'[r] = shm[i].arg /\ result'[r] # None
    BY <1>1, <2>1, <2>3, Zenon DEF IInv, TypeOK, LocalsOK, InFlight
  <2>5. ASSUME NEW s \in Requests, s # r PROVE Kept(s)
    <3>1. slot'[s] = slot[s] /\ result'[s] = result[s]
      BY <1>1, <2>1, <2>5, Zenon DEF IInv, TypeOK, LocalsOK
    <3>2. InFlight(s) => slot[s] # i /\ slot[s] \in Slots
      BY <1>1, <2>5, Zenon DEF IInv, EntryExclusive, InFlight, TypeOK, LocalsOK
    <3>3. InFlight(s) => shm'[slot[s]] = [shm[slot[s]] EXCEPT !.mutex = shm'[slot[s]].mutex]
      BY <1>1, <2>1, <3>2, Zenon DEF IInv, TypeOK, SharedOK, Entry
    <3> QED BY <3>1, <3>3, Zenon DEF Kept
  <2> QED BY <1>1, <2>2, <2>4, <2>5, ZenonT(60) DEF r
<1> QED BY <1>2, <1>3, Zenon

(* A write of handle_request to the entry of its request leaves every      *)
(* other request its entry.                                                *)
LEMMA ServeEffect ==
  ASSUME IInv, NEW w \in Workers, NEW e \in Entry, spc[w] \in Busy, UNCHANGED <<slot, result>>,
         shm' = [shm EXCEPT ![slot[sreq[w]]] = e]
  PROVE  /\ shm'[slot[sreq[w]]] = e
         /\ \A s \in Requests : s # sreq[w] => Kept(s)
<1> DEFINE r == sreq[w]
           i == slot[r]
<1>1. r \in Requests /\ i \in Slots /\ InFlight(r)
  BY ServedFacts, SMTT(60)
<1>2. shm' = [shm EXCEPT ![i] = e]
  BY Zenon
<1> HIDE DEF r, i
<1>3. shm'[i] = e /\ \A j \in Slots : j # i => shm'[j] = shm[j]
  BY <1>1, <1>2, Zenon DEF IInv, TypeOK, SharedOK
<1>4. ASSUME NEW s \in Requests, s # r PROVE Kept(s)
  <2>0. EntryExclusive /\ slot \in [Requests -> Slots \cup {None}]
    BY ZenonT(60) DEF IInv, TypeOK, LocalsOK
  <2>1. InFlight(s) => slot[s] # i /\ slot[s] \in Slots
    BY <1>1, <1>4, <2>0, ZenonT(60) DEF i, EntryExclusive, InFlight
  <2>2. InFlight(s) => shm'[slot[s]] = [shm[slot[s]] EXCEPT !.mutex = shm'[slot[s]].mutex]
    BY <1>3, <2>1, Zenon DEF IInv, TypeOK, SharedOK, Entry
  <2> QED BY <2>2, SMTT(60) DEF Kept
<1> QED BY <1>3, <1>4, ZenonT(60) DEF r, i

(* compress_service rewrites the argument of its request's entry only. *)
LEMMA CompressEffect ==
  ASSUME IInv, NEW w \in Workers, Compress(w)
  PROVE  LET r == sreq[w]
             i == slot[r]
         IN  /\ r \in Requests /\ i \in Slots /\ InFlight(r) /\ stage[r] = "received"
             /\ slot' = slot /\ slot'[r] # None /\ result'[r] = None
             /\ UNCHANGED <<stage, result>>
             /\ shm'[i].used = shm[i].used /\ shm'[i].done = shm[i].done
             /\ shm'[i].arg = Compressed(shm[i].arg)
             /\ \A s \in Requests : s # r => Kept(s)
<1> DEFINE r == sreq[w]
           i == slot[r]
           e == [shm[i] EXCEPT !.arg = Compressed(shm[i].arg)]
<1>1. spc[w] \in Busy /\ UNCHANGED <<slot, result, stage>> /\ shm' = [shm EXCEPT ![i] = e]
  BY DEF Compress, Busy, locals
<1>2. r \in Requests /\ i \in Slots /\ InFlight(r) /\ stage[r] = "received"
  BY <1>1, ServedFacts
<1>3. shm[i] \in Entry /\ e \in Entry
  BY <1>2, EntryFacts, ZenonT(60) DEF IInv, TypeOK, SharedOK, Entry
<1>4. shm'[i] = e /\ \A s \in Requests : s # r => Kept(s)
  BY <1>1, <1>3, ServeEffect, ZenonT(60)
<1>5. e.used = shm[i].used /\ e.done = shm[i].done /\ e.arg = Compressed(shm[i].arg)
  BY <1>3 DEF Entry
<1> QED BY <1>1, <1>2, <1>4, <1>5, ZenonT(60) DEF InFlight

(* handle_request marks its request's entry done and nothing else. *)
LEMMA MarkEffect ==
  ASSUME IInv, NEW w \in Workers, MarkDone(w)
  PROVE  LET r == sreq[w]
             i == slot[r]
         IN  /\ Moved(r, "received", "done") /\ i \in Slots /\ InFlight(r)
             /\ slot' = slot /\ slot'[r] # None /\ result'[r] = None
             /\ shm'[i].used = shm[i].used /\ shm'[i].done
             /\ shm'[i].arg = shm[i].arg
             /\ \A s \in Requests : s # r => Kept(s)
<1> DEFINE r == sreq[w]
           i == slot[r]
           e == [shm[i] EXCEPT !.done = TRUE]
<1>1. spc[w] \in Busy /\ UNCHANGED <<slot, result>> /\ shm' = [shm EXCEPT ![i] = e]
  BY DEF MarkDone, Busy, locals
<1>2. r \in Requests /\ i \in Slots /\ InFlight(r) /\ stage[r] = "received"
  BY <1>1, ServedFacts
<1>3. shm[i] \in Entry /\ e \in Entry
  BY <1>2, ZenonT(60) DEF IInv, TypeOK, SharedOK, Entry
<1>4. shm'[i] = e /\ \A s \in Requests : s # r => Kept(s)
  BY <1>1, <1>3, ServeEffect, ZenonT(60)
<1>5. e.used = shm[i].used /\ e.done = TRUE /\ e.arg = shm[i].arg
  BY <1>3, ZenonT(60) DEF Entry
<1> QED BY <1>1, <1>2, <1>4, <1>5, MarkMoves, ZenonT(60) DEF InFlight

(* Only these actions write slot, result, shm. *)
LEMMA DataFrame ==
  [Next]_vars =>
    \/ UNCHANGED <<slot, result, shm>>
    \/ \E t \in Threads : ClaimEntry(t) \/ PollLock(t) \/ PollEntry(t)
    \/ \E w \in Workers : Compress(w) \/ MarkDone(w)
    \/ ServerResizeStart \/ CopyStore
  BY ZenonT(60) DEF Next, ClientStep, ThreadStep, QueueWorkerStep, ServerStep, ServiceStep,
     ServerResizeStep,
     Prepare, LockEntryIdx, SkipEntry, Enqueue, ResizeCheck, ResizeMap, ResizeFail,
     ResizeNotify, ResizeReply, JoinReturn, PollSkip, PollAddress, PollFault,
     WorkerCheck, WorkerDequeue, WorkerSend, ReceiveNothing, ReceiveResize,
     ReceiveRequest, StartRequest, CompleteRequest, ServerResizeJoin, CopyLoad,
     ServerResizeRespond, ServerResizeFinish, RegisterClient, vars, locals, globals,
     queue, shared, mqueues, workers, resizer

(* Apart from a claim, a delivery, compress_service and the marking, no    *)
(* step changes more of an entry in flight than its mutex: neither the     *)
(* initialisation of new entries nor the memcpy of the server's resize_shm *)
(* does.                                                                   *)
LEMMA EntryFrame ==
  ASSUME IInv, [Next]_vars
  PROVE  \/ \A r \in Requests : Kept(r)
         \/ \E t \in Threads : ClaimEntry(t) \/ (PollEntry(t) /\ ~Same("done"))
         \/ \E w \in Workers : Compress(w) \/ MarkDone(w)
<1>0. \A r \in Requests : InFlight(r) => slot[r] \in Slots /\ slot[r] \in Nat
  <2>1. \A r \in Requests : InFlight(r) => slot[r] \in Slots
    BY Zenon DEF InFlight, IInv, TypeOK, LocalsOK
  <2> QED BY <2>1, Sizes, SMTT(60) DEF Slots
<1>1. ASSUME UNCHANGED <<slot, result>>,
             \A r \in Requests : InFlight(r) =>
                shm'[slot[r]] = [shm[slot[r]] EXCEPT !.mutex = shm'[slot[r]].mutex]
      PROVE  \A r \in Requests : Kept(r)
  BY <1>1 DEF Kept
<1>2. CASE UNCHANGED <<slot, result, shm>>
  <2>1. \A r \in Requests : InFlight(r) =>
           shm'[slot[r]] = [shm[slot[r]] EXCEPT !.mutex = shm'[slot[r]].mutex]
    BY <1>0, <1>2, Zenon DEF IInv, TypeOK, SharedOK, Entry
  <2> QED BY <1>1, <1>2, <2>1, SMTT(60)
<1>3. ASSUME NEW t \in Threads, PollLock(t) PROVE \A r \in Requests : Kept(r)
  <2>1. UNCHANGED <<slot, result>>
    BY <1>3 DEF PollLock
  <2>2. \A r \in Requests : InFlight(r) =>
           shm'[slot[r]] = [shm[slot[r]] EXCEPT !.mutex = shm'[slot[r]].mutex]
    BY <1>0, <1>3, ZenonT(60) DEF PollLock, IInv, TypeOK, SharedOK, Entry
  <2> QED BY <1>1, <2>1, <2>2, SMTT(60)
<1>4. ASSUME ServerResizeStart PROVE \A r \in Requests : Kept(r)
  <2>1. UNCHANGED <<slot, result>>
    BY <1>4, Zenon DEF ServerResizeStart, locals
  <2>2. \A r \in Requests : InFlight(r) => slot[r] \notin NewEntries
    BY <1>0, <1>4, SMTT(60) DEF ServerResizeStart, NewEntries, IInv, ServerSizeInv, JoinedInv,
       EntryInv,
       RangeInv, TypeOK, GlobalsOK, SharedOK, ResizerOK
  <2>3. \A r \in Requests : InFlight(r) => shm'[slot[r]] = shm[slot[r]]
    BY <1>0, <1>4, <2>2, SMTT(60) DEF ServerResizeStart
  <2>4. \A r \in Requests : InFlight(r) =>
           shm'[slot[r]] = [shm[slot[r]] EXCEPT !.mutex = shm'[slot[r]].mutex]
    BY <1>0, <2>3, Zenon DEF IInv, TypeOK, SharedOK, Entry
  <2> QED BY <1>1, <2>1, <2>4, Zenon
<1>5. ASSUME CopyStore PROVE \A r \in Requests : Kept(r)
  <2>1. UNCHANGED <<slot, result>>
    BY <1>5 DEF CopyStore, locals
  <2>2. ASSUME NEW r \in Requests, InFlight(r)
        PROVE  shm'[slot[r]] = [shm[slot[r]] EXCEPT !.mutex = shm'[slot[r]].mutex]
    <3>0. slot[r] \in Slots /\ shm[slot[r]] \in Entry
      BY <1>0, <2>2, Zenon DEF IInv, TypeOK, SharedOK
    <3>1. CASE slot[r] # copied
      <4>1. shm'[slot[r]] = shm[slot[r]]
        BY <1>5, <3>0, <3>1, Zenon DEF CopyStore, IInv, TypeOK, SharedOK
      <4> QED BY <3>0, <4>1, Zenon DEF Entry
    <3>2. CASE slot[r] = copied /\ copy_pos % 2 = 0
      <4>1. shm'[copied] = [copy_buf EXCEPT !.mutex = shm[copied].mutex]
        BY <1>5, <3>0, <3>2, Zenon DEF CopyStore, IInv, TypeOK, SharedOK
      <4>2. shm'[copied] = shm[copied]
        BY <1>5, <2>2, <3>2, <4>1, Zenon DEF CopyStore, IInv, CopyHarmless
      <4> QED BY <3>0, <3>2, <4>2, Zenon DEF Entry
    <3>3. CASE slot[r] = copied /\ copy_pos % 2 # 0
      <4>1. shm'[copied] = [shm[copied] EXCEPT !.mutex = copy_buf.mutex]
        BY <1>5, <3>0, <3>3, ZenonT(60) DEF CopyStore, IInv, TypeOK, SharedOK
      <4> QED BY <3>0, <3>3, <4>1, Zenon DEF Entry
    <3> QED BY <3>1, <3>2, <3>3, Zenon
  <2> QED BY <1>1, <2>1, <2>2, SMTT(60)
<1>6. ASSUME NEW t \in Threads, PollEntry(t), Same("done") PROVE \A r \in Requests : Kept(r)
  BY <1>6, PollEffect, Zenon DEF Moved, Same, IInv, TypeOK
<1> QED BY <1>2, <1>3, <1>4, <1>5, <1>6, DataFrame

-----------------------------------------------------------------------------
(* Every step preserves the types, and the invariants of the calls under     *)
(* way: one lemma for each part of the invariant, and in it one step for     *)
(* each action that can disturb it.                                          *)

(*****************************************************************************)
(* Types                                                                     *)
(*****************************************************************************)

(* Only these actions write locals. *)
LEMMA LocalsFrame ==
  [Next]_vars =>
    \/ UNCHANGED locals
    \/ \E t \in Threads :
          \/ Prepare(t) \/ LockEntryIdx(t) \/ SkipEntry(t) \/ ClaimEntry(t)
          \/ Enqueue(t) \/ ResizeCheck(t) \/ ResizeMap(t) \/ ResizeFail(t)
          \/ ResizeNotify(t) \/ ResizeReply(t) \/ JoinReturn(t) \/ PollSkip(t)
          \/ PollAddress(t) \/ PollLock(t) \/ PollEntry(t)
  BY ZenonT(60) DEF Next, ClientStep, ThreadStep, QueueWorkerStep, ServerStep, ServiceStep,
     ServerResizeStep,
     PollFault, WorkerCheck, WorkerDequeue, WorkerSend, ReceiveNothing, ReceiveResize,
     ReceiveRequest, StartRequest, Compress, MarkDone, CompleteRequest,
     ServerResizeStart, ServerResizeJoin, CopyLoad, CopyStore, ServerResizeRespond,
     ServerResizeFinish, RegisterClient, vars, locals, globals, queue, shared, mqueues,
     workers, resizer

(* Every step keeps the types of the threads' locals. *)
LEMMA LocalsStep ==
  ASSUME IInv, [Next]_vars
  PROVE  LocalsOK'
<1>1. CASE UNCHANGED locals
  BY <1>1, Zenon DEF IInv, TypeOK, LocalsOK, locals
<1>2. ASSUME NEW t \in Threads, Prepare(t) PROVE LocalsOK'
  <2>1. pc' \in [Threads -> ClientPcs]
    <3>1. AfterError(t) \in ClientPcs /\ "lock" \in ClientPcs
      BY SMTT(60) DEF AfterError, ClientPcs
    <3> QED BY <1>2, <3>1, Zenon DEF IInv, TypeOK, LocalsOK, Prepare, Goto
  <2>2. pos' \in [Threads -> Nat \ {0}]
    <3>1. pos \in [Threads -> Nat \ {0}] /\ (pos' = pos \/ pos' = [pos EXCEPT ![t] = @ + 1])
      BY <1>2, Zenon DEF IInv, TypeOK, LocalsOK, Prepare
    <3> QED BY <3>1, SMTT(60)
  <2> QED BY <1>2, <2>1, <2>2, Zenon DEF IInv, TypeOK, LocalsOK, Prepare
<1>3. ASSUME NEW t \in Threads, LockEntryIdx(t) PROVE LocalsOK'
  <2>1. pc' \in [Threads -> ClientPcs]
    BY <1>3, Zenon DEF IInv, TypeOK, LocalsOK, ClientPcs, LockEntryIdx, Goto
  <2>2. scan' \in [Threads -> [idx : Nat, size : Nat]]
    <3>1. /\ scan \in [Threads -> [idx : Nat, size : Nat]] /\ client_shm_size \in 1..MaxEntries
          /\ scan' = [scan EXCEPT ![t] = [idx |-> 0, size |-> client_shm_size]]
      BY <1>3, Zenon DEF IInv, TypeOK, LocalsOK, GlobalsOK, LockEntryIdx
    <3> QED BY <3>1, Sizes, SMTT(60)
  <2> QED BY <1>3, <2>1, <2>2, Zenon DEF IInv, TypeOK, LocalsOK, LockEntryIdx
<1>4. ASSUME NEW t \in Threads, SkipEntry(t) PROVE LocalsOK'
  <2>1. pc' \in [Threads -> ClientPcs]
    BY <1>4, Zenon DEF IInv, TypeOK, LocalsOK, ClientPcs, SkipEntry, Goto, AtEntry
  <2>2. scan' \in [Threads -> [idx : Nat, size : Nat]]
    <3>1. /\ scan \in [Threads -> [idx : Nat, size : Nat]]
          /\ scan' = [scan EXCEPT ![t].idx = (@ + 1) % scan[t].size]
      BY <1>4, Zenon DEF IInv, TypeOK, LocalsOK, SkipEntry
    <3>2. (scan[t].idx + 1) % scan[t].size \in 0..(scan[t].size - 1)
      BY <1>4, ScanNext, Zenon DEF IInv, TypeOK, SkipEntry
    <3> QED BY <3>1, <3>2, SMTT(60)
  <2> QED BY <1>4, <2>1, <2>2, Zenon DEF IInv, TypeOK, LocalsOK, SkipEntry
<1>5. ASSUME NEW t \in Threads, ClaimEntry(t) PROVE LocalsOK'
  <2>1. pc' \in [Threads -> ClientPcs]
    BY <1>5, Zenon DEF IInv, TypeOK, LocalsOK, ClientPcs, ClaimEntry, Goto, AtEntry,
       ClaimedEntry, cur
  <2>2. scan' \in [Threads -> [idx : Nat, size : Nat]]
    BY <1>5, Zenon DEF IInv, TypeOK, LocalsOK, ClaimEntry, Goto, AtEntry, ClaimedEntry, cur
  <2>3. slot' \in [Requests -> Slots \cup {None}]
    BY <1>5, ClaimFacts, ZenonT(60) DEF IInv, TypeOK, LocalsOK, ClaimEntry
  <2> QED BY <1>5, <2>1, <2>2, <2>3, Zenon DEF IInv, TypeOK, LocalsOK, ClaimEntry
<1>6. ASSUME NEW t \in Threads, Enqueue(t) PROVE LocalsOK'
  <2>1. AfterCall(t) \in ClientPcs
    BY SMTT(60) DEF AfterCall, AfterError, ClientPcs
  <2>2. LocalsOK
    BY Zenon DEF IInv, TypeOK
  <2>3. /\ pc' = [pc EXCEPT ![t] = AfterCall(t)] /\ pos' = [pos EXCEPT ![t] = @ + 1]
        /\ UNCHANGED <<scan, poll, ptr, slot, result>>
    BY <1>6, Zenon DEF Enqueue, Goto
  <2>4. pos' \in [Threads -> Nat \ {0}]
    <3>1. pos \in [Threads -> Nat \ {0}]
      BY <2>2, Zenon DEF LocalsOK
    <3> QED BY <2>3, <3>1, SMTT(60)
  <2> QED BY <2>1, <2>2, <2>3, <2>4, ZenonT(60) DEF LocalsOK
<1>7. ASSUME NEW t \in Threads, ResizeCheck(t) PROVE LocalsOK'
  BY <1>7, CurFacts, Zenon DEF IInv, TypeOK, LocalsOK, ClientPcs, ResizeCheck, Goto
<1>8. ASSUME NEW t \in Threads, ResizeMap(t) PROVE LocalsOK'
  BY <1>8, CurFacts, Zenon DEF IInv, TypeOK, LocalsOK, ClientPcs, ResizeMap, Goto
<1>9. ASSUME NEW t \in Threads, ResizeFail(t) PROVE LocalsOK'
  BY <1>9, CurFacts, Zenon DEF IInv, TypeOK, LocalsOK, ClientPcs, ResizeFail, Goto
<1>10. ASSUME NEW t \in Threads, ResizeNotify(t) PROVE LocalsOK'
  BY <1>10, CurFacts, Zenon DEF IInv, TypeOK, LocalsOK, ClientPcs, ResizeNotify, Goto
<1>11. ASSUME NEW t \in Threads, ResizeReply(t) PROVE LocalsOK'
  BY <1>11, CurFacts, Zenon DEF IInv, TypeOK, LocalsOK, ClientPcs, ResizeReply, Goto
<1>12. ASSUME NEW t \in Threads, JoinReturn(t) PROVE LocalsOK'
  BY <1>12, CurFacts, Zenon DEF IInv, TypeOK, LocalsOK, ClientPcs, JoinReturn, Goto
<1>13. ASSUME NEW t \in Threads, PollSkip(t) PROVE LocalsOK'
  <2>1. poll' \in [Threads -> Nat \ {0}]
    <3>1. Pending(t) # {} /\ poll' = [poll EXCEPT ![t] = NextPoll(t)]
      BY <1>13, SMTT(60) DEF PollSkip
    <3>2. poll \in [Threads -> Nat \ {0}]
      BY Zenon DEF IInv, TypeOK, LocalsOK
    <3>3. NextPoll(t) \in 1..Len(Collect[t])
      BY <3>1, PendingFacts, NextPollFacts, Zenon DEF IInv, TypeOK
    <3>4. NextPoll(t) \in Nat \ {0}
      BY <3>3, CallAssumption, SMTT(60)
    <3> QED BY <3>1, <3>2, <3>4, SMTT(60)
  <2> QED BY <1>13, <2>1, Zenon DEF IInv, TypeOK, LocalsOK, PollSkip
<1>14. ASSUME NEW t \in Threads, PollAddress(t) PROVE LocalsOK'
  <2>1. pc' \in [Threads -> ClientPcs]
    BY <1>14, Zenon DEF IInv, TypeOK, LocalsOK, ClientPcs, PollAddress, Goto
  <2>2. ptr' \in [Threads -> Nat]
    <3>1. /\ ptr \in [Threads -> Nat] /\ client_shm_size \in 1..MaxEntries
          /\ ptr' = [ptr EXCEPT ![t] = client_shm_size]
      BY <1>14, Zenon DEF IInv, TypeOK, LocalsOK, GlobalsOK, PollAddress
    <3> QED BY <3>1, Sizes, SMTT(60)
  <2> QED BY <1>14, <2>1, <2>2, Zenon DEF IInv, TypeOK, LocalsOK, PollAddress
<1>15. ASSUME NEW t \in Threads, PollLock(t) PROVE LocalsOK'
  BY <1>15, CurFacts, Zenon DEF IInv, TypeOK, LocalsOK, ClientPcs, PollLock, Goto
<1>16. ASSUME NEW t \in Threads, PollEntry(t) PROVE LocalsOK'
  <2>0. polled(t) \in Requests /\ slot[polled(t)] \in Slots /\ Collect[t] # <<>>
    BY <1>16, PolledFacts, Zenon DEF IInv, TypeOK, PollEntry
  <2>1. pc' \in [Threads -> ClientPcs]
    BY <1>16, Zenon DEF IInv, TypeOK, LocalsOK, ClientPcs, PollEntry, Goto, FreedEntry
  <2>2. poll' \in [Threads -> Nat \ {0}]
    <3>1. poll \in [Threads -> Nat \ {0}] /\ poll' = [poll EXCEPT ![t] = NextPoll(t)]
      BY <1>16, Zenon DEF IInv, TypeOK, LocalsOK, PollEntry
    <3>2. NextPoll(t) \in 1..Len(Collect[t])
      BY <2>0, NextPollFacts, Zenon DEF IInv, TypeOK
    <3> QED BY <3>1, <3>2, SMTT(60)
  <2>3. ptr' \in [Threads -> Nat]
    BY <1>16, Zenon DEF IInv, TypeOK, LocalsOK, PollEntry, Goto, FreedEntry
  <2>4. result' \in [Requests -> Arg \cup {None}]
    <3>1. shm[slot[polled(t)]].arg \in Arg
      BY <2>0, Zenon DEF IInv, TypeOK, SharedOK, Entry
    <3> QED BY <1>16, <2>0, <3>1, ZenonT(60) DEF IInv, TypeOK, LocalsOK, PollEntry
  <2> QED BY <1>16, <2>1, <2>2, <2>3, <2>4, Zenon DEF IInv, TypeOK, LocalsOK, PollEntry
<1> QED
  BY LocalsFrame, <1>1, <1>2, <1>3, <1>4, <1>5, <1>6, <1>7, <1>8, <1>9, <1>10, <1>11,
     <1>12, <1>13, <1>14, <1>15, <1>16, SMTT(60)

(* Only these actions write globals. *)
LEMMA GlobalsFrame ==
  [Next]_vars =>
    \/ UNCHANGED globals
    \/ \E t \in Threads :
          \/ LockEntryIdx(t) \/ ClaimEntry(t) \/ ResizeMap(t) \/ ResizeFail(t)
          \/ ResizeReply(t) \/ PollFault(t)
  BY ZenonT(60) DEF Next, ClientStep, ThreadStep, QueueWorkerStep, ServerStep, ServiceStep,
     ServerResizeStep,
     Prepare, SkipEntry, Enqueue, ResizeCheck, ResizeNotify, JoinReturn, PollSkip,
     PollAddress, PollLock, PollEntry, WorkerCheck, WorkerDequeue, WorkerSend,
     ReceiveNothing, ReceiveResize, ReceiveRequest, StartRequest, Compress, MarkDone,
     CompleteRequest, ServerResizeStart, ServerResizeJoin, CopyLoad, CopyStore,
     ServerResizeRespond, ServerResizeFinish, RegisterClient, vars, locals, globals,
     queue, shared, mqueues, workers, resizer

(* Every step keeps the types of the client's globals. *)
LEMMA GlobalsStep ==
  ASSUME IInv, [Next]_vars
  PROVE  GlobalsOK'
<1>1. CASE UNCHANGED globals
  BY <1>1, Zenon DEF IInv, TypeOK, GlobalsOK, globals
<1>2. ASSUME NEW t \in Threads, LockEntryIdx(t) PROVE GlobalsOK'
  BY <1>2, CurFacts, Zenon DEF IInv, TypeOK, GlobalsOK, LockEntryIdx, Goto
<1>3. ASSUME NEW t \in Threads, ClaimEntry(t) PROVE GlobalsOK'
  BY <1>3, CurFacts, Zenon DEF IInv, TypeOK, GlobalsOK, ClaimEntry, Goto, AtEntry,
     ClaimedEntry, cur
<1>4. ASSUME NEW t \in Threads, ResizeMap(t) PROVE GlobalsOK'
  BY <1>4, CurFacts, Zenon DEF IInv, TypeOK, GlobalsOK, ResizeMap, Goto
<1>5. ASSUME NEW t \in Threads, ResizeFail(t) PROVE GlobalsOK'
  BY <1>5, CurFacts, Zenon DEF IInv, TypeOK, GlobalsOK, ResizeFail, Goto
<1>6. ASSUME NEW t \in Threads, ResizeReply(t) PROVE GlobalsOK'
  <2>1. shm_resize_lock' \in Threads \cup {None}
    BY <1>6, Zenon DEF IInv, TypeOK, GlobalsOK, ResizeReply, Goto
  <2>2. client_shm_size' \in 1..MaxEntries
    BY <1>6, Zenon DEF IInv, TypeOK, GlobalsOK, SharedOK, LengthInv, ResizeReply
  <2> QED BY <1>6, <2>1, <2>2, Zenon DEF IInv, TypeOK, GlobalsOK, ResizeReply
<1>7. ASSUME NEW t \in Threads, PollFault(t) PROVE GlobalsOK'
  BY <1>7, CurFacts, ZenonT(60) DEF IInv, TypeOK, GlobalsOK, PollFault
<1> QED
  BY GlobalsFrame, <1>1, <1>2, <1>3, <1>4, <1>5, <1>6, <1>7

(* Only these actions write queue. *)
LEMMA QueueFrame ==
  [Next]_vars =>
    \/ UNCHANGED queue
    \/ \E t \in Threads : Enqueue(t) \/ ResizeCheck(t) \/ ResizeReply(t)
    \/ WorkerCheck \/ WorkerDequeue \/ WorkerSend
  BY ZenonT(60) DEF Next, ClientStep, ThreadStep, QueueWorkerStep, ServerStep, ServiceStep,
     ServerResizeStep,
     Prepare, LockEntryIdx, SkipEntry, ClaimEntry, ResizeMap, ResizeFail, ResizeNotify,
     JoinReturn, PollSkip, PollAddress, PollLock, PollEntry, PollFault, ReceiveNothing,
     ReceiveResize, ReceiveRequest, StartRequest, Compress, MarkDone, CompleteRequest,
     ServerResizeStart, ServerResizeJoin, CopyLoad, CopyStore, ServerResizeRespond,
     ServerResizeFinish, RegisterClient, vars, locals, globals, queue, shared, mqueues,
     workers, resizer

(* Every step keeps the types of the request queue and its worker. *)
LEMMA QueueStep ==
  ASSUME IInv, [Next]_vars
  PROVE  QueueOK'
<1>1. CASE UNCHANGED queue
  BY <1>1, Zenon DEF IInv, TypeOK, QueueOK, queue
<1>2. ASSUME NEW t \in Threads, Enqueue(t) PROVE QueueOK'
  <2>1. PICK k \in InsertionPoints(request_q, cur(t)) :
               request_q' = InsertAt(request_q, k, cur(t))
    BY <1>2, Zenon DEF Enqueue
  <2>2. cur(t) \in Requests
    BY <1>2, CurFacts, Zenon DEF IInv, TypeOK, Enqueue
  <2>3. request_q' \in Seq(Requests)
    BY <2>1, <2>2, Insertion, Zenon DEF IInv, TypeOK, QueueOK
  <2> QED BY <1>2, <2>3, Zenon DEF IInv, TypeOK, QueueOK, Enqueue
<1>3. ASSUME NEW t \in Threads, ResizeCheck(t) PROVE QueueOK'
  BY <1>3, CurFacts, ZenonT(60) DEF IInv, TypeOK, QueueOK, ResizeCheck, Goto
<1>4. ASSUME NEW t \in Threads, ResizeReply(t) PROVE QueueOK'
  BY <1>4, CurFacts, ZenonT(60) DEF IInv, TypeOK, QueueOK, ResizeReply, Goto
<1>5. ASSUME WorkerCheck PROVE QueueOK'
  BY <1>5, CurFacts, Zenon DEF IInv, TypeOK, QueueOK, WorkerCheck
<1>6. ASSUME WorkerDequeue PROVE QueueOK'
  <2>1. QueueOK
    BY Zenon DEF IInv, TypeOK
  <2>2. CASE request_q = <<>>
    BY <1>6, <2>1, <2>2, Zenon DEF QueueOK, WorkerDequeue
  <2>3. CASE request_q # <<>>
    <3>1. Head(request_q) \in Requests /\ Tail(request_q) \in Seq(Requests)
      BY <2>1, <2>3, HeadFacts, Zenon DEF QueueOK
    <3> QED BY <1>6, <2>1, <2>3, <3>1, Zenon DEF QueueOK, WorkerDequeue
  <2> QED BY <2>2, <2>3, Zenon
<1>7. ASSUME WorkerSend PROVE QueueOK'
  BY <1>7, CurFacts, Zenon DEF IInv, TypeOK, QueueOK, WorkerSend
<1> QED
  BY QueueFrame, <1>1, <1>2, <1>3, <1>4, <1>5, <1>6, <1>7

(* Only these actions write shared. *)
LEMMA SharedFrame ==
  [Next]_vars =>
    \/ UNCHANGED shared
    \/ \E t \in Threads : ClaimEntry(t) \/ ResizeMap(t) \/ PollLock(t) \/ PollEntry(t)
    \/ \E w \in Workers : Compress(w) \/ MarkDone(w)
    \/ ServerResizeStart \/ CopyStore
  BY ZenonT(60) DEF Next, ClientStep, ThreadStep, QueueWorkerStep, ServerStep, ServiceStep,
     ServerResizeStep,
     Prepare, LockEntryIdx, SkipEntry, Enqueue, ResizeCheck, ResizeFail, ResizeNotify,
     ResizeReply, JoinReturn, PollSkip, PollAddress, PollFault, WorkerCheck,
     WorkerDequeue, WorkerSend, ReceiveNothing, ReceiveResize, ReceiveRequest,
     StartRequest, CompleteRequest, ServerResizeJoin, CopyLoad, ServerResizeRespond,
     ServerResizeFinish, RegisterClient, vars, locals, globals, queue, shared, mqueues,
     workers, resizer

(* Every step keeps the types of the shared memory. *)
LEMMA SharedStep ==
  ASSUME IInv, [Next]_vars
  PROVE  SharedOK'
<1>1. CASE UNCHANGED shared
  BY <1>1, Zenon DEF IInv, TypeOK, SharedOK, shared
<1>2. ASSUME NEW t \in Threads, ClaimEntry(t) PROVE SharedOK'
  <2>1. shm' \in [Slots -> Entry]
    BY <1>2, EntryFacts, ClaimFacts, ZenonT(60) DEF IInv, TypeOK, SharedOK, ClaimEntry
  <2> QED BY <1>2, <2>1, Zenon DEF IInv, TypeOK, SharedOK, ClaimEntry
<1>3. ASSUME NEW t \in Threads, ResizeMap(t) PROVE SharedOK'
  <2>1. shm_len' \in 1..MaxEntries
    <3>1. client_shm_size \in 1..MaxEntries /\ shm_len' = NewSize /\ NewSize <= MaxEntries
      BY <1>3, Zenon DEF IInv, TypeOK, GlobalsOK, LengthInv, ResizeMap
    <3> QED BY <3>1, Sizes, SMTT(60) DEF NewSize
  <2> QED BY <1>3, <2>1, Zenon DEF IInv, TypeOK, SharedOK, ResizeMap
<1>4. ASSUME NEW t \in Threads, PollLock(t) PROVE SharedOK'
  <2>1. shm' \in [Slots -> Entry]
    BY <1>4, ZenonT(60) DEF IInv, TypeOK, SharedOK, Entry, PollLock
  <2> QED BY <1>4, <2>1, Zenon DEF IInv, TypeOK, SharedOK, PollLock
<1>5. ASSUME NEW t \in Threads, PollEntry(t) PROVE SharedOK'
  <2>0. polled(t) \in Requests /\ slot[polled(t)] \in Slots /\ Collect[t] # <<>>
    BY <1>5, PolledFacts, Zenon DEF IInv, TypeOK, PollEntry
  <2>1. shm' \in [Slots -> Entry]
    <3>1. FreedEntry(shm[slot[polled(t)]]) \in Entry
      BY <2>0, EntryFacts, Zenon DEF IInv, TypeOK, SharedOK
    <3>2. [shm[slot[polled(t)]] EXCEPT !.mutex = FALSE] \in Entry
      BY <2>0, ZenonT(60) DEF IInv, TypeOK, SharedOK, Entry
    <3> QED BY <1>5, <2>0, <3>1, <3>2, Zenon DEF IInv, TypeOK, SharedOK, PollEntry
  <2> QED BY <1>5, <2>1, Zenon DEF IInv, TypeOK, SharedOK, PollEntry
<1>6. ASSUME NEW w \in Workers, Compress(w) PROVE SharedOK'
  <2>1. shm' \in [Slots -> Entry]
    BY <1>6, EntryFacts, ZenonT(60) DEF IInv, TypeOK, SharedOK, Entry, Compress
  <2> QED BY <1>6, <2>1, Zenon DEF IInv, TypeOK, SharedOK, Compress
<1>7. ASSUME NEW w \in Workers, MarkDone(w) PROVE SharedOK'
  <2>1. shm' \in [Slots -> Entry]
    BY <1>7, ZenonT(60) DEF IInv, TypeOK, SharedOK, Entry, MarkDone
  <2> QED BY <1>7, <2>1, Zenon DEF IInv, TypeOK, SharedOK, MarkDone
<1>8. ASSUME ServerResizeStart PROVE SharedOK'
  <2>1. shm' \in [Slots -> Entry]
    BY <1>8, EntryFacts, Zenon DEF IInv, TypeOK, SharedOK, ServerResizeStart
  <2> QED BY <1>8, <2>1, Zenon DEF IInv, TypeOK, SharedOK, ServerResizeStart
<1>9. ASSUME CopyStore PROVE SharedOK'
  <2>1. shm' \in [Slots -> Entry]
    BY <1>9, ZenonT(60) DEF IInv, TypeOK, SharedOK, ResizerOK, Entry, CopyStore
  <2> QED BY <1>9, <2>1, Zenon DEF IInv, TypeOK, SharedOK, CopyStore
<1> QED
  BY SharedFrame, <1>1, <1>2, <1>3, <1>4, <1>5, <1>6, <1>7, <1>8, <1>9

(* Only these actions write mqueues. *)
LEMMA MqueuesFrame ==
  [Next]_vars =>
    \/ UNCHANGED mqueues
    \/ \E t \in Threads : ResizeNotify(t) \/ ResizeReply(t)
    \/ \E w \in Workers : ReceiveResize(w) \/ ReceiveRequest(w)
    \/ WorkerSend \/ ServerResizeRespond
  BY ZenonT(60) DEF Next, ClientStep, ThreadStep, QueueWorkerStep, ServerStep, ServiceStep,
     ServerResizeStep,
     Prepare, LockEntryIdx, SkipEntry, ClaimEntry, Enqueue, ResizeCheck, ResizeMap,
     ResizeFail, JoinReturn, PollSkip, PollAddress, PollLock, PollEntry, PollFault,
     WorkerCheck, WorkerDequeue, ReceiveNothing, StartRequest, Compress, MarkDone,
     CompleteRequest, ServerResizeStart, ServerResizeJoin, CopyLoad, CopyStore,
     ServerResizeFinish, RegisterClient, vars, locals, globals, queue, shared, mqueues,
     workers, resizer

(* Every step keeps the message queues within mq_maxmsg. *)
LEMMA MqueuesStep ==
  ASSUME IInv, [Next]_vars
  PROVE  MqueuesOK'
<1>1. CASE UNCHANGED mqueues
  BY <1>1, Zenon DEF IInv, TypeOK, MqueuesOK, mqueues
<1>2. ASSUME NEW t \in Threads, ResizeNotify(t) PROVE MqueuesOK'
  <2>1. PICK k \in InsertionPoints(send_q, Resize) :
               send_q' = InsertAt(send_q, k, Resize)
    BY <1>2, Zenon DEF ResizeNotify
  <2>2. send_q' \in Seq(Requests \cup {Resize}) /\ Len(send_q') = Len(send_q) + 1
    <3>1. MqueuesOK
      BY Zenon DEF IInv, TypeOK
    <3> QED BY <2>1, <3>1, Insertion, SMTT(60) DEF MqueuesOK
  <2>3. MqueuesOK /\ Len(send_q) < MqMaxMsg /\ recv_q' = recv_q
    BY <1>2, Zenon DEF IInv, TypeOK, ResizeNotify
  <2> QED BY <2>2, <2>3, SizeAssumption, SMTT(60) DEF MqueuesOK
<1>3. ASSUME NEW t \in Threads, ResizeReply(t) PROVE MqueuesOK'
  <2>1. MqueuesOK /\ recv_q # <<>> /\ recv_q' = Tail(recv_q) /\ send_q' = send_q
    BY <1>3, Zenon DEF IInv, TypeOK, ResizeReply
  <2> QED BY <2>1, HeadTailProperties, SizeAssumption, SMTT(60) DEF MqueuesOK
<1>4. ASSUME WorkerSend PROVE MqueuesOK'
  <2>1. PICK k \in InsertionPoints(send_q, wreq) : send_q' = InsertAt(send_q, k, wreq)
    BY <1>4, Zenon DEF WorkerSend
  <2>2. wreq \in Requests
    BY <1>4, Zenon DEF IInv, TypeOK, QueueOK, PlaceInv, SendingInv, WorkerSend
  <2>3. send_q' \in Seq(Requests \cup {Resize}) /\ Len(send_q') = Len(send_q) + 1
    <3>1. send_q \in Seq(Requests \cup {Resize})
      BY Zenon DEF IInv, TypeOK, MqueuesOK
    <3> QED BY <2>1, <2>2, <3>1, Insertion, SMTT(60)
  <2>4. MqueuesOK /\ Len(send_q) < MqMaxMsg /\ recv_q' = recv_q
    BY <1>4, ZenonT(60) DEF IInv, TypeOK, WorkerSend
  <2> QED BY <2>3, <2>4, SizeAssumption, SMTT(60) DEF MqueuesOK
<1>5. ASSUME NEW w \in Workers, ReceiveResize(w) PROVE MqueuesOK'
  <2>1. MqueuesOK /\ send_q # <<>> /\ send_q' = Tail(send_q) /\ recv_q' = recv_q
    BY <1>5, Zenon DEF IInv, TypeOK, ReceiveResize
  <2> QED BY <2>1, HeadTailProperties, SizeAssumption, SMTT(60) DEF MqueuesOK
<1>6. ASSUME NEW w \in Workers, ReceiveRequest(w) PROVE MqueuesOK'
  <2>1. MqueuesOK /\ send_q # <<>> /\ send_q' = Tail(send_q) /\ recv_q' = recv_q
    BY <1>6, Zenon DEF IInv, TypeOK, ReceiveRequest
  <2> QED BY <2>1, HeadTailProperties, SizeAssumption, SMTT(60) DEF MqueuesOK
<1>7. ASSUME ServerResizeRespond PROVE MqueuesOK'
  <2>1. MqueuesOK
    BY Zenon DEF IInv, TypeOK
  <2>2. Len(recv_q) < MqMaxMsg /\ recv_q' = Append(recv_q, Resize) /\ send_q' = send_q
    BY <1>7, Zenon DEF ServerResizeRespond
  <2> QED BY <2>1, <2>2, SizeAssumption, SMTT(60) DEF MqueuesOK
<1> QED
  BY MqueuesFrame, <1>1, <1>2, <1>3, <1>4, <1>5, <1>6, <1>7

(* Only these actions write workers. *)
LEMMA WorkersFrame ==
  [Next]_vars =>
    \/ UNCHANGED workers
    \/ \E w \in Workers :
          \/ ReceiveNothing(w) \/ ReceiveResize(w) \/ ReceiveRequest(w)
          \/ StartRequest(w) \/ Compress(w) \/ MarkDone(w) \/ CompleteRequest(w)
    \/ RegisterClient \/ ServerResizeStart \/ ServerResizeFinish
  BY ZenonT(40) DEF Next, ClientStep, ThreadStep, QueueWorkerStep, ServerStep, ServiceStep,
     ServerResizeStep,
     Prepare, LockEntryIdx, SkipEntry, ClaimEntry, Enqueue, ResizeCheck, ResizeMap,
     ResizeFail, ResizeNotify, ResizeReply, JoinReturn, PollSkip, PollAddress, PollLock,
     PollEntry, PollFault, WorkerCheck, WorkerDequeue, WorkerSend, ServerResizeJoin,
     CopyLoad, CopyStore, ServerResizeRespond, vars, locals, globals, queue, shared,
     mqueues, workers, resizer

(* Every step keeps the types of the service threads. *)
LEMMA WorkersStep ==
  ASSUME IInv, [Next]_vars
  PROVE  WorkersOK'
<1>1. CASE UNCHANGED workers
  BY <1>1, Zenon DEF IInv, TypeOK, WorkersOK, workers
<1>2. ASSUME NEW w \in Workers, ReceiveNothing(w) PROVE WorkersOK'
  BY <1>2, CurFacts, Zenon DEF IInv, TypeOK, WorkersOK, ReceiveNothing
<1>3. ASSUME NEW w \in Workers, ReceiveResize(w) PROVE WorkersOK'
  BY <1>3, CurFacts, Zenon DEF IInv, TypeOK, WorkersOK, ReceiveResize, StopCheck
<1>4. ASSUME NEW w \in Workers, ReceiveRequest(w) PROVE WorkersOK'
  <2>1. Head(send_q) \in Requests
    <3>1. send_q \in Seq(Requests \cup {Resize}) /\ send_q # <<>> /\ Head(send_q) # Resize
      BY <1>4, Zenon DEF IInv, TypeOK, MqueuesOK, ReceiveRequest
    <3> QED BY <3>1, SMTT(60)
  <2> QED BY <1>4, <2>1, Zenon DEF IInv, TypeOK, WorkersOK, ReceiveRequest
<1>5. ASSUME NEW w \in Workers, StartRequest(w) PROVE WorkersOK'
  <2>1. num_requests_started \in Nat /\ num_requests_started' = num_requests_started + 1
    BY <1>5, Zenon DEF IInv, TypeOK, WorkersOK, StartRequest
  <2>2. num_requests_started' \in Nat
    BY <2>1, SMTT(60)
  <2> QED BY <1>5, <2>2, Zenon DEF IInv, TypeOK, WorkersOK, StartRequest
<1>6. ASSUME NEW w \in Workers, Compress(w) PROVE WorkersOK'
  BY <1>6, CurFacts, Zenon DEF IInv, TypeOK, WorkersOK, Compress
<1>7. ASSUME NEW w \in Workers, MarkDone(w) PROVE WorkersOK'
  BY <1>7, CurFacts, Zenon DEF IInv, TypeOK, WorkersOK, MarkDone
<1>8. ASSUME NEW w \in Workers, CompleteRequest(w) PROVE WorkersOK'
  <2>1. num_requests_completed \in Nat /\ num_requests_completed' = num_requests_completed + 1
    BY <1>8, Zenon DEF IInv, TypeOK, WorkersOK, CompleteRequest
  <2>2. num_requests_completed' \in Nat
    BY <2>1, SMTT(60)
  <2> QED BY <1>8, <2>2, ZenonT(60) DEF IInv, TypeOK, WorkersOK, CompleteRequest, StopCheck
<1>9. ASSUME ServerResizeStart PROVE WorkersOK'
  BY <1>9, CurFacts, Zenon DEF IInv, TypeOK, WorkersOK, ServerResizeStart
<1>10. ASSUME ServerResizeFinish PROVE WorkersOK'
  BY <1>10, CurFacts, ZenonT(60) DEF IInv, TypeOK, WorkersOK, ServerResizeFinish, StartedWorkers,
     SwitchedSize
<1>11. ASSUME RegisterClient PROVE WorkersOK'
  BY <1>11, CurFacts, ZenonT(60) DEF IInv, TypeOK, WorkersOK, RegisterClient, OpenedSize,
     StartedWorkers
<1> QED
  BY WorkersFrame, <1>1, <1>2, <1>3, <1>4, <1>5, <1>6, <1>7, <1>8, <1>9, <1>10, <1>11

(* Only these actions write resizer. *)
LEMMA ResizerFrame ==
  [Next]_vars =>
    \/ UNCHANGED resizer
    \/ \E w \in Workers : ReceiveResize(w)
    \/ RegisterClient \/ ServerResizeStart \/ ServerResizeJoin \/ CopyLoad
    \/ CopyStore \/ ServerResizeRespond \/ ServerResizeFinish
  BY ZenonT(60) DEF Next, ClientStep, ThreadStep, QueueWorkerStep, ServerStep, ServiceStep,
     ServerResizeStep,
     Prepare, LockEntryIdx, SkipEntry, ClaimEntry, Enqueue, ResizeCheck, ResizeMap,
     ResizeFail, ResizeNotify, ResizeReply, JoinReturn, PollSkip, PollAddress, PollLock,
     PollEntry, PollFault, WorkerCheck, WorkerDequeue, WorkerSend, ReceiveNothing,
     ReceiveRequest, StartRequest, Compress, MarkDone, CompleteRequest, vars, locals,
     globals, queue, shared, mqueues, workers, resizer

(* Every step keeps the types of the server's resize thread. *)
LEMMA ResizerStep ==
  ASSUME IInv, [Next]_vars
  PROVE  ResizerOK'
<1>1. CASE UNCHANGED resizer
  BY <1>1, Zenon DEF IInv, TypeOK, ResizerOK, resizer
<1>2. ASSUME NEW w \in Workers, ReceiveResize(w) PROVE ResizerOK'
  BY <1>2, CurFacts, ZenonT(60) DEF IInv, TypeOK, ResizerOK, ReceiveResize, StopCheck
<1>3. ASSUME ServerResizeStart PROVE ResizerOK'
  <2>1. /\ ResizerOK /\ shm_len \in 1..MaxEntries /\ new_shm_size' = shm_len /\ rpc' = "join"
        /\ UNCHANGED <<server_shm_size, copy_pos, copy_buf>>
    BY <1>3, Zenon DEF IInv, TypeOK, SharedOK, ServerResizeStart
  <2> QED BY <2>1, SMTT(60) DEF ResizerOK
<1>4. ASSUME ServerResizeJoin PROVE ResizerOK'
  BY <1>4, CurFacts, ZenonT(60) DEF IInv, TypeOK, ResizerOK, ServerResizeJoin
<1>5. ASSUME CopyLoad PROVE ResizerOK'
  <2>1. rpc' \in {"none", "start", "join", "load", "store", "respond", "finish"}
    BY <1>5, Zenon DEF IInv, TypeOK, ResizerOK, CopyLoad
  <2>2. copy_buf' \in Entry
    <3>1. /\ shm \in [Slots -> Entry] /\ server_shm_size \in 0..MaxEntries /\ copy_pos \in Nat
          /\ copy_buf \in Entry
          /\ copy_buf' = copy_buf \/ (copied < server_shm_size /\ copy_buf' = shm[copied])
      BY <1>5, Zenon DEF IInv, TypeOK, SharedOK, ResizerOK, CopyLoad
    <3> QED BY <3>1, Sizes, SMTT(60) DEF Slots, copied
  <2> QED BY <1>5, <2>1, <2>2, Zenon DEF IInv, TypeOK, ResizerOK, CopyLoad
<1>6. ASSUME CopyStore PROVE ResizerOK'
  <2>1. rpc' \in {"none", "start", "join", "load", "store", "respond", "finish"}
    BY <1>6, Zenon DEF IInv, TypeOK, ResizerOK, CopyStore
  <2>2. copy_pos' \in Nat
    BY <1>6 DEF IInv, TypeOK, ResizerOK, CopyStore
  <2>3. copy_buf' \in Entry
    BY <1>6, EntryFacts, Zenon DEF CopyStore
  <2> QED BY <1>6, <2>1, <2>2, <2>3, Zenon DEF IInv, TypeOK, ResizerOK, CopyStore
<1>7. ASSUME ServerResizeRespond PROVE ResizerOK'
  BY <1>7, CurFacts, Zenon DEF IInv, TypeOK, ResizerOK, ServerResizeRespond
<1>8. ASSUME ServerResizeFinish PROVE ResizerOK'
  <2>1. ResizerOK
    BY Zenon DEF IInv, TypeOK
  <2>2. /\ server_shm_size' = new_shm_size /\ new_shm_size' = 0 /\ rpc' = "none"
        /\ UNCHANGED <<copy_pos, copy_buf>>
    BY <1>8, Zenon DEF ServerResizeFinish, SwitchedSize
  <2> QED BY <2>1, <2>2, Sizes, SMTT(60) DEF ResizerOK
<1>9. ASSUME RegisterClient PROVE ResizerOK'
  <2>1. ResizerOK /\ shm_len \in 1..MaxEntries
    BY Zenon DEF IInv, TypeOK, SharedOK
  <2>2. /\ server_shm_size' = shm_len
        /\ UNCHANGED <<rpc, new_shm_size, copy_pos, copy_buf>>
    BY <1>9, Zenon DEF RegisterClient, OpenedSize
  <2> QED BY <2>1, <2>2, Sizes, SMTT(60) DEF ResizerOK
<1> QED
  BY ResizerFrame, <1>1, <1>2, <1>3, <1>4, <1>5, <1>6, <1>7, <1>8, <1>9

(*****************************************************************************)
(* Control of the client's threads, and what stage says of it                *)
(*****************************************************************************)

(* Only these actions write pc, request_entry_idx_mutex. *)
LEMMA LockFrame ==
  [Next]_vars =>
    \/ UNCHANGED <<pc, request_entry_idx_mutex>>
    \/ \E t \in Threads :
          \/ Prepare(t) \/ LockEntryIdx(t) \/ SkipEntry(t) \/ ClaimEntry(t)
          \/ Enqueue(t) \/ ResizeCheck(t) \/ ResizeMap(t) \/ ResizeFail(t)
          \/ ResizeNotify(t) \/ ResizeReply(t) \/ JoinReturn(t) \/ PollAddress(t)
          \/ PollLock(t) \/ PollEntry(t)
  BY ZenonT(60) DEF Next, ClientStep, ThreadStep, QueueWorkerStep, ServerStep, ServiceStep,
     ServerResizeStep,
     PollSkip, PollFault, WorkerCheck, WorkerDequeue, WorkerSend, ReceiveNothing,
     ReceiveResize, ReceiveRequest, StartRequest, Compress, MarkDone, CompleteRequest,
     ServerResizeStart, ServerResizeJoin, CopyLoad, CopyStore, ServerResizeRespond,
     ServerResizeFinish, RegisterClient, vars, locals, globals, queue, shared, mqueues,
     workers, resizer

(* Every step keeps find_shared_entry exclusive. *)
LEMMA LockStep ==
  ASSUME IInv, [Next]_vars
  PROVE  LockInv'
<1>1. CASE UNCHANGED <<pc, request_entry_idx_mutex>>
  BY <1>1, Zenon DEF IInv, LockInv, Critical, ControlInv
<1>2. ASSUME NEW t \in Threads, Prepare(t) PROVE LockInv'
  BY <1>2, PrepareFacts, ZenonT(60) DEF IInv, TypeOK, ControlInv, LockInv, Critical, Prepare,
     globals
<1>3. ASSUME NEW t \in Threads, LockEntryIdx(t) PROVE LockInv'
  BY <1>3, CallAssumption, ZenonT(60) DEF IInv, TypeOK, LocalsOK, GlobalsOK, LockInv, Critical,
     ControlInv, LockEntryIdx, Goto
<1>4. ASSUME NEW t \in Threads, SkipEntry(t) PROVE LockInv'
  BY <1>4, CallAssumption, ZenonT(60) DEF IInv, TypeOK, LocalsOK, GlobalsOK, LockInv, Critical,
     ControlInv, SkipEntry, Goto, AtEntry, globals
<1>5. ASSUME NEW t \in Threads, ClaimEntry(t) PROVE LockInv'
  BY <1>5, CallAssumption, ZenonT(60) DEF IInv, TypeOK, LocalsOK, GlobalsOK, LockInv, Critical,
     ControlInv, ClaimEntry, Goto, AtEntry, ClaimedEntry, cur
<1>6. ASSUME NEW t \in Threads, Enqueue(t) PROVE LockInv'
  BY <1>6, CallAssumption, ZenonT(60) DEF IInv, TypeOK, LocalsOK, GlobalsOK, LockInv, Critical,
     ControlInv, Enqueue, Goto, cur, AfterCall, AfterError, globals
<1>7. ASSUME NEW t \in Threads, ResizeCheck(t) PROVE LockInv'
  BY <1>7, ResizeCheckFacts, Zenon DEF IInv, TypeOK, ControlInv, LockInv, Critical,
     ResizeCheck, globals
<1>8. ASSUME NEW t \in Threads, ResizeMap(t) PROVE LockInv'
  BY <1>8, CallAssumption, Zenon DEF IInv, TypeOK, LocalsOK, GlobalsOK, LockInv, Critical,
     ControlInv, ResizeMap, Goto
<1>9. ASSUME NEW t \in Threads, ResizeFail(t) PROVE LockInv'
  BY <1>9, CallAssumption, Zenon DEF IInv, TypeOK, LocalsOK, GlobalsOK, LockInv, Critical,
     ControlInv, ResizeFail, Goto
<1>10. ASSUME NEW t \in Threads, ResizeNotify(t) PROVE LockInv'
  BY <1>10, CallAssumption, Zenon DEF IInv, TypeOK, LocalsOK, GlobalsOK, LockInv, Critical,
     ControlInv, ResizeNotify, Goto, globals
<1>11. ASSUME NEW t \in Threads, ResizeReply(t) PROVE LockInv'
  <2>1. pc \in [Threads -> ClientPcs] /\ LockInv
    BY Zenon DEF IInv, TypeOK, LocalsOK, ControlInv
  <2>2. /\ pc[t] = "rz_recv"
        /\ pc' = [pc EXCEPT ![t] = "entry"]
        /\ request_entry_idx_mutex' = request_entry_idx_mutex
    BY <1>11, ZenonT(60) DEF ResizeReply, Goto
  <2> QED BY <2>1, <2>2, Zenon DEF LockInv, Critical
<1>12. ASSUME NEW t \in Threads, JoinReturn(t) PROVE LockInv'
  BY <1>12, CallAssumption, ZenonT(60) DEF IInv, TypeOK, LocalsOK, GlobalsOK, LockInv, Critical,
     ControlInv, JoinReturn, Goto, globals
<1>13. ASSUME NEW t \in Threads, PollAddress(t) PROVE LockInv'
  BY <1>13, CallAssumption, Zenon DEF IInv, TypeOK, LocalsOK, GlobalsOK, LockInv, Critical,
     ControlInv, PollAddress, Goto, globals
<1>14. ASSUME NEW t \in Threads, PollLock(t) PROVE LockInv'
  BY <1>14, CallAssumption, ZenonT(60) DEF IInv, TypeOK, LocalsOK, GlobalsOK, LockInv, Critical,
     ControlInv, PollLock, Goto, globals
<1>15. ASSUME NEW t \in Threads, PollEntry(t) PROVE LockInv'
  BY <1>15, CallAssumption, ZenonT(60) DEF IInv, TypeOK, LocalsOK, GlobalsOK, LockInv, Critical,
     ControlInv, PollEntry, Goto, FreedEntry, globals
<1> QED
  BY LockFrame, <1>1, <1>2, <1>3, <1>4, <1>5, <1>6, <1>7, <1>8, <1>9, <1>10, <1>11,
     <1>12, <1>13, <1>14, <1>15, Zenon

(* Every step keeps the threads inside their programs. *)
LEMMA PosStep ==
  ASSUME IInv, [Next]_vars
  PROVE  PosInv'
<1>1. CASE UNCHANGED <<pc, pos>>
  BY <1>1, ZenonT(60) DEF IInv, PosInv, Critical, Unclaimed, ControlInv
<1>2. ASSUME NEW t \in Threads, Prepare(t) PROVE PosInv'
  <2>1. Len(Program[t]) \in Nat /\ pos[t] \in Nat /\ pos[t] <= Len(Program[t])
    <3>1. pos[t] \in 1..Len(Program[t])
      BY <1>2, PrepareFacts, CurFacts, Zenon DEF IInv, TypeOK, Unclaimed
    <3> QED BY <3>1, Lengths, SMTT(60)
  <2>2. CASE PriorityOK(cur(t))
    BY <1>2, <2>1, <2>2, PrepareFacts, Zenon DEF IInv, TypeOK, ControlInv, PosInv
  <2>3. CASE ~PriorityOK(cur(t))
    <3>1. pos'[t] = pos[t] + 1 /\ pc'[t] = AfterError(t)
      BY <1>2, <2>3, PrepareFacts, ZenonT(60) DEF IInv, TypeOK, LocalsOK
    <3>2. /\ pos'[t] <= Len(Program[t]) + 1
          /\ pc'[t] \in Unclaimed \cup {"enqueue"} => pos'[t] <= Len(Program[t])
      <4>1. AfterError(t) \in {"call", "wait"}
            /\ (AfterError(t) = "call" => pos[t] < Len(Program[t]))
        BY DEF AfterError
      <4>2. pos[t] + 1 <= Len(Program[t]) + 1
            /\ (pos[t] < Len(Program[t]) => pos[t] + 1 <= Len(Program[t]))
        BY <2>1, SMTT(60)
      <4> QED BY <3>1, <4>1, <4>2, ZenonT(60) DEF Unclaimed, Critical
    <3>3. \A u \in Threads : u # t => pc'[u] = pc[u] /\ pos'[u] = pos[u]
      BY <1>2, PrepareFacts, Zenon DEF IInv, TypeOK
    <3> QED BY <3>2, <3>3, ZenonT(60) DEF IInv, ControlInv, PosInv
  <2> QED BY <2>2, <2>3, Zenon
<1>3. ASSUME NEW t \in Threads, LockEntryIdx(t) PROVE PosInv'
  BY <1>3, CallAssumption, ZenonT(60) DEF IInv, TypeOK, LocalsOK, PosInv, Critical, Unclaimed,
     ControlInv, LockEntryIdx, Goto
<1>4. ASSUME NEW t \in Threads, SkipEntry(t) PROVE PosInv'
  BY <1>4, CallAssumption, Zenon DEF IInv, TypeOK, LocalsOK, PosInv, Critical, Unclaimed,
     ControlInv, SkipEntry, Goto, AtEntry
<1>5. ASSUME NEW t \in Threads, ClaimEntry(t) PROVE PosInv'
  BY <1>5, CallAssumption, Zenon DEF IInv, TypeOK, LocalsOK, PosInv, Critical, Unclaimed,
     ControlInv, ClaimEntry, Goto, AtEntry, ClaimedEntry, cur
<1>6. ASSUME NEW t \in Threads, Enqueue(t) PROVE PosInv'
  <2>1. Len(Program[t]) \in Nat /\ pos[t] \in Nat /\ pos[t] <= Len(Program[t])
    <3>1. pos \in [Threads -> Nat \ {0}] /\ PosInv /\ pc[t] = "enqueue"
      BY <1>6, Zenon DEF IInv, TypeOK, LocalsOK, ControlInv, Enqueue
    <3>2. Program[t] \in Seq(Requests)
      BY CallAssumption, Zenon
    <3> QED BY <3>1, <3>2, SMTT(60) DEF PosInv
  <2>2. AfterCall(t) \in {"call", "wait"} /\ (AfterCall(t) = "call" => pos[t] < Len(Program[t]))
    BY SMTT(60) DEF AfterCall, AfterError
  <2>3. pc \in [Threads -> ClientPcs] /\ pos \in [Threads -> Nat \ {0}] /\ PosInv
    BY Zenon DEF IInv, TypeOK, LocalsOK, ControlInv
  <2>4. pc' = [pc EXCEPT ![t] = AfterCall(t)] /\ pos' = [pos EXCEPT ![t] = @ + 1]
    BY <1>6, ZenonT(60) DEF Enqueue, Goto
  <2>5. /\ pos'[t] = pos[t] + 1
        /\ pc'[t] \in Unclaimed \cup {"enqueue"} => pos[t] + 1 <= Len(Program[t])
    BY <2>1, <2>2, <2>3, <2>4, SMTT(60) DEF Unclaimed, Critical
  <2>6. ASSUME NEW u \in Threads, u # t PROVE pos'[u] = pos[u] /\ pc'[u] = pc[u]
    BY <2>3, <2>4, <2>6, Zenon
  <2>7. pos'[t] <= Len(Program[t]) + 1
    BY <2>1, <2>5, SMTT(60)
  <2> QED BY <2>3, <2>5, <2>6, <2>7, ZenonT(60) DEF PosInv
<1>7. ASSUME NEW t \in Threads, ResizeCheck(t) PROVE PosInv'
  <2>1. /\ pc[t] = "scan" /\ pos' = pos
        /\ \A u \in Threads : u # t => pc'[u] = pc[u]
    BY <1>7, Zenon DEF ResizeCheck, Goto, IInv, TypeOK, LocalsOK
  <2> QED BY <2>1, Zenon DEF IInv, ControlInv, PosInv, Unclaimed, Critical
<1>8. ASSUME NEW t \in Threads, ResizeMap(t) PROVE PosInv'
  BY <1>8, CallAssumption, Zenon DEF IInv, TypeOK, LocalsOK, PosInv, Critical, Unclaimed,
     ControlInv, ResizeMap, Goto
<1>9. ASSUME NEW t \in Threads, ResizeFail(t) PROVE PosInv'
  BY <1>9, CallAssumption, Zenon DEF IInv, TypeOK, LocalsOK, PosInv, Critical, Unclaimed,
     ControlInv, ResizeFail, Goto
<1>10. ASSUME NEW t \in Threads, ResizeNotify(t) PROVE PosInv'
  BY <1>10, CallAssumption, Zenon DEF IInv, TypeOK, LocalsOK, PosInv, Critical, Unclaimed,
     ControlInv, ResizeNotify, Goto
<1>11. ASSUME NEW t \in Threads, ResizeReply(t) PROVE PosInv'
  BY <1>11, CallAssumption, Zenon DEF IInv, TypeOK, LocalsOK, PosInv, Critical, Unclaimed,
     ControlInv, ResizeReply, Goto
<1>12. ASSUME NEW t \in Threads, JoinReturn(t) PROVE PosInv'
  BY <1>12, CallAssumption, Zenon DEF IInv, TypeOK, LocalsOK, PosInv, Critical, Unclaimed,
     ControlInv, JoinReturn, Goto
<1>13. ASSUME NEW t \in Threads, PollAddress(t) PROVE PosInv'
  BY <1>13, CallAssumption, Zenon DEF IInv, TypeOK, LocalsOK, PosInv, Critical, Unclaimed,
     ControlInv, PollAddress, Goto
<1>14. ASSUME NEW t \in Threads, PollLock(t) PROVE PosInv'
  BY <1>14, CallAssumption, Zenon DEF IInv, TypeOK, LocalsOK, PosInv, Critical, Unclaimed,
     ControlInv, PollLock, Goto
<1>15. ASSUME NEW t \in Threads, PollEntry(t) PROVE PosInv'
  BY <1>15, CallAssumption, Zenon DEF IInv, TypeOK, LocalsOK, PosInv, Critical, Unclaimed,
     ControlInv, PollEntry, Goto, FreedEntry
<1> QED
  BY PosFrame, <1>1, <1>2, <1>3, <1>4, <1>5, <1>6, <1>7, <1>8, <1>9, <1>10, <1>11,
     <1>12, <1>13, <1>14, <1>15, ZenonT(60)

(* Only requests of a legal priority get past prepare_request. *)
LEMMA PriorityStep ==
  ASSUME IInv, [Next]_vars
  PROVE  PriorityInv'
<1>1. CASE UNCHANGED <<pc, pos>>
  BY <1>1, Zenon DEF IInv, PriorityInv, Critical, Unclaimed, cur, ControlInv
<1>2. ASSUME NEW t \in Threads, Prepare(t) PROVE PriorityInv'
  BY <1>2, PrepareFacts, Zenon DEF IInv, TypeOK, ControlInv, PriorityInv, Critical,
     Unclaimed, cur
<1>3. ASSUME NEW t \in Threads, LockEntryIdx(t) PROVE PriorityInv'
  BY <1>3, Zenon DEF IInv, TypeOK, LocalsOK, PriorityInv, Critical, Unclaimed, cur,
     ControlInv, LockEntryIdx, Goto
<1>4. ASSUME NEW t \in Threads, SkipEntry(t) PROVE PriorityInv'
  BY <1>4, Zenon DEF IInv, TypeOK, LocalsOK, PriorityInv, Critical, Unclaimed, cur,
     ControlInv, SkipEntry, Goto, AtEntry
<1>5. ASSUME NEW t \in Threads, ClaimEntry(t) PROVE PriorityInv'
  BY <1>5, Zenon DEF IInv, TypeOK, LocalsOK, PriorityInv, Critical, Unclaimed, cur,
     ControlInv, ClaimEntry, Goto, AtEntry, ClaimedEntry, cur
<1>6. ASSUME NEW t \in Threads, Enqueue(t) PROVE PriorityInv'
  BY <1>6, ZenonT(60) DEF IInv, TypeOK, LocalsOK, PriorityInv, Critical, Unclaimed, cur,
     ControlInv, Enqueue, Goto, cur, AfterCall, AfterError
<1>7. ASSUME NEW t \in Threads, ResizeCheck(t) PROVE PriorityInv'
  BY <1>7, ZenonT(60) DEF IInv, TypeOK, LocalsOK, PriorityInv, Critical, Unclaimed, cur,
     ControlInv, ResizeCheck, Goto
<1>8. ASSUME NEW t \in Threads, ResizeMap(t) PROVE PriorityInv'
  BY <1>8, ZenonT(60) DEF IInv, TypeOK, LocalsOK, PriorityInv, Critical, Unclaimed, cur,
     ControlInv, ResizeMap, Goto
<1>9. ASSUME NEW t \in Threads, ResizeFail(t) PROVE PriorityInv'
  BY <1>9, Zenon DEF IInv, TypeOK, LocalsOK, PriorityInv, Critical, Unclaimed, cur,
     ControlInv, ResizeFail, Goto
<1>10. ASSUME NEW t \in Threads, ResizeNotify(t) PROVE PriorityInv'
  BY <1>10, ZenonT(60) DEF IInv, TypeOK, LocalsOK, PriorityInv, Critical, Unclaimed, cur,
     ControlInv, ResizeNotify, Goto
<1>11. ASSUME NEW t \in Threads, ResizeReply(t) PROVE PriorityInv'
  BY <1>11, ZenonT(60) DEF IInv, TypeOK, LocalsOK, PriorityInv, Critical, Unclaimed, cur,
     ControlInv, ResizeReply, Goto
<1>12. ASSUME NEW t \in Threads, JoinReturn(t) PROVE PriorityInv'
  BY <1>12, ZenonT(60) DEF IInv, TypeOK, LocalsOK, PriorityInv, Critical, Unclaimed, cur,
     ControlInv, JoinReturn, Goto
<1>13. ASSUME NEW t \in Threads, PollAddress(t) PROVE PriorityInv'
  BY <1>13, ZenonT(60) DEF IInv, TypeOK, LocalsOK, PriorityInv, Critical, Unclaimed, cur,
     ControlInv, PollAddress, Goto
<1>14. ASSUME NEW t \in Threads, PollLock(t) PROVE PriorityInv'
  BY <1>14, ZenonT(60) DEF IInv, TypeOK, LocalsOK, PriorityInv, Critical, Unclaimed, cur,
     ControlInv, PollLock, Goto
<1>15. ASSUME NEW t \in Threads, PollEntry(t) PROVE PriorityInv'
  BY <1>15, Zenon DEF IInv, TypeOK, LocalsOK, PriorityInv, Critical, Unclaimed, cur,
     ControlInv, PollEntry, Goto, FreedEntry
<1> QED
  BY PosFrame, <1>1, <1>2, <1>3, <1>4, <1>5, <1>6, <1>7, <1>8, <1>9, <1>10, <1>11,
     <1>12, <1>13, <1>14, <1>15

-----------------------------------------------------------------------------
(* Every step preserves the invariants of the loops in find_shared_entry and *)
(* tinyfile_async_join, and what stage says of a request: whether its call   *)
(* was made, whether it has an entry, and where it is between its caller and *)
(* the service thread that marks it done; and the order in which requests of *)
(* one thread travel.                                                        *)

(* Only these actions write pc, scan, client_shm_size. *)
LEMMA ScanFrame ==
  [Next]_vars =>
    \/ UNCHANGED <<pc, scan, client_shm_size>>
    \/ \E t \in Threads :
          \/ Prepare(t) \/ LockEntryIdx(t) \/ SkipEntry(t) \/ ClaimEntry(t)
          \/ Enqueue(t) \/ ResizeCheck(t) \/ ResizeMap(t) \/ ResizeFail(t)
          \/ ResizeNotify(t) \/ ResizeReply(t) \/ JoinReturn(t) \/ PollAddress(t)
          \/ PollLock(t) \/ PollEntry(t)
  BY ZenonT(60) DEF Next, ClientStep, ThreadStep, QueueWorkerStep, ServerStep, ServiceStep,
     ServerResizeStep,
     PollSkip, PollFault, WorkerCheck, WorkerDequeue, WorkerSend, ReceiveNothing,
     ReceiveResize, ReceiveRequest, StartRequest, Compress, MarkDone, CompleteRequest,
     ServerResizeStart, ServerResizeJoin, CopyLoad, CopyStore, ServerResizeRespond,
     ServerResizeFinish, RegisterClient, vars, locals, globals, queue, shared, mqueues,
     workers, resizer

(* Every step keeps find_shared_entry inside the mapping, which only grows *)
(* under it.                                                               *)
LEMMA ScanStep ==
  ASSUME IInv, [Next]_vars
  PROVE  ScanInv'
<1>1. CASE UNCHANGED <<pc, scan, client_shm_size>>
  BY <1>1, Zenon DEF IInv, ScanInv, Critical, ControlInv
<1>2. ASSUME NEW t \in Threads, Prepare(t) PROVE ScanInv'
  BY <1>2, Sizes, ZenonT(60) DEF IInv, TypeOK, LocalsOK, GlobalsOK, ScanInv, Critical,
     ControlInv, Prepare, Goto, cur, AfterError, globals
<1>3. ASSUME NEW t \in Threads, LockEntryIdx(t) PROVE ScanInv'
  <2>1. /\ scan'[t].idx = 0 /\ scan'[t].size = client_shm_size
        /\ client_shm_size' = client_shm_size /\ client_shm_size \in 1..MaxEntries
        /\ \A u \in Threads : u # t => pc'[u] = pc[u] /\ scan'[u] = scan[u]
    BY <1>3, Zenon DEF IInv, TypeOK, LocalsOK, GlobalsOK, LockEntryIdx, Goto
  <2>2. 0 < client_shm_size /\ client_shm_size <= client_shm_size
    BY <2>1, SMTT(60)
  <2> QED BY <2>1, <2>2, Zenon DEF IInv, ControlInv, ScanInv
<1>4. ASSUME NEW t \in Threads, SkipEntry(t) PROVE ScanInv'
  <2>1. /\ pc[t] \in Critical /\ client_shm_size' = client_shm_size
        /\ scan \in [Threads -> [idx : Nat, size : Nat]]
        /\ scan' = [scan EXCEPT ![t].idx = (@ + 1) % scan[t].size]
        /\ \A u \in Threads : u # t => pc'[u] = pc[u]
    BY <1>4, Zenon DEF IInv, TypeOK, LocalsOK, SkipEntry, AtEntry, Critical, Goto, globals
  <2>2. (scan[t].idx + 1) % scan[t].size \in 0..(scan[t].size - 1)
    BY <1>4, ScanNext, Zenon DEF IInv, TypeOK, SkipEntry
  <2>3. /\ scan'[t].idx = (scan[t].idx + 1) % scan[t].size
        /\ scan'[t].size = scan[t].size /\ scan[t].size \in Nat
        /\ \A u \in Threads : u # t => scan'[u] = scan[u]
    BY <2>1, Zenon
  <2>4. (scan[t].idx + 1) % scan[t].size < scan[t].size
    BY <2>2, <2>3, SMTT(60)
  <2> QED BY <2>1, <2>3, <2>4, Zenon DEF IInv, ControlInv, ScanInv
<1>5. ASSUME NEW t \in Threads, ClaimEntry(t) PROVE ScanInv'
  BY <1>5, Sizes, Zenon DEF IInv, TypeOK, LocalsOK, GlobalsOK, ScanInv, Critical,
     ControlInv, ClaimEntry, Goto, AtEntry, ClaimedEntry, cur
<1>6. ASSUME NEW t \in Threads, Enqueue(t) PROVE ScanInv'
  BY <1>6, Sizes, ZenonT(60) DEF IInv, TypeOK, LocalsOK, GlobalsOK, ScanInv, Critical,
     ControlInv, Enqueue, Goto, cur, AfterCall, AfterError, globals
<1>7. ASSUME NEW t \in Threads, ResizeCheck(t) PROVE ScanInv'
  BY <1>7, Sizes, Zenon DEF IInv, TypeOK, LocalsOK, GlobalsOK, ScanInv, Critical,
     ControlInv, ResizeCheck, Goto, globals
<1>8. ASSUME NEW t \in Threads, ResizeMap(t) PROVE ScanInv'
  BY <1>8, Sizes, Zenon DEF IInv, TypeOK, LocalsOK, GlobalsOK, ScanInv, Critical,
     ControlInv, ResizeMap, Goto
<1>9. ASSUME NEW t \in Threads, ResizeFail(t) PROVE ScanInv'
  BY <1>9, Sizes, Zenon DEF IInv, TypeOK, LocalsOK, GlobalsOK, ScanInv, Critical,
     ControlInv, ResizeFail, Goto
<1>10. ASSUME NEW t \in Threads, ResizeNotify(t) PROVE ScanInv'
  BY <1>10, Sizes, Zenon DEF IInv, TypeOK, LocalsOK, GlobalsOK, ScanInv, Critical,
     ControlInv, ResizeNotify, Goto, globals
<1>11. ASSUME NEW t \in Threads, ResizeReply(t) PROVE ScanInv'
  BY <1>11, Sizes, SMTT(60) DEF IInv, TypeOK, LocalsOK, GlobalsOK, ScanInv, Critical,
     ControlInv, ResizeReply, Goto, NewSize, LengthInv
<1>12. ASSUME NEW t \in Threads, JoinReturn(t) PROVE ScanInv'
  BY <1>12, Sizes, Zenon DEF IInv, TypeOK, LocalsOK, GlobalsOK, ScanInv, Critical,
     ControlInv, JoinReturn, Goto, globals
<1>13. ASSUME NEW t \in Threads, PollAddress(t) PROVE ScanInv'
  BY <1>13, Sizes, Zenon DEF IInv, TypeOK, LocalsOK, GlobalsOK, ScanInv, Critical,
     ControlInv, PollAddress, Goto, globals
<1>14. ASSUME NEW t \in Threads, PollLock(t) PROVE ScanInv'
  BY <1>14, Sizes, ZenonT(60) DEF IInv, TypeOK, LocalsOK, GlobalsOK, ScanInv, Critical,
     ControlInv, PollLock, Goto, globals
<1>15. ASSUME NEW t \in Threads, PollEntry(t) PROVE ScanInv'
  BY <1>15, Sizes, ZenonT(60) DEF IInv, TypeOK, LocalsOK, GlobalsOK, ScanInv, Critical,
     ControlInv, PollEntry, Goto, FreedEntry, globals
<1> QED
  BY ScanFrame, <1>1, <1>2, <1>3, <1>4, <1>5, <1>6, <1>7, <1>8, <1>9, <1>10, <1>11,
     <1>12, <1>13, <1>14, <1>15

(* Only these actions write poll. *)
LEMMA PollFrame ==
  [Next]_vars =>
    \/ UNCHANGED poll
    \/ \E t \in Threads : PollSkip(t) \/ PollEntry(t)
  BY ZenonT(60) DEF Next, ClientStep, ThreadStep, QueueWorkerStep, ServerStep, ServiceStep,
     ServerResizeStep,
     Prepare, LockEntryIdx, SkipEntry, ClaimEntry, Enqueue, ResizeCheck, ResizeMap,
     ResizeFail, ResizeNotify, ResizeReply, JoinReturn, PollAddress, PollLock,
     PollFault, WorkerCheck, WorkerDequeue, WorkerSend, ReceiveNothing, ReceiveResize,
     ReceiveRequest, StartRequest, Compress, MarkDone, CompleteRequest,
     ServerResizeStart, ServerResizeJoin, CopyLoad, CopyStore, ServerResizeRespond,
     ServerResizeFinish, RegisterClient, vars, locals, globals, queue, shared, mqueues,
     workers, resizer

(* Every step keeps tinyfile_async_join inside its array. *)
LEMMA PollStep ==
  ASSUME IInv, [Next]_vars
  PROVE  PollInv'
<1>1. CASE UNCHANGED poll
  BY <1>1, Zenon DEF IInv, PollInv, ControlInv
<1>2. ASSUME NEW t \in Threads, PollSkip(t) PROVE PollInv'
  <2>1. pc[t] = "wait" /\ Pending(t) # {} /\ poll' = [poll EXCEPT ![t] = NextPoll(t)]
    BY <1>2 DEF PollSkip
  <2>2. NextPoll(t) <= Len(Collect[t])
    BY <2>1, PendingFacts, NextPollFacts, Zenon DEF IInv, TypeOK
  <2>3. poll \in [Threads -> Nat \ {0}] /\ PollInv
    BY Zenon DEF IInv, TypeOK, LocalsOK, ControlInv
  <2> QED BY <2>1, <2>2, <2>3, ZenonT(60) DEF PollInv
<1>3. ASSUME NEW t \in Threads, PollEntry(t) PROVE PollInv'
  <2>1. poll' = poll \/ poll' = [poll EXCEPT ![t] = NextPoll(t)]
    BY <1>3 DEF PollEntry
  <2>2. Collect[t] # <<>> => NextPoll(t) <= Len(Collect[t])
    BY NextPollFacts, ZenonT(60) DEF IInv, TypeOK
  <2>3. poll \in [Threads -> Nat \ {0}] /\ PollInv
    BY Zenon DEF IInv, TypeOK, LocalsOK, ControlInv
  <2> QED BY <2>1, <2>2, <2>3, ZenonT(60) DEF PollInv
<1> QED
  BY PollFrame, <1>1, <1>2, <1>3

(* Only these actions write pc, poll, slot, result. *)
LEMMA PolledFrame ==
  [Next]_vars =>
    \/ UNCHANGED <<pc, poll, slot, result>>
    \/ \E t \in Threads :
          \/ Prepare(t) \/ LockEntryIdx(t) \/ SkipEntry(t) \/ ClaimEntry(t)
          \/ Enqueue(t) \/ ResizeCheck(t) \/ ResizeMap(t) \/ ResizeFail(t)
          \/ ResizeNotify(t) \/ ResizeReply(t) \/ JoinReturn(t) \/ PollSkip(t)
          \/ PollAddress(t) \/ PollLock(t) \/ PollEntry(t)
  BY ZenonT(60) DEF Next, ClientStep, ThreadStep, QueueWorkerStep, ServerStep, ServiceStep,
     ServerResizeStep,
     PollFault, WorkerCheck, WorkerDequeue, WorkerSend, ReceiveNothing, ReceiveResize,
     ReceiveRequest, StartRequest, Compress, MarkDone, CompleteRequest,
     ServerResizeStart, ServerResizeJoin, CopyLoad, CopyStore, ServerResizeRespond,
     ServerResizeFinish, RegisterClient, vars, locals, globals, queue, shared, mqueues,
     workers, resizer

(* A request stays in flight while is_request_done looks at it: nobody     *)
(* else collects it.                                                       *)
LEMMA PolledStep ==
  ASSUME IInv, [Next]_vars
  PROVE  PolledInv'
<1>1. CASE UNCHANGED <<pc, poll, slot, result>>
  BY <1>1, Zenon DEF IInv, PolledInv, InFlight, polled, ControlInv
<1>0. ASSUME UNCHANGED <<poll, slot, result>>,
             \A u \in Threads : pc'[u] \in {"deref", "locked"} => pc[u] \in {"deref", "locked"}
      PROVE  PolledInv'
  BY <1>0, ZenonT(60) DEF IInv, ControlInv, PolledInv, InFlight, polled
<1>17. pc \in [Threads -> ClientPcs]
  BY Zenon DEF IInv, TypeOK, LocalsOK
<1>2. ASSUME NEW t \in Threads, Prepare(t) PROVE PolledInv'
  BY <1>2, PrepareFacts, ZenonT(60) DEF IInv, TypeOK, ControlInv, PolledInv, InFlight, polled,
     Prepare
<1>3. ASSUME NEW t \in Threads, LockEntryIdx(t) PROVE PolledInv'
  BY <1>0, <1>17, <1>3, Zenon DEF LockEntryIdx, Goto
<1>4. ASSUME NEW t \in Threads, SkipEntry(t) PROVE PolledInv'
  BY <1>0, <1>17, <1>4, Zenon DEF SkipEntry, Goto
<1>5. ASSUME NEW t \in Threads, ClaimEntry(t) PROVE PolledInv'
  <2>0. cur(t) \in Requests /\ scan[t].idx \in Slots /\ scan[t].idx # None
    BY <1>5, ClaimFacts, NoneFacts, Zenon DEF IInv, TypeOK
  <2>1. \A r \in Requests : InFlight(r) => InFlight(r)'
    BY <1>5, <2>0, Zenon DEF IInv, TypeOK, LocalsOK, InFlight, ClaimEntry
  <2>2. \A u \in Threads : pc'[u] \in {"deref", "locked"} => pc[u] \in {"deref", "locked"}
    BY <1>5, Zenon DEF IInv, TypeOK, LocalsOK, ClaimEntry, Goto
  <2>3. \A u \in Threads : pc[u] \in {"deref", "locked"} => polled(u) \in Requests
    BY PolledFacts, Zenon DEF IInv, TypeOK
  <2> QED BY <1>5, <2>1, <2>2, <2>3, ZenonT(60) DEF IInv, ControlInv, PolledInv, polled, ClaimEntry
<1>6. ASSUME NEW t \in Threads, Enqueue(t) PROVE PolledInv'
  BY <1>0, <1>17, <1>6, Zenon DEF Enqueue, Goto, AfterCall, AfterError
<1>7. ASSUME NEW t \in Threads, ResizeCheck(t) PROVE PolledInv'
  BY <1>0, <1>17, <1>7, Zenon DEF ResizeCheck, Goto
<1>8. ASSUME NEW t \in Threads, ResizeMap(t) PROVE PolledInv'
  BY <1>0, <1>17, <1>8, SMTT(60) DEF ResizeMap, Goto
<1>9. ASSUME NEW t \in Threads, ResizeFail(t) PROVE PolledInv'
  BY <1>0, <1>17, <1>9, SMTT(60) DEF ResizeFail, Goto
<1>10. ASSUME NEW t \in Threads, ResizeNotify(t) PROVE PolledInv'
  BY <1>0, <1>17, <1>10, Zenon DEF ResizeNotify, Goto
<1>11. ASSUME NEW t \in Threads, ResizeReply(t) PROVE PolledInv'
  BY <1>0, <1>17, <1>11, Zenon DEF ResizeReply, Goto
<1>12. ASSUME NEW t \in Threads, JoinReturn(t) PROVE PolledInv'
  BY <1>0, <1>17, <1>12, Zenon DEF JoinReturn, Goto
<1>13. ASSUME NEW t \in Threads, PollSkip(t) PROVE PolledInv'
  BY <1>13, CallAssumption, ZenonT(60) DEF IInv, TypeOK, LocalsOK, PolledInv, InFlight, polled,
     ControlInv, PollSkip
<1>14. ASSUME NEW t \in Threads, PollAddress(t) PROVE PolledInv'
  <2>1. InFlight(polled(t)) /\ Collect[t] # <<>>
    BY <1>14, PendingFacts, AwaitedFacts, ZenonT(60) DEF PollAddress, CanPoll, Issued, Pending,
       InFlight
  <2> QED BY <1>14, <2>1, ZenonT(60) DEF IInv, TypeOK, LocalsOK, ControlInv, PolledInv, InFlight,
             polled, PollAddress, Goto
<1>15. ASSUME NEW t \in Threads, PollLock(t) PROVE PolledInv'
  BY <1>0, <1>17, <1>15, SMTT(60) DEF PollLock, Goto
<1>16. ASSUME NEW t \in Threads, PollEntry(t) PROVE PolledInv'
  <2>1. ASSUME NEW u \in Threads, u # t, pc[u] \in {"deref", "locked"}
        PROVE  polled(u) # polled(t) /\ polled(u) \in Requests
    BY <1>16, <2>1, PolledFacts, Injective, ZenonT(60) DEF IInv, TypeOK, polled, PollEntry
  <2> QED BY <1>16, <2>1, PolledFacts, ZenonT(60) DEF IInv, TypeOK, LocalsOK, ControlInv, PolledInv,
             InFlight, polled, PollEntry, Goto
<1> QED
  BY PolledFrame, <1>1, <1>2, <1>3, <1>4, <1>5, <1>6, <1>7, <1>8, <1>9, <1>10, <1>11,
     <1>12, <1>13, <1>14, <1>15, <1>16, Zenon

(* A step gives stage h to the call that thread t makes, and leaves the    *)
(* stages of all other calls alone.                                        *)
OnlyCall(t, h) == \A u \in Threads : \A i \in 1..Len(Program[u]) :
  stage'[Program[u][i]] = IF u = t /\ i = pos[t] THEN h ELSE stage[Program[u][i]]

(* A call that changes the stage of its request changes that of no other   *)
(* call.                                                                   *)
LEMMA StageOfCalls ==
  ASSUME NEW t \in Threads, NEW g, NEW h, Moved(cur(t), g, h),
         pos[t] \in 1..Len(Program[t]), stage \in [Requests -> Stages]
  PROVE  OnlyCall(t, h)
<1>1. \A u \in Threads : \A i \in 1..Len(Program[u]) : Program[u][i] \in Requests
  BY CallAssumption, SMTT(60)
<1>2. stage'[Program[t][pos[t]]] = h
  BY <1>1, Zenon DEF cur, Moved
<1>4. \A v, u \in Threads : \A j \in 1..Len(Program[v]), i \in 1..Len(Program[u]) :
        Program[v][j] = Program[u][i] => v = u /\ j = i
  BY Injective, Zenon
<1>3. ASSUME NEW u \in Threads, NEW i \in 1..Len(Program[u]), u # t \/ i # pos[t]
      PROVE  stage'[Program[u][i]] = stage[Program[u][i]]
  <2>0. Program[u][i] = Program[t][pos[t]] => u = t /\ i = pos[t]
    BY <1>4, Zenon
  <2>1. Program[u][i] # Program[t][pos[t]]
    BY <1>3, <2>0, Zenon
  <2>2. Program[u][i] \in Requests
    BY <1>1, ZenonT(60)
  <2> QED BY <2>1, <2>2, ZenonT(60) DEF cur, Moved
<1> QED BY <1>2, <1>3, ZenonT(60) DEF OnlyCall

(* Every step keeps stage in line with the programs. *)
LEMMA CallStep ==
  ASSUME IInv, [Next]_vars
  PROVE  CallInv'
<1> DEFINE OK(t, i) == CallOK(i, pos[t], pc[t], stage[Program[t][i]])
           OKAfter(t, i) == CallOK(i, pos'[t], pc'[t], stage'[Program[t][i]])
<1>0. \A t \in Threads : \A i \in 1..Len(Program[t]) : Program[t][i] \in Requests
  BY CallAssumption
<1>5. stage \in [Requests -> Stages]
  BY Zenon DEF IInv, TypeOK
<1>10. \A t \in Threads : pos[t] \in Nat
  <2>1. pos \in [Threads -> Nat \ {0}]
    BY Zenon DEF IInv, TypeOK, LocalsOK
  <2> QED BY <2>1, SMTT(60)
<1>6. \A t \in Threads : \A i \in 1..Len(Program[t]) : OK(t, i)
  BY Zenon DEF IInv, CallInv, CallOK
<1>7. (\A t \in Threads : \A i \in 1..Len(Program[t]) : OKAfter(t, i)) => CallInv'
  BY Zenon DEF CallInv, CallOK
<1>1. CASE CallsKept /\ Same("new") /\ Same("claimed")
  BY <1>0, <1>1, ZenonT(60) DEF CallsKept, Same, IInv, CallInv
<1>8. ASSUME NEW t \in Threads, NEW h, OnlyCall(t, h),
             \A u \in Threads : u # t => pc'[u] = pc[u] /\ pos'[u] = pos[u],
             \A i \in 1..Len(Program[t]) :
               CallOK(i, pos'[t], pc'[t], IF i = pos[t] THEN h ELSE stage[Program[t][i]])
      PROVE  CallInv'
  <2>1. \A i \in 1..Len(Program[t]) : OKAfter(t, i)
    BY <1>8, Zenon DEF OnlyCall
  <2>2. ASSUME NEW u \in Threads, u # t, NEW i \in 1..Len(Program[u])
        PROVE  OKAfter(u, i)
    <3>1. stage'[Program[u][i]] = stage[Program[u][i]]
      BY <1>8, <2>2, Zenon DEF OnlyCall
    <3>2. pos'[u] = pos[u] /\ pc'[u] = pc[u]
      BY <1>8, <2>2, Zenon
    <3> QED BY <1>6, <3>1, <3>2, Zenon
  <2> QED BY <1>7, <2>1, <2>2, Zenon
<1>9. ASSUME NEW t \in Threads, pos[t] \in Nat, NEW d, d # "enqueue", NEW h,
             h \notin {"new", "claimed"}, NEW i \in 1..Len(Program[t])
      PROVE  CallOK(i, pos[t] + 1, d, IF i = pos[t] THEN h ELSE stage[Program[t][i]])
  <2>1. i \in Nat
    OBVIOUS
  <2> QED BY <1>6, <1>9, <2>1, CallAdvances, Zenon
<1>2. ASSUME NEW t \in Threads, Prepare(t) PROVE CallInv'
  <2>1. /\ pc[t] = "call" /\ cur(t) \in Requests
        /\ pos[t] \in 1..Len(Program[t])
    BY <1>2, PrepareFacts, CurFacts, ZenonT(60) DEF IInv, TypeOK, Unclaimed
  <2>2. \A u \in Threads : u # t => pc'[u] = pc[u] /\ pos'[u] = pos[u]
    BY <1>2, PrepareFacts, Zenon DEF IInv, TypeOK
  <2>3. CASE stage' = stage /\ pos' = pos /\ pc'[t] = "lock"
    BY <2>1, <2>2, <2>3, ZenonT(60) DEF IInv, CallInv
  <2>4. CASE /\ stage' = [stage EXCEPT ![cur(t)] = "rejected"]
             /\ pos'[t] = pos[t] + 1 /\ pc'[t] \in {"call", "wait"}
    <3>1. stage[cur(t)] = "new"
      BY <2>1, ZenonT(60) DEF IInv, CallInv, cur
    <3>2. Moved(cur(t), "new", "rejected")
      BY <1>5, <2>1, <2>4, <3>1, ZenonT(60) DEF Moved
    <3>3. OnlyCall(t, "rejected")
      BY <1>5, <2>1, <3>2, StageOfCalls, ZenonT(60)
    <3>4. pc'[t] # "enqueue" /\ "rejected" \notin {"new", "claimed"}
      BY <2>4, Zenon
    <3>5. \A i \in 1..Len(Program[t]) :
            CallOK(i, pos'[t], pc'[t], IF i = pos[t] THEN "rejected" ELSE stage[Program[t][i]])
      BY <1>9, <1>10, <2>4, <3>4, Zenon
    <3> QED BY <1>8, <2>2, <3>3, <3>5, Zenon
  <2> QED BY <1>2, <2>3, <2>4, PrepareFacts, ZenonT(60) DEF IInv, TypeOK, LocalsOK
<1>3. ASSUME NEW t \in Threads, ClaimEntry(t) PROVE CallInv'
  <2>1. cur(t) \in Requests /\ pos[t] \in 1..Len(Program[t])
    BY <1>3, ClaimFacts, CurFacts, ZenonT(60) DEF IInv, TypeOK, Critical, Unclaimed
  <2>2. pos' = pos /\ pc'[t] = "enqueue" /\ \A u \in Threads : u # t => pc'[u] = pc[u]
    BY <1>3, Zenon DEF ClaimEntry, Goto, IInv, TypeOK, LocalsOK
  <2>3. OnlyCall(t, "claimed")
    BY <1>3, <1>5, <2>1, ClaimMoves, StageOfCalls, ZenonT(60)
  <2>4. ASSUME NEW i \in 1..Len(Program[t])
        PROVE  CallOK(i, pos[t], "enqueue", IF i = pos[t] THEN "claimed" ELSE stage[Program[t][i]])
    <3>1. i \in Nat
      OBVIOUS
    <3> QED BY <1>6, <1>10, <3>1, CallClaims, Zenon
  <2> QED BY <1>8, <2>2, <2>3, <2>4, Zenon
<1>4. ASSUME NEW t \in Threads, Enqueue(t) PROVE CallInv'
  <2>1. cur(t) \in Requests /\ pos[t] \in 1..Len(Program[t])
    BY <1>4, CurFacts, ZenonT(60) DEF IInv, TypeOK, Enqueue
  <2>2. AfterCall(t) # "enqueue"
    BY Zenon DEF AfterCall, AfterError
  <2>3. /\ pos'[t] = pos[t] + 1 /\ pc'[t] # "enqueue"
        /\ \A u \in Threads : u # t => pc'[u] = pc[u] /\ pos'[u] = pos[u]
    BY <1>4, <2>2, ZenonT(60) DEF Enqueue, Goto, IInv, TypeOK, LocalsOK
  <2>4. OnlyCall(t, "queued") /\ "queued" \notin {"new", "claimed"}
    BY <1>4, <1>5, <2>1, EnqueueMoves, StageOfCalls, ZenonT(60)
  <2>5. \A i \in 1..Len(Program[t]) :
          CallOK(i, pos'[t], pc'[t], IF i = pos[t] THEN "queued" ELSE stage[Program[t][i]])
    BY <1>9, <1>10, <2>3, <2>4, ZenonT(60)
  <2> QED BY <1>8, <2>3, <2>4, <2>5, Zenon
<1> QED BY <1>1, <1>2, <1>3, <1>4, CallsFrame, SameStage, Zenon

(* Every step keeps stage in line with entries and results. *)
LEMMA SlotStep ==
  ASSUME IInv, [Next]_vars
  PROVE  SlotInv'
<1>1. CASE UNCHANGED <<slot, result>> /\ Same("new") /\ Same("rejected") /\ Same("delivered")
  BY <1>1, Zenon DEF Same, IInv, SlotInv
<1>2. ASSUME NEW t \in Threads, Prepare(t) PROVE SlotInv'
  <2>1. UNCHANGED <<slot, result>>
    BY <1>2, Zenon DEF Prepare
  <2>2. CASE stage' = stage
    BY <2>1, <2>2, Zenon DEF IInv, SlotInv
  <2>3. CASE Moved(cur(t), "new", "rejected") /\ ~PriorityOK(cur(t))
    BY <2>1, <2>3, Zenon DEF Moved, IInv, TypeOK, SlotInv
  <2> QED BY <1>2, <2>2, <2>3, PrepareMoves, Zenon
<1>3. ASSUME NEW t \in Threads, ClaimEntry(t) PROVE SlotInv'
  <2>1. /\ Moved(cur(t), "new", "claimed") /\ PriorityOK(cur(t))
        /\ scan[t].idx \in Slots /\ scan[t].idx # None
    BY <1>3, ClaimMoves, ClaimFacts, NoneFacts, ZenonT(60) DEF IInv, TypeOK, ControlInv, PriorityInv
  <2>2. result' = result /\ slot' = [slot EXCEPT ![cur(t)] = scan[t].idx]
    BY <1>3 DEF ClaimEntry
  <2> QED BY <2>1, <2>2, Zenon DEF Moved, IInv, TypeOK, LocalsOK, SlotInv
<1>4. ASSUME NEW t \in Threads, PollEntry(t) PROVE SlotInv'
  <2>1. slot' = slot
    BY <1>4 DEF PollEntry
  <2>2. CASE stage' = stage /\ result' = result
    BY <2>1, <2>2, ZenonT(60) DEF IInv, SlotInv
  <2>3. CASE /\ Moved(polled(t), "done", "delivered")
             /\ result' = [result EXCEPT ![polled(t)] = shm[slot[polled(t)]].arg]
    <3>1. slot[polled(t)] \in Slots /\ shm[slot[polled(t)]].arg # None
      <4>1. slot[polled(t)] \in Slots /\ shm \in [Slots -> Entry]
        BY <1>4, PolledFacts, ZenonT(60) DEF IInv, TypeOK, SharedOK, PollEntry
      <4>2. shm[slot[polled(t)]].arg \in Arg
        BY <4>1, ZenonT(60) DEF Entry
      <4> QED BY <4>1, <4>2, NoneFacts, Zenon
    <3> QED BY <2>1, <2>3, <3>1, ZenonT(60) DEF Moved, IInv, TypeOK, LocalsOK, SlotInv
  <2> QED BY <1>4, <2>2, <2>3, PollMoves, ZenonT(60)
<1> QED BY <1>1, <1>2, <1>3, <1>4, SlotFrame, SameStage

(*****************************************************************************)
(* Where the requests are                                                    *)
(*****************************************************************************)

(* A request given an entry stays with its caller until it is queued. *)
LEMMA ClaimedStep ==
  ASSUME IInv, [Next]_vars
  PROVE  ClaimedInv'
<1>1. CASE CallsKept /\ Same("claimed")
  BY <1>1, ZenonT(60) DEF CallsKept, IInv, PlaceInv, ClaimedInv, Calling, cur, Same
<1>2. ASSUME NEW t \in Threads, ClaimEntry(t) PROVE ClaimedInv'
  <2>1. /\ Moved(cur(t), "new", "claimed") /\ UNCHANGED pos
        /\ pc[t] # "enqueue" /\ pc'[t] = "enqueue" /\ \A u \in Threads : u # t => pc'[u] = pc[u]
    BY <1>2, ClaimMoves, ZenonT(60) DEF ClaimEntry, AtEntry, Goto, IInv, TypeOK, LocalsOK
  <2>2. \A r \in Requests : stage'[r] = "claimed" <=> r = cur(t) \/ stage[r] = "claimed"
    BY <2>1, Zenon DEF Moved, IInv, TypeOK
  <2>3. ClaimedInv
    BY Zenon DEF IInv, PlaceInv
  <2> SUFFICES ASSUME NEW r \in Requests, stage'[r] = "claimed"
               PROVE  \E u \in Threads : pc'[u] = "enqueue" /\ Program[u][pos'[u]] = r
    BY Zenon DEF ClaimedInv, Calling, cur
  <2>4. CASE r = cur(t)
    BY <2>1, <2>4, Zenon DEF cur
  <2>5. CASE stage[r] = "claimed"
    <3>1. PICK u \in Threads : pc[u] = "enqueue" /\ Program[u][pos[u]] = r
      BY <2>3, <2>5, Zenon DEF ClaimedInv, Calling, cur
    <3>2. pc'[u] = pc[u] /\ pos'[u] = pos[u]
      BY <2>1, <3>1, Zenon
    <3> QED BY <3>1, <3>2, Zenon
  <2> QED BY <2>2, <2>4, <2>5, Zenon
<1>3. ASSUME NEW t \in Threads, Enqueue(t) PROVE ClaimedInv'
  <2>1. /\ Moved(cur(t), "claimed", "queued") /\ \A u \in Threads : u # t => pos'[u] = pos[u]
        /\ pc[t] = "enqueue" /\ \A u \in Threads : u # t => pc'[u] = pc[u]
    BY <1>3, EnqueueMoves, ZenonT(60) DEF Enqueue, Goto, IInv, TypeOK, LocalsOK
  <2>2. \A r \in Requests : stage'[r] = "claimed" <=> r # cur(t) /\ stage[r] = "claimed"
    BY <2>1, ZenonT(60) DEF Moved, IInv, TypeOK
  <2>3. ClaimedInv
    BY Zenon DEF IInv, PlaceInv
  <2> SUFFICES ASSUME NEW r \in Requests, stage'[r] = "claimed"
               PROVE  \E u \in Threads : pc'[u] = "enqueue" /\ Program[u][pos'[u]] = r
    BY Zenon DEF ClaimedInv, Calling, cur
  <2>4. r # cur(t) /\ stage[r] = "claimed"
    BY <2>2, Zenon
  <2>5. PICK u \in Threads : pc[u] = "enqueue" /\ Program[u][pos[u]] = r
    BY <2>3, <2>4, Zenon DEF ClaimedInv, Calling, cur
  <2>6. pc'[u] = pc[u] /\ pos'[u] = pos[u]
    BY <2>1, <2>4, <2>5, Zenon DEF cur
  <2> QED BY <2>5, <2>6, Zenon
<1>4. ASSUME NEW t \in Threads, Prepare(t), Same("claimed") PROVE ClaimedInv'
  <2>1. /\ pc[t] = "call" /\ ClaimedInv
        /\ \A u \in Threads : u # t => pc'[u] = pc[u] /\ pos'[u] = pos[u]
    BY <1>4, PrepareFacts, ZenonT(60) DEF IInv, TypeOK, PlaceInv
  <2> SUFFICES ASSUME NEW r \in Requests, stage'[r] = "claimed"
               PROVE  \E u \in Threads : pc'[u] = "enqueue" /\ Program[u][pos'[u]] = r
    BY Zenon DEF ClaimedInv, Calling, cur
  <2>2. PICK u \in Threads : pc[u] = "enqueue" /\ Program[u][pos[u]] = r
    BY <1>4, <2>1, Zenon DEF ClaimedInv, Calling, cur, Same
  <2>3. pc'[u] = pc[u] /\ pos'[u] = pos[u]
    BY <2>1, <2>2, ZenonT(60)
  <2> QED BY <2>2, <2>3, Zenon
<1> QED BY <1>1, <1>2, <1>3, <1>4, CallsFrame, SameStage, Zenon

(* Only these actions write request_q. *)
LEMMA RequestQFrame ==
  [Next]_vars =>
    \/ UNCHANGED request_q
    \/ \E t \in Threads : Enqueue(t)
    \/ WorkerDequeue
  BY ZenonT(60) DEF Next, ClientStep, ThreadStep, QueueWorkerStep, ServerStep, ServiceStep,
     ServerResizeStep,
     Prepare, LockEntryIdx, SkipEntry, ClaimEntry, ResizeCheck, ResizeMap, ResizeFail,
     ResizeNotify, ResizeReply, JoinReturn, PollSkip, PollAddress, PollLock, PollEntry,
     PollFault, WorkerCheck, WorkerSend, ReceiveNothing, ReceiveResize, ReceiveRequest,
     StartRequest, Compress, MarkDone, CompleteRequest, ServerResizeStart,
     ServerResizeJoin, CopyLoad, CopyStore, ServerResizeRespond, ServerResizeFinish,
     RegisterClient, vars, locals, globals, queue, shared, mqueues, workers, resizer

(* A queued request stays in the request queue, once, until the worker     *)
(* takes it.                                                               *)
LEMMA QueuedStep ==
  ASSUME IInv, [Next]_vars
  PROVE  QueuedInv'
<1>1. CASE UNCHANGED request_q /\ Same("queued")
  BY <1>1, Zenon DEF IInv, PlaceInv, QueuedInv, Same
<1>2. ASSUME NEW t \in Threads, Enqueue(t) PROVE QueuedInv'
  <2>1. PICK k \in InsertionPoints(request_q, cur(t)) :
               request_q' = InsertAt(request_q, k, cur(t))
    BY <1>2, SMTT(60) DEF Enqueue
  <2>2. Moved(cur(t), "claimed", "queued")
    BY <1>2, EnqueueMoves, Zenon
  <2>3. /\ \A x : Has(request_q', x) <=> x = cur(t) \/ Has(request_q, x)
        /\ Distinct(request_q) /\ ~Has(request_q, cur(t)) => Distinct(request_q')
    BY <2>1, <2>2, InsertionFacts, ZenonT(60) DEF IInv, TypeOK, QueueOK, Moved
  <2>4. \A r \in Requests : stage'[r] = "queued" <=> r = cur(t) \/ stage[r] = "queued"
    BY <2>2 DEF Moved, IInv, TypeOK
  <2> QED BY <2>2, <2>3, <2>4, ZenonT(60) DEF IInv, PlaceInv, QueuedInv, Moved
<1>3. ASSUME WorkerDequeue PROVE QueuedInv'
  <2>1. CASE request_q = <<>>
    BY <1>3, <2>1, Zenon DEF WorkerDequeue, IInv, PlaceInv, QueuedInv
  <2>2. CASE request_q # <<>>
    <3>1. request_q' = Tail(request_q) /\ Moved(Head(request_q), "queued", "sending")
      BY <1>3, <2>2, HeadFacts, Zenon DEF WorkerDequeue, Moved, IInv, TypeOK, QueueOK,
         PlaceInv,
         QueuedInv
    <3>2. /\ \A x : Has(request_q, x) <=> x = Head(request_q) \/ Has(request_q', x)
          /\ Distinct(request_q') /\ ~Has(request_q', Head(request_q))
      BY <2>2, <3>1, HeadFacts, Zenon DEF IInv, TypeOK, QueueOK, PlaceInv, QueuedInv
    <3>3. \A r \in Requests :
            stage'[r] = "queued" <=> r # Head(request_q) /\ stage[r] = "queued"
      BY <3>1, ZenonT(60) DEF Moved, IInv, TypeOK
    <3> QED BY <3>2, <3>3, ZenonT(60) DEF IInv, PlaceInv, QueuedInv
  <2> QED BY <2>1, <2>2, Zenon
<1> QED BY <1>1, <1>2, <1>3, RequestQFrame, SameStage

(* Only these actions write wpc, wreq. *)
LEMMA WreqFrame ==
  [Next]_vars =>
    \/ UNCHANGED <<wpc, wreq>>
    \/ \E t \in Threads : ResizeReply(t)
    \/ WorkerCheck \/ WorkerDequeue \/ WorkerSend
  BY ZenonT(60) DEF Next, ClientStep, ThreadStep, QueueWorkerStep, ServerStep, ServiceStep,
     ServerResizeStep,
     Prepare, LockEntryIdx, SkipEntry, ClaimEntry, Enqueue, ResizeCheck, ResizeMap,
     ResizeFail, ResizeNotify, JoinReturn, PollSkip, PollAddress, PollLock, PollEntry,
     PollFault, ReceiveNothing, ReceiveResize, ReceiveRequest, StartRequest, Compress,
     MarkDone, CompleteRequest, ServerResizeStart, ServerResizeJoin, CopyLoad,
     CopyStore, ServerResizeRespond, ServerResizeFinish, RegisterClient, vars, locals,
     globals, queue, shared, mqueues, workers, resizer

(* A request the worker took stays with it until it is sent: a resize      *)
(* replaces the worker only when it has none.                              *)
LEMMA SendingStep ==
  ASSUME IInv, [Next]_vars
  PROVE  SendingInv'
<1>1. CASE UNCHANGED <<wpc, wreq>> /\ Same("sending")
  BY <1>1, NoneFacts, Zenon DEF IInv, TypeOK, QueueOK, PlaceInv, SendingInv, Same
<1>2. ASSUME NEW t \in Threads, ResizeReply(t) PROVE SendingInv'
  <2>1. UNCHANGED <<stage, wreq>> /\ wpc' \in {wpc, "check"}
    BY <1>2, Zenon DEF ResizeReply
  <2>2. wpc' = "check" => wpc # "send"
    BY <1>2, StoppedFacts, Zenon DEF ResizeReply
  <2> QED BY <2>1, <2>2, Zenon DEF IInv, PlaceInv, SendingInv
<1>3. ASSUME WorkerCheck PROVE SendingInv'
  BY <1>3, Zenon DEF WorkerCheck, IInv, PlaceInv, SendingInv
<1>4. ASSUME WorkerDequeue PROVE SendingInv'
  <2>1. CASE request_q = <<>>
    BY <1>4, <2>1, Zenon DEF WorkerDequeue, IInv, PlaceInv, SendingInv
  <2>2. CASE request_q # <<>>
    <3>1. /\ wreq' = Head(request_q) /\ wpc' = "send" /\ wpc = "dequeue"
          /\ Moved(Head(request_q), "queued", "sending")
      BY <1>4, <2>2, HeadFacts, Zenon DEF WorkerDequeue, Moved, IInv, TypeOK, QueueOK,
         PlaceInv,
         QueuedInv
    <3> QED BY <3>1, NoneFacts, Zenon DEF Moved, IInv, TypeOK, PlaceInv, SendingInv
  <2> QED BY <2>1, <2>2
<1>5. ASSUME WorkerSend PROVE SendingInv'
  BY <1>5, SendMoves, ZenonT(60) DEF Moved, WorkerSend, IInv, TypeOK, PlaceInv, SendingInv
<1> QED BY <1>1, <1>2, <1>3, <1>4, <1>5, WreqFrame, SameStage

(* Only these actions write send_q. *)
LEMMA SendQFrame ==
  [Next]_vars =>
    \/ UNCHANGED send_q
    \/ \E t \in Threads : ResizeNotify(t)
    \/ \E w \in Workers : ReceiveResize(w) \/ ReceiveRequest(w)
    \/ WorkerSend
  BY ZenonT(60) DEF Next, ClientStep, ThreadStep, QueueWorkerStep, ServerStep, ServiceStep,
     ServerResizeStep,
     Prepare, LockEntryIdx, SkipEntry, ClaimEntry, Enqueue, ResizeCheck, ResizeMap,
     ResizeFail, ResizeReply, JoinReturn, PollSkip, PollAddress, PollLock, PollEntry,
     PollFault, WorkerCheck, WorkerDequeue, ReceiveNothing, StartRequest, Compress,
     MarkDone, CompleteRequest, ServerResizeStart, ServerResizeJoin, CopyLoad,
     CopyStore, ServerResizeRespond, ServerResizeFinish, RegisterClient, vars, locals,
     globals, queue, shared, mqueues, workers, resizer

(* A sent request stays in send_q, once, until a service thread receives   *)
(* it.                                                                     *)
LEMMA SentStep ==
  ASSUME IInv, [Next]_vars
  PROVE  SentInv'
<1> DEFINE Msgs == Requests \cup {Resize}
<1>1. CASE UNCHANGED send_q /\ Same("sent")
  BY <1>1, ZenonT(60) DEF IInv, PlaceInv, SentInv, Same
<1>2. ASSUME NEW t \in Threads, ResizeNotify(t) PROVE SentInv'
  <2>1. PICK k \in InsertionPoints(send_q, Resize) : send_q' = InsertAt(send_q, k, Resize)
    BY <1>2, Zenon DEF ResizeNotify
  <2>2. ~Has(send_q, Resize)
    BY <1>2, Zenon DEF ResizeNotify, IInv, TokenInv, ResizeSent, TypeOK, ControlInv,
       LockInv, Critical
  <2>3. send_q \in Seq(Msgs) /\ Resize \in Msgs /\ Resize \notin Requests
    BY CallAssumption, Zenon DEF IInv, TypeOK, MqueuesOK, Resize
  <2>4. /\ \A x : Has(send_q', x) <=> x = Resize \/ Has(send_q, x)
        /\ Distinct(send_q')
    BY <2>1, <2>2, <2>3, InsertionFacts, Zenon DEF IInv, PlaceInv, SentInv
  <2> QED BY <1>2, <2>3, <2>4, Zenon DEF IInv, PlaceInv, SentInv, ResizeNotify
<1>3. ASSUME WorkerSend PROVE SentInv'
  <2>1. PICK k \in InsertionPoints(send_q, wreq) : send_q' = InsertAt(send_q, k, wreq)
    BY <1>3, SMTT(60) DEF WorkerSend
  <2>2. Moved(wreq, "sending", "sent")
    BY <1>3, SendMoves, Zenon
  <2>3. send_q \in Seq(Msgs) /\ wreq \in Msgs
    BY <2>2, Zenon DEF IInv, TypeOK, MqueuesOK, Moved
  <2>4. /\ \A x : Has(send_q', x) <=> x = wreq \/ Has(send_q, x)
        /\ Distinct(send_q) /\ ~Has(send_q, wreq) => Distinct(send_q')
    BY <2>1, <2>3, InsertionFacts, Zenon
  <2>5. \A r \in Requests : stage'[r] = "sent" <=> r = wreq \/ stage[r] = "sent"
    BY <2>2, Zenon DEF Moved, IInv, TypeOK
  <2> QED BY <2>2, <2>4, <2>5, ZenonT(60) DEF IInv, PlaceInv, SentInv, Moved
<1>4. ASSUME NEW w \in Workers, ReceiveResize(w) PROVE SentInv'
  <2>1. send_q \in Seq(Msgs) /\ Resize \notin Requests
    BY CallAssumption, Zenon DEF IInv, TypeOK, MqueuesOK, Resize
  <2>2. /\ \A x : Has(send_q, x) <=> x = Resize \/ Has(send_q', x)
        /\ Distinct(send_q')
    BY <1>4, <2>1, HeadFacts, Zenon DEF ReceiveResize, IInv, PlaceInv, SentInv
  <2> QED BY <1>4, <2>1, <2>2, Zenon DEF IInv, PlaceInv, SentInv, ReceiveResize
<1>5. ASSUME NEW w \in Workers, ReceiveRequest(w) PROVE SentInv'
  <2>1. send_q \in Seq(Msgs) /\ send_q' = Tail(send_q) /\ send_q # <<>>
    BY <1>5, Zenon DEF IInv, TypeOK, MqueuesOK, ReceiveRequest
  <2>2. /\ \A x : Has(send_q, x) <=> x = Head(send_q) \/ Has(send_q', x)
        /\ Distinct(send_q') /\ ~Has(send_q', Head(send_q))
    BY <2>1, HeadFacts, Zenon DEF IInv, PlaceInv, SentInv
  <2>3. \A r \in Requests : stage'[r] = "sent" <=> r # Head(send_q) /\ stage[r] = "sent"
    BY <1>5, ReceiveMoves, Zenon DEF Moved, IInv, TypeOK
  <2> QED BY <2>2, <2>3, Zenon DEF IInv, PlaceInv, SentInv
<1> QED BY <1>1, <1>2, <1>3, <1>4, <1>5, SendQFrame, SameStage

(* A received request stays with one service thread until it is done: a    *)
(* resize replaces the threads only when they have none.                   *)
LEMMA ReceivedStep ==
  ASSUME IInv, [Next]_vars
  PROVE  ReceivedInv'
<1>1. CASE UNCHANGED <<spc, sreq>> /\ Same("received")
  <2>1. ReceivedInv /\ sreq \in [Workers -> Requests \cup {None}]
    BY Zenon DEF IInv, TypeOK, WorkersOK, PlaceInv
  <2> QED BY <1>1, <2>1, NoneFacts, ZenonT(60) DEF ReceivedInv, Serving, Same
<1>2. ASSUME NEW w \in Workers, ReceiveRequest(w) PROVE ReceivedInv'
  <2>1. /\ Moved(Head(send_q), "sent", "received")
        /\ spc'[w] = "received" /\ sreq'[w] = Head(send_q)
        /\ \A v \in Workers : v # w => spc'[v] = spc[v] /\ sreq'[v] = sreq[v]
    BY <1>2, ReceiveMoves, ZenonT(60) DEF ReceiveRequest, IInv, TypeOK, WorkersOK
  <2>2. /\ stage[Head(send_q)] = "sent" /\ Head(send_q) \in Requests
        /\ stage'[Head(send_q)] = "received"
        /\ \A r \in Requests : r # Head(send_q) => stage'[r] = stage[r]
    BY <2>1, ZenonT(60) DEF Moved, IInv, TypeOK
  <2>3. \A v \in Workers : spc[v] \in Busy => sreq[v] \in Requests /\ sreq[v] # Head(send_q)
    BY <2>2, Zenon DEF IInv, TypeOK, WorkersOK, PlaceInv, ReceivedInv
  <2>4. spc[w] \notin Busy
    BY <1>2, Zenon DEF ReceiveRequest, Busy
  <2>5. ReceivedInv
    BY Zenon DEF IInv, PlaceInv
  <2>6. \A v \in Workers : spc'[v] \in Busy => sreq'[v] # None /\ stage'[sreq'[v]] = "received"
    <3>1. ASSUME NEW v \in Workers, spc'[v] \in Busy, v # w
          PROVE  sreq'[v] # None /\ stage'[sreq'[v]] = "received"
      <4>1. spc[v] \in Busy /\ sreq'[v] = sreq[v]
        BY <2>1, <3>1, Zenon
      <4>2. sreq[v] # None /\ stage[sreq[v]] = "received"
        BY <2>5, <4>1, Zenon DEF ReceivedInv
      <4>3. stage'[sreq[v]] = stage[sreq[v]]
        BY <2>2, <2>3, <4>1, Zenon
      <4> QED BY <4>1, <4>2, <4>3, Zenon
    <3> QED BY <2>1, <2>2, <3>1, NoneFacts, Zenon
  <2>7. ASSUME NEW r \in Requests, stage'[r] = "received"
        PROVE  \E v \in Workers : spc'[v] \in Busy /\ sreq'[v] = r
    <3>1. CASE r = Head(send_q)
      BY <2>1, <3>1, Zenon DEF Busy
    <3>2. CASE r # Head(send_q)
      <4>1. PICK v \in Workers : spc[v] \in Busy /\ sreq[v] = r
        BY <2>2, <2>5, <2>7, <3>2, Zenon DEF ReceivedInv, Serving, Busy
      <4> QED BY <2>1, <2>4, <4>1, Zenon
    <3> QED BY <3>1, <3>2, Zenon
  <2>8. ASSUME NEW u \in Workers, NEW v \in Workers,
               spc'[u] \in Busy, spc'[v] \in Busy, sreq'[u] = sreq'[v]
        PROVE  u = v
    <3>1. CASE u # w /\ v # w
      BY <2>1, <2>5, <2>8, <3>1, Zenon DEF ReceivedInv
    <3>2. CASE u = w /\ v # w
      BY <2>1, <2>3, <2>8, <3>2, Zenon
    <3>3. CASE u # w /\ v = w
      BY <2>1, <2>3, <2>8, <3>3, Zenon
    <3> QED BY <3>1, <3>2, <3>3, Zenon
  <2> QED BY <2>6, <2>7, <2>8, Zenon DEF ReceivedInv, Serving, Busy
<1>3. ASSUME NEW w \in Workers, MarkDone(w) PROVE ReceivedInv'
  <2>1. /\ Moved(sreq[w], "received", "done") /\ sreq' = sreq
        /\ spc'[w] = "count" /\ spc[w] = "mark"
        /\ \A v \in Workers : v # w => spc'[v] = spc[v]
    BY <1>3, MarkMoves, ZenonT(60) DEF MarkDone, IInv, TypeOK, WorkersOK
  <2>2. /\ sreq[w] \in Requests /\ stage'[sreq[w]] = "done"
        /\ \A r \in Requests : r # sreq[w] => stage'[r] = stage[r]
    BY <2>1, ZenonT(60) DEF Moved, IInv, TypeOK
  <2>3. \A v \in Workers : v # w /\ spc[v] \in Busy => sreq[v] \in Requests /\ sreq[v] # sreq[w]
    BY <2>1, Zenon DEF IInv, TypeOK, WorkersOK, PlaceInv, ReceivedInv, Busy
  <2>4. ReceivedInv /\ spc'[w] \notin Busy
    BY <2>1, Zenon DEF IInv, PlaceInv, Busy
  <2>5. \A v \in Workers : spc'[v] \in Busy => sreq'[v] # None /\ stage'[sreq'[v]] = "received"
    <3>1. ASSUME NEW v \in Workers, spc'[v] \in Busy
          PROVE  sreq'[v] # None /\ stage'[sreq'[v]] = "received"
      <4>1. v # w /\ spc[v] \in Busy /\ sreq'[v] = sreq[v]
        BY <2>1, <2>4, <3>1, Zenon
      <4>2. sreq[v] # None /\ stage[sreq[v]] = "received"
        BY <2>4, <4>1, Zenon DEF ReceivedInv
      <4>3. stage'[sreq[v]] = stage[sreq[v]]
        BY <2>2, <2>3, <4>1, Zenon
      <4> QED BY <4>1, <4>2, <4>3, Zenon
    <3> QED BY <3>1, Zenon
  <2>6. ASSUME NEW r \in Requests, stage'[r] = "received"
        PROVE  \E v \in Workers : spc'[v] \in Busy /\ sreq'[v] = r
    <3>1. r # sreq[w] /\ stage[r] = "received"
      BY <2>2, <2>6, Zenon
    <3>2. PICK v \in Workers : spc[v] \in Busy /\ sreq[v] = r
      BY <2>4, <3>1, Zenon DEF ReceivedInv, Serving, Busy
    <3> QED BY <2>1, <3>1, <3>2, Zenon
  <2>7. \A u, v \in Workers :
          spc'[u] \in Busy /\ spc'[v] \in Busy /\ sreq'[u] = sreq'[v] => u = v
    BY <2>1, <2>4, Zenon DEF ReceivedInv
  <2> QED BY <2>5, <2>6, <2>7, Zenon DEF ReceivedInv, Serving, Busy
<1>4. ASSUME UNCHANGED stage,
             \A v \in Workers : spc[v] \in Busy \/ spc'[v] \in Busy
                => spc[v] \in Busy /\ spc'[v] \in Busy /\ sreq'[v] = sreq[v]
      PROVE  ReceivedInv'
  <2>1. ReceivedInv
    BY Zenon DEF IInv, PlaceInv
  <2>2. \A w \in Workers :
          spc'[w] \in Busy => sreq'[w] # None /\ stage'[sreq'[w]] = "received"
    BY <1>4, <2>1, Zenon DEF ReceivedInv
  <2>3. ASSUME NEW r \in Requests, stage'[r] = "received"
        PROVE  \E w \in Workers : spc'[w] \in Busy /\ sreq'[w] = r
    <3>1. PICK w \in Workers : spc[w] \in Busy /\ sreq[w] = r
      BY <1>4, <2>1, <2>3, Zenon DEF ReceivedInv, Serving, Busy
    <3> QED BY <1>4, <3>1, Zenon
  <2>4. \A w, v \in Workers :
          spc'[w] \in Busy /\ spc'[v] \in Busy /\ sreq'[w] = sreq'[v] => w = v
    BY <1>4, <2>1, ZenonT(60) DEF ReceivedInv
  <2> QED BY <2>2, <2>3, <2>4, Zenon DEF ReceivedInv, Serving, Busy
<1>5. ASSUME NEW w \in Workers,
             ReceiveNothing(w) \/ ReceiveResize(w) \/ StartRequest(w) \/ Compress(w)
               \/ CompleteRequest(w)
      PROVE  ReceivedInv'
  <2>1. UNCHANGED stage
    BY <1>5, Zenon DEF ReceiveNothing, ReceiveResize, StartRequest, Compress, CompleteRequest
  <2>2. \A v \in Workers : spc[v] \in Busy \/ spc'[v] \in Busy
                => spc[v] \in Busy /\ spc'[v] \in Busy /\ sreq'[v] = sreq[v]
    BY <1>5, ZenonT(60) DEF ReceiveNothing, ReceiveResize, StartRequest, Compress, CompleteRequest,
       StopCheck, Busy, IInv, TypeOK, WorkersOK
  <2> QED BY <1>4, <2>1, <2>2, ZenonT(60)
<1>6. ASSUME ServerResizeFinish \/ RegisterClient PROVE ReceivedInv'
  <2>1. \A v \in Workers : spc[v] \notin Busy
    BY <1>6, Zenon DEF ServerResizeFinish, RegisterClient, IInv, JoinedInv, Copying, Busy
  <2>2. UNCHANGED stage /\ \A v \in Workers : spc'[v] \notin Busy
    BY <1>6 DEF ServerResizeFinish, RegisterClient, StartedWorkers, Busy
  <2> QED BY <1>4, <2>1, <2>2, Zenon
<1> QED BY <1>1, <1>2, <1>3, <1>5, <1>6, SpcFrame, SameStage, ZenonT(60)

(*****************************************************************************)
(* The order of requests: what OrderInv says of two requests of one thread   *)
(* and one priority                                                          *)
(*****************************************************************************)

(* One thread issues r and later s, with the same priority. *)
Before(r, s) ==
  /\ Priority[r] = Priority[s]
  /\ \E t \in Threads : \E i, j \in 1..Len(Program[t]) :
       i < j /\ Program[t][i] = r /\ Program[t][j] = s

(* Where r and s are then: s is ahead of r nowhere. *)
PairInv(r, s) ==
  /\ Earlier(request_q, r, s) /\ Earlier(send_q, r, s)
  /\ stage[s] \in {"sending", "sent", "received", "done", "delivered"} => stage[r] # "queued"
  /\ stage[s] \in {"sent", "received", "done", "delivered"} => stage[r] # "sending"
  /\ stage[s] \in {"received", "done", "delivered"} => stage[r] # "sent"

OrderInv ==
  /\ InOrder(request_q) /\ InOrder(send_q)
  /\ \A r, s \in Requests : Before(r, s) => PairInv(r, s)

(* If s was called then r was called before, and queued at least. *)
LEMMA BeforeFacts ==
  ASSUME IInv, NEW r \in Requests, NEW s \in Requests, Before(r, s)
  PROVE  /\ r # s /\ MsgPriority(r) = MsgPriority(s)
         /\ stage[s] # "new" => stage[r] \notin {"new", "claimed"}
<1>1. PICK t \in Threads : \E i, j \in 1..Len(Program[t]) :
        i < j /\ Program[t][i] = r /\ Program[t][j] = s
  BY Zenon DEF Before
<1>2. PICK i \in 1..Len(Program[t]), j \in 1..Len(Program[t]) :
        i < j /\ Program[t][i] = r /\ Program[t][j] = s
  BY <1>1, Zenon
<1>3. Len(Program[t]) \in Nat
  BY Lengths, Zenon
<1>4. r # s
  BY <1>2, <1>3, Injective, SMTT(60)
<1>5. MsgPriority(r) = MsgPriority(s)
  BY PriorityFacts, Zenon DEF Before
<1>6. ASSUME stage[s] # "new" PROVE stage[r] \notin {"new", "claimed"}
  <2>1. pos[t] \in Nat /\ CallInv
    BY Zenon DEF IInv, TypeOK, LocalsOK
  <2>2. ~(j > pos[t])
    BY <1>2, <1>6, <2>1, Zenon DEF CallInv
  <2>3. i < pos[t]
    BY <1>2, <1>3, <2>1, <2>2, SMTT(60)
  <2> QED BY <1>2, <2>1, <2>3, Zenon DEF CallInv
<1> QED BY <1>4, <1>5, <1>6, Zenon

(* The request queue of the client stays ordered. *)
LEMMA RequestQOrder ==
  ASSUME IInv, OrderInv, [Next]_vars
  PROVE  /\ InOrder(request_q')
         /\ \A r, s \in Requests : Before(r, s) => Earlier(request_q', r, s)
<1>0. /\ request_q \in Seq(Requests) /\ InOrder(request_q)
      /\ \A r \in Requests : stage[r] = "queued" <=> Has(request_q, r)
      /\ \A r, s \in Requests : Before(r, s) => Earlier(request_q, r, s)
  BY Zenon DEF IInv, TypeOK, QueueOK, PlaceInv, QueuedInv, OrderInv, PairInv
<1>1. CASE UNCHANGED request_q
  BY <1>0, <1>1, Zenon
<1>2. ASSUME NEW t \in Threads, Enqueue(t)
      PROVE  /\ InOrder(request_q')
             /\ \A r, s \in Requests : Before(r, s) => Earlier(request_q', r, s)
  <2>1. PICK k \in InsertionPoints(request_q, cur(t)) :
               request_q' = InsertAt(request_q, k, cur(t))
    BY <1>2, Zenon DEF Enqueue
  <2>2. cur(t) \in Requests /\ stage[cur(t)] = "claimed"
    BY <1>2, EnqueueMoves, Zenon DEF Moved
  <2>3. ~Has(request_q, cur(t)) /\ request_q \in Seq(Requests \cup {Resize})
    BY <1>0, <2>2, SMTT(60)
  <2>4. \A r, s \in Requests : Before(r, s) /\ cur(t) = r => ~Has(request_q, s)
    BY <1>0, <2>2, BeforeFacts, Zenon
  <2>5. cur(t) \in Requests \cup {Resize}
    BY <2>2, Zenon
  <2>6. InOrder(request_q')
    BY <1>0, <2>1, <2>3, <2>5, InsertOrder, Zenon
  <2>7. ASSUME NEW r \in Requests, NEW s \in Requests, Before(r, s)
        PROVE  Earlier(request_q', r, s)
    BY <1>0, <2>1, <2>3, <2>4, <2>5, <2>7, InsertOrder, BeforeFacts, ZenonT(60)
  <2> QED BY <2>6, <2>7, Zenon
<1>3. ASSUME WorkerDequeue
      PROVE  /\ InOrder(request_q')
             /\ \A r, s \in Requests : Before(r, s) => Earlier(request_q', r, s)
  <2>1. CASE request_q = <<>>
    BY <1>0, <1>3, <2>1, Zenon DEF WorkerDequeue
  <2>2. CASE request_q # <<>>
    <3>1. request_q' = Tail(request_q)
      BY <1>3, <2>2, Zenon DEF WorkerDequeue
    <3> QED BY <1>0, <2>2, <3>1, TailOrder, Zenon
  <2> QED BY <2>1, <2>2, Zenon
<1> QED BY <1>1, <1>2, <1>3, RequestQFrame, Zenon

(* The message queue to the server stays ordered. *)
LEMMA SendQOrder ==
  ASSUME IInv, OrderInv, [Next]_vars
  PROVE  /\ InOrder(send_q')
         /\ \A r, s \in Requests : Before(r, s) => Earlier(send_q', r, s)
<1> DEFINE Msgs == Requests \cup {Resize}
           Goal == /\ InOrder(send_q')
                   /\ \A r, s \in Requests : Before(r, s) => Earlier(send_q', r, s)
<1>0. /\ send_q \in Seq(Msgs) /\ InOrder(send_q)
      /\ \A r \in Requests : stage[r] = "sent" <=> Has(send_q, r)
      /\ \A r, s \in Requests : Before(r, s) => PairInv(r, s) /\ Earlier(send_q, r, s)
  BY Zenon DEF IInv, TypeOK, MqueuesOK, PlaceInv, SentInv, OrderInv, PairInv
<1>1. ASSUME UNCHANGED send_q PROVE Goal
  BY <1>0, <1>1, Zenon
<1>2. ASSUME NEW m \in Msgs, NEW k \in InsertionPoints(send_q, m), ~Has(send_q, m),
             send_q' = InsertAt(send_q, k, m),
             \A r, s \in Requests : Before(r, s) /\ m = r => ~Has(send_q, s)
      PROVE  Goal
  <2>1. InOrder(send_q')
    BY <1>0, <1>2, InsertOrder, Zenon
  <2>2. ASSUME NEW r \in Requests, NEW s \in Requests, Before(r, s)
        PROVE  Earlier(send_q', r, s)
    BY <1>0, <1>2, <2>2, InsertOrder, BeforeFacts, ZenonT(60)
  <2> QED BY <2>1, <2>2, Zenon
<1>3. ASSUME NEW t \in Threads, ResizeNotify(t) PROVE Goal
  <2>1. PICK k \in InsertionPoints(send_q, Resize) : send_q' = InsertAt(send_q, k, Resize)
    BY <1>3, Zenon DEF ResizeNotify
  <2>2. ~Has(send_q, Resize)
    BY <1>3, Zenon DEF ResizeNotify, IInv, TokenInv, ResizeSent, TypeOK, ControlInv,
       LockInv, Critical
  <2>3. Resize \in Msgs /\ \A r \in Requests : r # Resize
    BY PriorityFacts, Zenon
  <2> QED BY <1>2, <2>1, <2>2, <2>3, Zenon
<1>4. ASSUME WorkerSend PROVE Goal
  <2>1. PICK k \in InsertionPoints(send_q, wreq) : send_q' = InsertAt(send_q, k, wreq)
    BY <1>4, Zenon DEF WorkerSend
  <2>2. wreq \in Requests /\ stage[wreq] = "sending"
    BY <1>4, SendMoves, Zenon DEF Moved
  <2>3. ~Has(send_q, wreq) /\ wreq \in Msgs
    BY <1>0, <2>2, Zenon
  <2>4. ASSUME NEW r \in Requests, NEW s \in Requests, Before(r, s), wreq = r, Has(send_q, s)
        PROVE  FALSE
    BY <1>0, <2>2, <2>4, Zenon DEF PairInv
  <2> QED BY <1>2, <2>1, <2>3, <2>4, Zenon
<1>5. ASSUME send_q # <<>>, send_q' = Tail(send_q) PROVE Goal
  BY <1>0, <1>5, TailOrder, Zenon
<1>6. ASSUME NEW w \in Workers, ReceiveResize(w) \/ ReceiveRequest(w) PROVE Goal
  BY <1>5, <1>6, Zenon DEF ReceiveResize, ReceiveRequest
<1> HIDE DEF Goal
<1>7. Goal
  BY <1>1, <1>3, <1>4, <1>6, SendQFrame, Zenon
<1> QED BY <1>7, Zenon DEF Goal

(* No request passes an earlier one of its thread and priority on the way  *)
(* from one place to the next.                                             *)
LEMMA StageOrder ==
  ASSUME IInv, OrderInv, [Next]_vars, NEW r \in Requests, NEW s \in Requests, Before(r, s)
  PROVE  /\ stage'[s] \in {"sending", "sent", "received", "done", "delivered"}
              => stage'[r] # "queued"
         /\ stage'[s] \in {"sent", "received", "done", "delivered"} => stage'[r] # "sending"
         /\ stage'[s] \in {"received", "done", "delivered"} => stage'[r] # "sent"
<1> DEFINE Goal ==
      /\ stage'[s] \in {"sending", "sent", "received", "done", "delivered"}
           => stage'[r] # "queued"
      /\ stage'[s] \in {"sent", "received", "done", "delivered"} => stage'[r] # "sending"
      /\ stage'[s] \in {"received", "done", "delivered"} => stage'[r] # "sent"
<1>0. /\ stage \in [Requests -> Stages] /\ PairInv(r, s) /\ r # s
      /\ stage[s] # "new" => stage[r] \notin {"new", "claimed"}
  BY BeforeFacts, Zenon DEF IInv, TypeOK, OrderInv
<1>1. ASSUME stage' = stage PROVE Goal
  BY <1>0, <1>1, Zenon DEF PairInv
<1>2. ASSUME NEW x, NEW g, NEW h, Moved(x, g, h)
      PROVE  /\ x \in Requests /\ stage[x] = g /\ stage'[x] = h
             /\ \A y \in Requests : y # x => stage'[y] = stage[y]
  BY <1>0, <1>2, Zenon DEF Moved
<1>3. ASSUME NEW t \in Threads, Prepare(t) \/ ClaimEntry(t) \/ PollEntry(t) PROVE Goal
  <2>1. CASE stage' = stage
    BY <1>1, <2>1, Zenon
  <2>2. ASSUME NEW x, NEW h \in {"rejected", "claimed"}, Moved(x, "new", h) PROVE Goal
    <3>1. x \in Requests /\ stage'[x] = h /\ \A y \in Requests : y # x => stage'[y] = stage[y]
      BY <1>2, <2>2, Zenon
    <3>2. CASE x = r \/ x = s
      BY <2>2, <3>1, <3>2, ZenonT(60)
    <3>3. CASE x # r /\ x # s
      BY <1>0, <3>1, <3>3, ZenonT(60) DEF PairInv
    <3> QED BY <3>2, <3>3, Zenon
  <2>3. ASSUME NEW x, Moved(x, "done", "delivered") PROVE Goal
    BY <1>0, <1>2, <2>3, ZenonT(60) DEF PairInv
  <2> QED BY <1>3, <2>1, <2>2, <2>3, PrepareMoves, ClaimMoves, PollMoves, Zenon
<1>4. ASSUME NEW t \in Threads, Enqueue(t) PROVE Goal
  <2>1. Moved(cur(t), "claimed", "queued")
    BY <1>4, EnqueueMoves, Zenon
  <2> QED BY <1>0, <1>2, <2>1, ZenonT(60) DEF PairInv
<1>5. ASSUME WorkerDequeue PROVE Goal
  <2>1. CASE stage' = stage
    BY <1>1, <2>1, Zenon
  <2>2. CASE request_q # <<>> /\ Moved(Head(request_q), "queued", "sending")
    <3>1. request_q \in Seq(Requests) /\ (stage[r] = "queued" => Has(request_q, r))
      BY Zenon DEF IInv, TypeOK, QueueOK, PlaceInv, QueuedInv
    <3>2. s = Head(request_q) => stage[r] # "queued"
      BY <1>0, <2>2, <3>1, TailOrder, Zenon DEF PairInv
    <3>3. /\ stage[Head(request_q)] = "queued" /\ stage'[Head(request_q)] = "sending"
          /\ \A y \in Requests : y # Head(request_q) => stage'[y] = stage[y]
      BY <1>2, <2>2, Zenon
    <3>4. CASE r = Head(request_q)
      BY <1>0, <3>3, <3>4, ZenonT(60) DEF PairInv
    <3>5. CASE s = Head(request_q)
      BY <1>0, <3>2, <3>3, <3>5, ZenonT(60)
    <3>6. CASE r # Head(request_q) /\ s # Head(request_q)
      BY <1>0, <3>3, <3>6, ZenonT(60) DEF PairInv
    <3> QED BY <3>4, <3>5, <3>6, Zenon
  <2> QED BY <1>5, <2>1, <2>2, DequeueMoves, Zenon
<1>6. ASSUME WorkerSend PROVE Goal
  <2>1. Moved(wreq, "sending", "sent")
    BY <1>6, SendMoves, Zenon
  <2>2. stage[r] = "sending" => wreq = r
    BY Zenon DEF IInv, PlaceInv, SendingInv
  <2> QED BY <1>0, <1>2, <2>1, <2>2, ZenonT(60) DEF PairInv
<1>7. ASSUME NEW w \in Workers, ReceiveRequest(w) PROVE Goal
  <2>1. Moved(Head(send_q), "sent", "received") /\ send_q # <<>>
    BY <1>7, ReceiveMoves, Zenon DEF ReceiveRequest
  <2>2. send_q \in Seq(Requests \cup {Resize}) /\ (stage[r] = "sent" => Has(send_q, r))
    BY Zenon DEF IInv, TypeOK, MqueuesOK, PlaceInv, SentInv
  <2>3. s = Head(send_q) => stage[r] # "sent"
    BY <1>0, <2>1, <2>2, TailOrder, Zenon DEF PairInv
  <2> QED BY <1>0, <1>2, <2>1, <2>3, ZenonT(60) DEF PairInv
<1>8. ASSUME NEW w \in Workers, MarkDone(w) PROVE Goal
  <2>1. Moved(sreq[w], "received", "done")
    BY <1>8, MarkMoves, Zenon
  <2> QED BY <1>0, <1>2, <2>1, ZenonT(60) DEF PairInv
<1> HIDE DEF Goal
<1>9. Goal
  BY <1>1, <1>3, <1>4, <1>5, <1>6, <1>7, <1>8, StageFrame, Zenon
<1> QED BY <1>9, Zenon DEF Goal

(* Every step keeps requests of one thread and priority in order. *)
LEMMA OrderStep ==
  IInv /\ OrderInv /\ [Next]_vars => OrderInv'
<1> SUFFICES ASSUME IInv, OrderInv, [Next]_vars PROVE OrderInv'
  OBVIOUS
<1>1. ASSUME NEW r \in Requests, NEW s \in Requests, Before(r, s) PROVE PairInv(r, s)'
  BY <1>1, RequestQOrder, SendQOrder, StageOrder, Zenon DEF PairInv, Earlier
<1> QED BY <1>1, RequestQOrder, SendQOrder, Zenon DEF OrderInv, InOrder, PairInv, Before
=============================================================================
