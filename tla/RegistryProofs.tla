---------------------------- MODULE RegistryProofs ----------------------------
(* As long as nobody asks it to the server stays up, and every variable of   *)
(* the registry has its type, however many clients come and go.              *)
EXTENDS Registry, FiniteSetTheorems, WellFoundedInduction, TLAPS

(* Types of what TypeOK leaves open. *)
Pointers == Nodes \cup {NULL}
Record == [pid : Clients \cup {FreedPid}, recv_q : Nat, prev : Pointers, next : Pointers,
           tail : Pointers]
Mem == [Nodes -> Record]
Entries == [cmd : {"TINYFILE_CLIENT_REGISTER", "TINYFILE_CLIENT_UNREGISTER"}, pid : Clients]
Registering == {"register", "open_recv", "open_send", "open_shm", "append"}
Removing == {"remove", "wait", "loop", "free"}
Exiting == {"exit_server", "each", "next", "close", "join"}
Labels == Registering \cup Removing \cup Exiting
            \cup {"none", "receive", "unregister", "link", "fgets", "ended"}

ClientTypes ==
  /\ cpc \in [Clients -> {"out", "create", "register", "ready", "answered", "unlink"}]
  /\ visits \in [Clients -> 0..Visits]
  /\ opened \in [Clients -> 1..Starts \cup {NULL}]
  /\ names \subseteq UNION {Names(c) : c \in Clients}
QueueTypes ==
  /\ registry_queue \in 1..Starts \cup {NULL}
  /\ queue \in [1..Starts -> Seq(Entries)]
  /\ \A g \in 1..Starts : Len(queue[g]) <= MqMaxMsg
  /\ started \in 0..Starts
HeapTypes ==
  /\ clients \in Pointers /\ head \in Pointers /\ mem \in Mem
  /\ allocated \subseteq Nodes /\ uncounted \subseteq Nodes /\ serving \subseteq Nodes
ThreadTypes ==
  /\ spc \in [Threads -> Labels]
  /\ node \in [Threads -> Pointers] /\ client_list \in [Threads -> Pointers]
FlagTypes ==
  /\ up \in BOOLEAN /\ STOP_REGISTRY \in BOOLEAN /\ in_exit \in BOOLEAN /\ reused \in BOOLEAN
  /\ stopped \in BOOLEAN /\ recv_q \in Nat

(* Where a thread is, its locals are set. *)
LocalsInv ==
  /\ spc["registry"] \in Registering \cup {"unregister"} => msg.pid \in Clients
  /\ spc["registry"] = "link" => node["registry"] \in Nodes
  /\ spc["registry"] # "none" => started # 0
  /\ \A t \in Threads : /\ spc[t] \in Removing => node[t] \in Nodes
                        /\ spc[t] \in {"each", "next"} => client_list[t] \in Nodes

(* The queues of servers to come are empty, and nobody has opened them.      *)
QueueInv ==
  /\ \A g \in 1..Starts : g > started => queue[g] = << >>
  /\ registry_queue # NULL => registry_queue <= started
  /\ \A c \in Clients : cpc[c] # "out" => opened[c] \in 1..started

(* The registration of c: in the queue of the server, with the registry      *)
(* thread, or in a node.                                                     *)
Entry(c) == [cmd |-> "TINYFILE_CLIENT_REGISTER", pid |-> c]
Has(q, e) == \E i \in 1..Len(q) : q[i] = e
Once(q, e) == \A i, j \in 1..Len(q) : q[i] = e /\ q[j] = e => i = j
Queued(c) == started # 0 /\ Has(queue[started], Entry(c))
QueuedOnce(c) == Once(queue[started], Entry(c))
InProcess(c) == spc["registry"] \in Registering /\ msg.pid = c
Registered(c) == \E n \in Nodes : mem[n].pid = c /\ mem[n].recv_q = visits[c]
Fresh(c) == ~Queued(c) /\ ~InProcess(c)

(* A pid in a node is that of a client only as long as the node is not       *)
(* freed, and the queue opened for it is of a visit that has begun.          *)
NodeInv ==
  \A n \in Nodes : mem[n].pid \in Clients =>
    n \in allocated /\ mem[n].recv_q <= visits[mem[n].pid]
EntryInv == spc["registry"] \in {"open_shm", "append"} => recv_q <= visits[msg.pid]

(* What c has asked the server for: its names are there until the server has *)
(* opened them, and for good if c has died.                                  *)
HasNames(c) == Names(c) \subseteq names
NoNames(c) == Names(c) \cap names = {}
ClientInv(c) ==
  /\ cpc[c] \in {"out", "create"} =>
       HasNames(c) \/ (NoNames(c) /\ Fresh(c) /\ (cpc[c] = "create" => ~Registered(c)))
  /\ cpc[c] = "register" => HasNames(c) /\ Fresh(c) /\ ~Registered(c)
  /\ cpc[c] = "ready" =>
       /\ HasNames(c)
       /\ Queued(c) => QueuedOnce(c) /\ ~InProcess(c) /\ ~Registered(c)
       /\ InProcess(c) => ~Registered(c)
  /\ cpc[c] = "answered" => HasNames(c) /\ Fresh(c)
  /\ cpc[c] = "unlink" => ~NoNames(c) /\ Fresh(c)

(* A server that nobody has asked to quit: only the registry thread changes  *)
(* the list, and it is not in exit_server.                                   *)
UpInv ==
  ~stopped =>
    /\ up /\ spc["main"] = "fgets" /\ client_list["registry"] = NULL
    /\ spc["registry"] \notin Exiting
    /\ spc["registry"] = "link" => head = clients
    /\ spc["registry"] \in Removing => node["registry"] \in allocated
    /\ spc["registry"] = "remove" => clients # NULL
DownInv == ~up => \A t \in Threads : spc[t] = "none" /\ client_list[t] = NULL

TInv == ClientTypes /\ QueueTypes /\ HeapTypes /\ ThreadTypes /\ FlagTypes
SInv == LocalsInv /\ QueueInv /\ NodeInv /\ EntryInv /\ UpInv /\ DownInv
CInv == \A c \in Clients : ClientInv(c)
IInv == TInv /\ SInv /\ CInv

-----------------------------------------------------------------------------
(* A set of numbers that is not empty has a least element. *)
LEMMA LeastOf ==
  ASSUME NEW T, T \subseteq Nat, T # {}
  PROVE  \E n \in T : \A m \in T : n <= m
<1>1. PICK n \in T : \A m \in T : ~ (<<m, n>> \in OpToRel(<, Nat))
  BY NatLessThanWellFounded, WFMin, Zenon
<1>2. \A m \in T : ~ (m < n)
  BY <1>1, Zenon DEF OpToRel
<1> QED BY <1>2

(* What EXCEPT means, whether x is in the domain or not. *)
LEMMA ExceptAt ==
  ASSUME NEW D, NEW R, NEW f \in [D -> R], NEW x, NEW r
  PROVE  [f EXCEPT ![x] = r] = [n \in D |-> IF n = x THEN r ELSE f[n]]
<1>1. f = [n \in D |-> f[n]]
  BY Zenon
<1> QED BY <1>1, SMT

(* find_client returns NULL or a node with the pid it looks for. *)
LEMMA FindFacts ==
  ASSUME NEW pid
  PROVE  find_client(pid) = NULL
           \/ (find_client(pid) \in Nodes /\ mem[find_client(pid)].pid = pid /\ clients # NULL)
<1> DEFINE hits == {k \in 0..Cardinality(Nodes) :
                      LET n == Along(mem, clients, k) IN n \in Nodes /\ mem[n].pid = pid}
           first == CHOOSE k \in hits : \A j \in hits : k <= j
<1>1. CASE clients = NULL \/ hits = {}
  BY <1>1, Zenon DEF find_client
<1>2. CASE clients # NULL /\ hits # {}
  <2>1. Cardinality(Nodes) \in Nat
    BY RegistryAssumption, FS_CardinalityType, Zenon
  <2>2. 0..Cardinality(Nodes) \subseteq Nat
    BY <2>1
  <2>3. hits \subseteq Nat
    BY <2>2, Zenon
  <2>4. \E k \in hits : \A j \in hits : k <= j
    BY <1>2, <2>3, LeastOf, Zenon
  <2>5. first \in hits
    BY <2>4, Zenon
  <2>6. find_client(pid) = Along(mem, clients, first)
    BY <1>2, Zenon DEF find_client
  <2>7. Along(mem, clients, first) \in Nodes /\ mem[Along(mem, clients, first)].pid = pid
    BY <2>5, Zenon
  <2> QED BY <1>2, <2>6, <2>7, Zenon
<1> QED BY <1>1, <1>2, Zenon

(* What append_client and remove_client do to a node is to set a pointer,    *)
(* which leaves the pid and the queues of every node as they are.            *)
Same(r, s) == r.pid = s.pid /\ r.recv_q = s.recv_q
Like(m1, m) == m1 \in Mem /\ \A n \in Nodes : Same(m1[n], m[n])

LEMMA SetPointer ==
  ASSUME NEW m \in Mem, NEW x, NEW v \in Pointers
  PROVE  /\ Like([m EXCEPT ![x].next = v], m)
         /\ Like([m EXCEPT ![x].prev = v], m)
         /\ Like([m EXCEPT ![x].tail = v], m)
<1>1. Like([m EXCEPT ![x].next = v], m)
  <2> DEFINE m1 == [m EXCEPT ![x].next = v]
  <2>1. x \in Nodes => [m[x] EXCEPT !.next = v] \in Record /\ Same([m[x] EXCEPT !.next = v], m[x])
    BY SMT DEF Same, Mem, Record
  <2>2. m1 = [n \in Nodes |-> IF n = x THEN [m[x] EXCEPT !.next = v] ELSE m[n]]
    BY ExceptAt, Zenon DEF Mem
  <2> QED BY <2>1, <2>2, Zenon DEF Like, Same, Mem
<1>2. Like([m EXCEPT ![x].prev = v], m)
  <2> DEFINE m1 == [m EXCEPT ![x].prev = v]
  <2>1. x \in Nodes => [m[x] EXCEPT !.prev = v] \in Record /\ Same([m[x] EXCEPT !.prev = v], m[x])
    BY SMT DEF Same, Mem, Record
  <2>2. m1 = [n \in Nodes |-> IF n = x THEN [m[x] EXCEPT !.prev = v] ELSE m[n]]
    BY ExceptAt, Zenon DEF Mem
  <2> QED BY <2>1, <2>2, Zenon DEF Like, Same, Mem
<1>3. Like([m EXCEPT ![x].tail = v], m)
  <2> DEFINE m1 == [m EXCEPT ![x].tail = v]
  <2>1. x \in Nodes => [m[x] EXCEPT !.tail = v] \in Record /\ Same([m[x] EXCEPT !.tail = v], m[x])
    BY SMT DEF Same, Mem, Record
  <2>2. m1 = [n \in Nodes |-> IF n = x THEN [m[x] EXCEPT !.tail = v] ELSE m[n]]
    BY ExceptAt, Zenon DEF Mem
  <2> QED BY <2>1, <2>2, Zenon DEF Like, Same, Mem
<1> QED BY <1>1, <1>2, <1>3, Zenon

LEMMA LikeTransitive ==
  ASSUME NEW m, NEW m1, NEW m2, Like(m1, m), Like(m2, m1)
  PROVE  Like(m2, m)
BY Zenon DEF Like, Same

LEMMA LikeReflexive == ASSUME NEW m \in Mem PROVE Like(m, m)
BY Zenon DEF Like, Same

(* malloc and free set the pid, malloc also the queues. *)
NewPid(m1, m, x, p) == m1 \in Mem /\ m1[x].pid = p /\ \A n \in Nodes \ {x} : m1[n] = m[n]
NewQueue(m1, m, x, q) ==
  /\ m1 \in Mem /\ m1[x].recv_q = q /\ m1[x].pid = m[x].pid
  /\ \A n \in Nodes \ {x} : m1[n] = m[n]

LEMMA SetPid ==
  ASSUME NEW m \in Mem, NEW x \in Nodes, NEW p \in Clients \cup {FreedPid}
  PROVE  NewPid([m EXCEPT ![x].pid = p], m, x, p)
<1> DEFINE r == [m[x] EXCEPT !.pid = p]
<1>1. r \in Record /\ r.pid = p
  BY SMT DEF Mem, Record
<1>2. [m EXCEPT ![x].pid = p] = [n \in Nodes |-> IF n = x THEN r ELSE m[n]]
  BY ExceptAt, Zenon DEF Mem
<1> HIDE DEF r
<1> QED BY <1>1, <1>2, Zenon DEF Mem, NewPid

LEMMA SetQueue ==
  ASSUME NEW m \in Mem, NEW x \in Nodes, NEW q \in Nat
  PROVE  NewQueue([m EXCEPT ![x].recv_q = q], m, x, q)
<1> DEFINE r == [m[x] EXCEPT !.recv_q = q]
<1>1. r \in Record /\ r.recv_q = q /\ r.pid = m[x].pid
  BY SMT DEF Mem, Record
<1>2. [m EXCEPT ![x].recv_q = q] = [n \in Nodes |-> IF n = x THEN r ELSE m[n]]
  BY ExceptAt, Zenon DEF Mem
<1> HIDE DEF r
<1> QED BY <1>1, <1>2, Zenon DEF Mem, NewQueue

LEMMA PointersOf ==
  ASSUME NEW m \in Mem, NEW n \in Nodes
  PROVE  m[n].prev \in Pointers /\ m[n].next \in Pointers /\ m[n].tail \in Pointers
BY SMT DEF Mem, Record

LEMMA AppendLike ==
  ASSUME mem \in Mem, NEW n \in Nodes, NEW h1 \in Pointers, NEW h2
  PROVE  Like(append_client(n, h1, h2), mem)
<1>0. n \in Pointers /\ NULL \in Pointers
  BY Zenon DEF Pointers
<1>1. CASE h1 = NULL
  <2> DEFINE m1 == [mem EXCEPT ![n].next = NULL]
             m2 == [m1 EXCEPT ![n].prev = NULL]
             m3 == [m2 EXCEPT ![n].tail = n]
  <2>1. append_client(n, h1, h2) = m3
    BY <1>1, SMT DEF append_client
  <2>2. Like(m1, mem)
    BY <1>0, SetPointer, Zenon
  <2>3. Like(m2, m1)
    BY <1>0, <2>2, SetPointer, Zenon DEF Like
  <2>4. Like(m3, m2)
    BY <1>0, <2>3, SetPointer, Zenon DEF Like
  <2> HIDE DEF m1, m2, m3
  <2> QED BY <2>1, <2>2, <2>3, <2>4, LikeTransitive, Zenon
<1>2. CASE h1 # NULL
  <2> DEFINE tail == mem[h1].tail
             m1 == [mem EXCEPT ![n].prev = tail]
             m2 == [m1 EXCEPT ![n].next = NULL]
             m3 == [m2 EXCEPT ![n].tail = n]
             m4 == [m3 EXCEPT ![tail].next = n]
             m5 == [m4 EXCEPT ![h2].tail = n]
  <2>0. tail \in Pointers
    BY <1>2, PointersOf, Zenon DEF Pointers
  <2>1. append_client(n, h1, h2) = m5
    BY <1>2, SMT DEF append_client
  <2>2. Like(m1, mem)
    BY <2>0, SetPointer, Zenon
  <2>3. Like(m2, m1)
    BY <1>0, <2>2, SetPointer, Zenon DEF Like
  <2>4. Like(m3, m2)
    BY <1>0, <2>3, SetPointer, Zenon DEF Like
  <2>5. Like(m4, m3)
    BY <1>0, <2>4, SetPointer, Zenon DEF Like
  <2>6. Like(m5, m4)
    BY <1>0, <2>5, SetPointer, Zenon DEF Like
  <2> HIDE DEF m1, m2, m3, m4, m5
  <2> QED BY <2>1, <2>2, <2>3, <2>4, <2>5, <2>6, LikeTransitive, Zenon
<1> QED BY <1>1, <1>2, Zenon

LEMMA RemoveLike ==
  ASSUME mem \in Mem, clients \in Pointers, NEW n \in Nodes
  PROVE  remove_client(n).head \in Pointers /\ Like(remove_client(n).mem, mem)
<1> DEFINE m1 == IF mem[n].prev = NULL THEN mem
                 ELSE [mem EXCEPT ![mem[n].prev].next = mem[n].next]
           m2 == IF m1[n].next = NULL THEN m1 ELSE [m1 EXCEPT ![m1[n].next].prev = m1[n].prev]
           m3 == [m2 EXCEPT ![clients].tail = mem[n].prev]
<1>1. mem[n].prev \in Pointers /\ mem[n].next \in Pointers
  BY PointersOf, Zenon
<1>2. Like(m1, mem)
  BY <1>1, SetPointer, LikeReflexive, Zenon
<1>3. Unlinked(mem, n) = m2
  BY Zenon DEF Unlinked
<1> HIDE DEF m1
<1>4. m1 \in Mem
  BY <1>2, Zenon DEF Like
<1>5. m1[n].prev \in Pointers
  BY <1>4, PointersOf, Zenon
<1>6. Like(m2, m1)
  BY <1>4, <1>5, SetPointer, LikeReflexive, Zenon
<1> HIDE DEF m2
<1>7. Like(m2, mem)
  BY <1>2, <1>6, LikeTransitive, Zenon
<1>8. Like(m3, m2)
  BY <1>1, <1>7, SetPointer, Zenon DEF Like
<1>9. Like(m3, mem)
  BY <1>7, <1>8, LikeTransitive, Zenon
<1>10. Like(mem, mem)
  BY LikeReflexive, Zenon
<1>11. remove_client(n) = [head |-> NULL, mem |-> mem]
         \/ remove_client(n) = [head |-> clients, mem |-> m2]
         \/ remove_client(n) = [head |-> clients, mem |-> m3]
  BY <1>3, Zenon DEF remove_client
<1> HIDE DEF m3
<1>12. \/ remove_client(n).head = NULL /\ remove_client(n).mem = mem
       \/ remove_client(n).head = clients /\ remove_client(n).mem = m2
       \/ remove_client(n).head = clients /\ remove_client(n).mem = m3
  BY <1>11, SMT
<1> QED BY <1>7, <1>9, <1>10, <1>12, Zenon DEF Pointers

-----------------------------------------------------------------------------
(* A client has three names, and shares none with another.                   *)
LEMMA NamesFacts ==
  /\ \A c, x : x \in Names(c) <=> x = <<"send", c>> \/ x = <<"recv", c>> \/ x = <<"shm", c>>
  /\ \A c, d, x : x \in Names(c) /\ x \in Names(d) => c = d
<1>1. \A c, x : x \in Names(c) <=> x = <<"send", c>> \/ x = <<"recv", c>> \/ x = <<"shm", c>>
  BY SMT DEF Names
<1>2. \A c, d, k, l : <<k, c>> = <<l, d>> => c = d
  BY SMT
<1>3. \A c, d, x : x \in Names(c) /\ x \in Names(d) => c = d
  <2> TAKE c, d, x
  <2> HAVE x \in Names(c) /\ x \in Names(d)
  <2>1. PICK k : x = <<k, c>>
    BY <1>1, Zenon
  <2>2. PICK l : x = <<l, d>>
    BY <1>1, Zenon
  <2> QED BY <2>1, <2>2, <1>2, Zenon
<1> QED BY <1>1, <1>3, Zenon

(* Queues with one entry more and one less. *)
LEMMA AppendFacts ==
  ASSUME NEW q \in Seq(Entries), NEW e \in Entries
  PROVE  /\ Append(q, e) \in Seq(Entries) /\ Len(Append(q, e)) = Len(q) + 1
         /\ \A x : Has(Append(q, e), x) => Has(q, x) \/ x = e
         /\ \A x : Once(q, x) /\ x # e => Once(Append(q, e), x)
         /\ \A x : ~Has(q, x) => Once(Append(q, e), x)
<1>1. /\ Append(q, e) \in Seq(Entries) /\ Len(q) \in Nat /\ Len(Append(q, e)) = Len(q) + 1
      /\ \A i \in 1..Len(q) : Append(q, e)[i] = q[i]
      /\ Append(q, e)[Len(q) + 1] = e
  OBVIOUS
<1>2. \A i : i \in 1..(Len(q) + 1) <=> i \in 1..Len(q) \/ i = Len(q) + 1
  BY <1>1
<1> QED BY <1>1, <1>2, Zenon DEF Has, Once

LEMMA TailFacts ==
  ASSUME NEW q \in Seq(Entries), q # << >>
  PROVE  /\ Head(q) \in Entries /\ Has(q, Head(q))
         /\ Tail(q) \in Seq(Entries) /\ Len(Tail(q)) <= Len(q)
         /\ \A x : Has(Tail(q), x) => Has(q, x)
         /\ \A x : Once(q, x) => Once(Tail(q), x)
         /\ Once(q, Head(q)) => ~Has(Tail(q), Head(q))
<1>1. /\ Head(q) \in Entries /\ Tail(q) \in Seq(Entries) /\ Head(q) = q[1]
      /\ Len(q) \in Nat /\ Len(Tail(q)) = Len(q) - 1 /\ 1 \in 1..Len(q)
      /\ \A i \in 1..Len(Tail(q)) : Tail(q)[i] = q[i + 1] /\ i + 1 \in 1..Len(q) /\ i + 1 # 1
  OBVIOUS
<1>2. \A i, j \in 1..Len(Tail(q)) : i + 1 = j + 1 => i = j
  BY <1>1
<1>3. Len(Tail(q)) <= Len(q)
  BY <1>1
<1>4. Has(q, Head(q))
  BY <1>1, Zenon DEF Has
<1>5. \A x : Has(Tail(q), x) => Has(q, x)
  BY <1>1, Zenon DEF Has
<1>6. \A x : Once(q, x) => Once(Tail(q), x)
  <2> SUFFICES ASSUME NEW x, Once(q, x), NEW i \in 1..Len(Tail(q)), NEW j \in 1..Len(Tail(q)),
                      Tail(q)[i] = x, Tail(q)[j] = x
               PROVE  i = j
    BY Zenon DEF Once
  <2>1. q[i + 1] = x /\ q[j + 1] = x /\ i + 1 \in 1..Len(q) /\ j + 1 \in 1..Len(q)
    BY <1>1, Zenon
  <2>2. i + 1 = j + 1
    BY <2>1, Zenon DEF Once
  <2> QED BY <2>2, <1>2, Zenon
<1>7. Once(q, Head(q)) => ~Has(Tail(q), Head(q))
  BY <1>1, Zenon DEF Has, Once
<1> QED BY <1>1, <1>3, <1>4, <1>5, <1>6, <1>7, Zenon

(* What c has asked for stays true if nothing comes closer to the server.    *)
LEMMA ClientFrame ==
  ASSUME NEW c \in Clients, ClientInv(c),
         cpc'[c] = cpc[c], HasNames(c)' <=> HasNames(c), NoNames(c)' <=> NoNames(c),
         Queued(c)' => Queued(c) /\ (QueuedOnce(c) => QueuedOnce(c)'),
         InProcess(c)' => InProcess(c), Registered(c)' => Registered(c)
  PROVE  ClientInv(c)'
BY SMT DEF ClientInv, Fresh

(* The registry thread finds the names of the client it is registering.      *)
LEMMA NamesThere ==
  ASSUME ClientTypes, NEW c \in Clients, ClientInv(c), InProcess(c)
  PROVE  HasNames(c)
<1>1. cpc[c] \in {"out", "create", "register", "ready", "answered", "unlink"}
  BY Zenon DEF ClientTypes
<1> QED BY <1>1, Zenon DEF ClientInv, Fresh

LEMMA RangeFacts ==
  ASSUME NEW S \in Nat, NEW s \in 0..S, NEW o \in 1..s
  PROVE  o \in 1..S /\ s \in 1..S /\ o <= s
OBVIOUS

(* mq_send of an entry of c. *)
LEMMA SendFacts ==
  ASSUME QueueTypes, NEW c \in Clients, opened[c] \in 1..started, UNCHANGED started,
         NEW cmd \in {"TINYFILE_CLIENT_REGISTER", "TINYFILE_CLIENT_UNREGISTER"},
         SendEntry(c, cmd)
  PROVE  /\ queue' \in [1..Starts -> Seq(Entries)]
         /\ \A g \in 1..Starts : Len(queue'[g]) <= MqMaxMsg
         /\ \A g \in 1..Starts : g > started => queue'[g] = queue[g]
         /\ \A d \in Clients : d # c \/ cmd # "TINYFILE_CLIENT_REGISTER" =>
              (Queued(d)' => Queued(d) /\ (QueuedOnce(d) => QueuedOnce(d)'))
         /\ ~Queued(c) => QueuedOnce(c)'
<1> DEFINE o == opened[c]
           e == [cmd |-> cmd, pid |-> c]
           q == queue[o]
<1>1. /\ queue \in [1..Starts -> Seq(Entries)] /\ o \in 1..Starts /\ started \in 1..Starts
      /\ o <= started
  BY RangeFacts, RegistryAssumption, Zenon DEF QueueTypes
<1>2. q \in Seq(Entries) /\ e \in Entries
  <2>1. e \in Entries
    BY Zenon DEF Entries
  <2> QED BY <1>1, <2>1, Zenon
<1>3. queue' = [queue EXCEPT ![o] = Append(q, e)] /\ Len(q) < MqMaxMsg
  BY Zenon DEF SendEntry
<1>4. queue' = [g \in 1..Starts |-> IF g = o THEN Append(q, e) ELSE queue[g]]
  <2> HIDE DEF q, e, o
  <2> QED BY <1>1, <1>3, ExceptAt, Zenon
<1>5. /\ Append(q, e) \in Seq(Entries) /\ Len(Append(q, e)) = Len(q) + 1
      /\ \A x : Has(Append(q, e), x) => Has(q, x) \/ x = e
      /\ \A x : Once(q, x) /\ x # e => Once(Append(q, e), x)
      /\ \A x : ~Has(q, x) => Once(Append(q, e), x)
  BY <1>2, AppendFacts, Zenon
<1>6. Len(q) \in Nat /\ MqMaxMsg \in Nat
  BY <1>2, RegistryAssumption, SMT
<1>7. Len(Append(q, e)) <= MqMaxMsg
  BY <1>3, <1>5, <1>6
<1>8. \A g \in 1..Starts : Len(queue[g]) <= MqMaxMsg
  BY Zenon DEF QueueTypes
<1>9. \A d \in Clients : d # c \/ cmd # "TINYFILE_CLIENT_REGISTER" => Entry(d) # e
  BY SMT DEF Entry
<1>10. \A g \in 1..Starts : g > started => g # o
  BY <1>1
<1>11. Has(queue[started], Entry(c)) <=> Queued(c)
  BY <1>1, SMT DEF Queued
<1>12. started # 0
  BY <1>1
<1> HIDE DEF e, o, q
<1>13. queue'[started] = IF started = o THEN Append(q, e) ELSE queue[started]
  BY <1>1, <1>4, Zenon
<1>14. started = o => queue[started] = q
  BY Zenon DEF q
<1>15. \A d \in Clients : d # c \/ cmd # "TINYFILE_CLIENT_REGISTER" =>
              (Queued(d)' => Queued(d) /\ (QueuedOnce(d) => QueuedOnce(d)'))
  BY <1>5, <1>9, <1>12, <1>13, <1>14, Zenon DEF Queued, QueuedOnce, Entry
<1>16. ~Queued(c) => QueuedOnce(c)'
  <2>1. CASE started = o
    BY <2>1, <1>5, <1>11, <1>13, <1>14, Zenon DEF QueuedOnce, Entry
  <2>2. CASE started # o
    BY <2>2, <1>11, <1>13, Zenon DEF QueuedOnce, Has, Once, Entry
  <2> QED BY <2>1, <2>2, Zenon
<1>17. queue' \in [1..Starts -> Seq(Entries)]
  BY <1>1, <1>4, <1>5, Zenon
<1>18. \A g \in 1..Starts : queue'[g] = IF g = o THEN Append(q, e) ELSE queue[g]
  BY <1>4, Zenon
<1> QED BY <1>7, <1>8, <1>10, <1>15, <1>16, <1>17, <1>18, Zenon

-----------------------------------------------------------------------------
(* The steps of a client. *)

(* What they leave alone. *)
LEMMA ServerUnchanged ==
  ASSUME UNCHANGED server_vars
  PROVE  /\ UNCHANGED <<started, up, clients, mem, allocated, STOP_REGISTRY, spc, msg, recv_q>>
         /\ UNCHANGED <<head, node, client_list, in_exit, serving, reused, stopped>>
BY Zenon DEF server_vars, list_vars, locals, entry, history

LEMMA ClientTypesKept ==
  ASSUME TInv, QueueInv, CInv, NEW c \in Clients, ClientStep(c)
  PROVE  ClientTypes' /\ QueueTypes' /\ uncounted' \subseteq Nodes /\ QueueInv'
           /\ visits[c] <= visits'[c] /\ \A d \in Clients \ {c} : visits'[d] = visits[d]
<1>1. /\ cpc \in [Clients -> {"out", "create", "register", "ready", "answered", "unlink"}]
      /\ visits \in [Clients -> 0..Visits]
      /\ opened \in [Clients -> 1..Starts \cup {NULL}]
      /\ names \subseteq UNION {Names(d) : d \in Clients}
      /\ registry_queue \in 1..Starts \cup {NULL}
      /\ queue \in [1..Starts -> Seq(Entries)]
      /\ \A g \in 1..Starts : Len(queue[g]) <= MqMaxMsg
      /\ started \in 0..Starts /\ uncounted \subseteq Nodes /\ serving \subseteq Nodes
  BY Zenon DEF TInv, ClientTypes, QueueTypes, HeapTypes
<1>2. UNCHANGED <<started, registry_queue>>
  BY ServerUnchanged, Zenon DEF ClientStep
<1>3. /\ \A g \in 1..Starts : g > started => queue[g] = << >>
      /\ registry_queue # NULL => registry_queue <= started
      /\ \A d \in Clients : cpc[d] # "out" => opened[d] \in 1..started
  BY Zenon DEF QueueInv
<1>4. visits[c] \in Int /\ visits[c] <= visits[c]
  BY <1>1
<1>5. CASE OpenRegistry(c)
  <2>1. UNCHANGED <<names, queue, uncounted>> /\ visits[c] < Visits /\ Visits \in Nat
    BY <1>5, RegistryAssumption, Zenon DEF OpenRegistry
  <2>2. visits' = [visits EXCEPT ![c] = visits[c] + 1]
    BY <1>5, Zenon DEF OpenRegistry
  <2>3. visits[c] + 1 \in 0..Visits /\ visits[c] <= visits[c] + 1
    BY <1>1, <2>1
  <2>4. visits' \in [Clients -> 0..Visits] /\ visits'[c] = visits[c] + 1
          /\ \A d \in Clients \ {c} : visits'[d] = visits[d]
    <3> DEFINE v == visits[c] + 1
    <3>1. visits' = [d \in Clients |-> IF d = c THEN v ELSE visits[d]]
      BY <1>1, <2>2, ExceptAt, Zenon
    <3>2. v \in 0..Visits
      BY <2>3, Zenon
    <3> HIDE DEF v
    <3>3. visits' \in [Clients -> 0..Visits] /\ visits'[c] = v
          /\ \A d \in Clients \ {c} : visits'[d] = visits[d]
      BY <1>1, <3>1, <3>2, Zenon
    <3> QED BY <3>3, Zenon DEF v
  <2>5. CASE registry_queue = NULL
    <3>1. UNCHANGED <<cpc, opened>>
      BY <1>5, <2>5, Zenon DEF OpenRegistry
    <3> QED BY <1>1, <1>2, <1>3, <2>1, <2>3, <2>4, <3>1, Zenon DEF ClientTypes, QueueTypes, QueueInv
  <2>6. CASE registry_queue # NULL
    <3>1. cpc' = [cpc EXCEPT ![c] = "create"] /\ opened' = [opened EXCEPT ![c] = registry_queue]
      BY <1>5, <2>6, Zenon DEF OpenRegistry, At
    <3>2. cpc' = [d \in Clients |-> IF d = c THEN "create" ELSE cpc[d]]
            /\ opened' = [d \in Clients |-> IF d = c THEN registry_queue ELSE opened[d]]
      BY <1>1, <3>1, ExceptAt, Zenon
    <3>3. registry_queue \in 1..started
      <4>1. registry_queue \in 1..Starts /\ registry_queue <= started
        BY <1>1, <1>3, <2>6, Zenon
      <4> QED BY <4>1, <1>1, RegistryAssumption
    <3>4. cpc' \in [Clients -> {"out", "create", "register", "ready", "answered", "unlink"}]
            /\ opened' \in [Clients -> 1..Starts \cup {NULL}]
      BY <1>1, <3>2, Zenon
    <3>5. \A d \in Clients : cpc'[d] # "out" => opened'[d] \in 1..started
      BY <1>3, <3>2, <3>3, Zenon
    <3> QED BY <1>1, <1>2, <1>3, <2>1, <2>3, <2>4, <3>4, <3>5, Zenon
            DEF ClientTypes, QueueTypes, QueueInv
  <2> QED BY <2>5, <2>6, Zenon
<1>6. ASSUME NEW l \in {"out", "create", "register", "ready", "answered", "unlink"}, At(c, l),
             cpc[c] # "out", UNCHANGED <<visits, opened>>,
             names' \subseteq UNION {Names(d) : d \in Clients},
             /\ queue' \in [1..Starts -> Seq(Entries)]
             /\ \A g \in 1..Starts : Len(queue'[g]) <= MqMaxMsg
             /\ \A g \in 1..Starts : g > started => queue'[g] = queue[g],
             uncounted' \subseteq Nodes
      PROVE  ClientTypes' /\ QueueTypes' /\ uncounted' \subseteq Nodes /\ QueueInv'
               /\ visits[c] <= visits'[c] /\ \A d \in Clients \ {c} : visits'[d] = visits[d]
  <2>1. cpc' = [d \in Clients |-> IF d = c THEN l ELSE cpc[d]]
    BY <1>1, <1>6, ExceptAt, Zenon DEF At
  <2>2. cpc' \in [Clients -> {"out", "create", "register", "ready", "answered", "unlink"}]
    BY <1>1, <1>6, <2>1, Zenon
  <2>3. \A d \in Clients : cpc'[d] # "out" => opened'[d] \in 1..started
    BY <1>3, <1>6, <2>1, Zenon
  <2>4. \A g \in 1..Starts : g > started => queue'[g] = << >>
    BY <1>3, <1>6, Zenon
  <2> QED BY <1>1, <1>2, <1>3, <1>4, <1>6, <2>2, <2>3, <2>4, Zenon
          DEF ClientTypes, QueueTypes, QueueInv
<1>7. CASE CreateNames(c)
  <2>1. /\ cpc[c] = "create" /\ UNCHANGED <<visits, opened, queue, uncounted>>
        /\ \/ At(c, "register") /\ names' = names \cup Names(c)
           \/ At(c, "out") /\ UNCHANGED names
    BY <1>7, Zenon DEF CreateNames
  <2>2. names' \subseteq UNION {Names(d) : d \in Clients}
    BY <1>1, <2>1, SMT
  <2> QED BY <1>1, <1>6, <2>1, <2>2, Zenon
<1>8. CASE SendRegister(c)
  <2>1. /\ cpc[c] = "register" /\ At(c, "ready") /\ SendEntry(c, "TINYFILE_CLIENT_REGISTER")
        /\ UNCHANGED <<visits, opened, names, uncounted>>
    BY <1>8, Zenon DEF SendRegister, SendEntry
  <2>2. /\ queue' \in [1..Starts -> Seq(Entries)]
        /\ \A g \in 1..Starts : Len(queue'[g]) <= MqMaxMsg
        /\ \A g \in 1..Starts : g > started => queue'[g] = queue[g]
    BY <1>2, <1>3, <2>1, SendFacts, Zenon DEF TInv
  <2> QED BY <1>1, <1>6, <2>1, <2>2, Zenon
<1>9. CASE Call(c)
  <2>1. /\ cpc[c] = "ready" /\ At(c, "answered") /\ UNCHANGED <<visits, opened, names, queue>>
        /\ \E n \in serving : uncounted' = uncounted \cup {n}
    BY <1>9, Zenon DEF Call
  <2>2. uncounted' \subseteq Nodes
    BY <1>1, <2>1, SMT
  <2> QED BY <1>1, <1>6, <2>1, <2>2, Zenon
<1>10. CASE SendUnregister(c)
  <2>1. /\ cpc[c] \in {"ready", "answered"} /\ At(c, "unlink")
        /\ SendEntry(c, "TINYFILE_CLIENT_UNREGISTER")
        /\ UNCHANGED <<visits, opened, names, uncounted>>
    BY <1>10, Zenon DEF SendUnregister, SendEntry
  <2>2. /\ queue' \in [1..Starts -> Seq(Entries)]
        /\ \A g \in 1..Starts : Len(queue'[g]) <= MqMaxMsg
        /\ \A g \in 1..Starts : g > started => queue'[g] = queue[g]
    BY <1>2, <1>3, <2>1, SendFacts, Zenon DEF TInv
  <2> QED BY <1>1, <1>6, <2>1, <2>2, Zenon
<1>11. CASE Unlink(c)
  <2>1. /\ cpc[c] = "unlink" /\ UNCHANGED <<visits, opened, queue, uncounted>>
        /\ names' \subseteq names /\ (At(c, "out") \/ At(c, "unlink"))
    BY <1>11, Zenon DEF Unlink
  <2>2. names' \subseteq UNION {Names(d) : d \in Clients}
    BY <1>1, <2>1, Zenon
  <2> QED BY <1>1, <1>6, <2>1, <2>2, Zenon
<1>12. CASE EndWithoutExit(c)
  <2>1. /\ cpc[c] = "ready" /\ At(c, "out")
        /\ UNCHANGED <<visits, opened, names, queue, uncounted>>
    BY <1>12, Zenon DEF EndWithoutExit
  <2> QED BY <1>1, <1>6, <2>1, Zenon
<1> QED BY <1>5, <1>7, <1>8, <1>9, <1>10, <1>11, <1>12, Zenon DEF ClientStep

LEMMA ClientServerKept ==
  ASSUME TInv, SInv, CInv, NEW c \in Clients, ClientStep(c)
  PROVE  TInv' /\ SInv'
<1>1. /\ UNCHANGED <<started, up, clients, mem, allocated, STOP_REGISTRY, spc, msg, recv_q>>
      /\ UNCHANGED <<head, node, client_list, in_exit, serving, reused, stopped>>
  BY ServerUnchanged, Zenon DEF ClientStep
<1>2. ClientTypes' /\ QueueTypes' /\ uncounted' \subseteq Nodes /\ QueueInv'
           /\ visits[c] <= visits'[c] /\ \A d \in Clients \ {c} : visits'[d] = visits[d]
  BY ClientTypesKept, Zenon DEF SInv
<1>3. HeapTypes' /\ ThreadTypes' /\ FlagTypes' /\ LocalsInv' /\ UpInv' /\ DownInv'
  BY <1>1, <1>2, Zenon DEF TInv, SInv, HeapTypes, ThreadTypes, FlagTypes, LocalsInv, UpInv, DownInv
<1>4. \A d \in Clients, k \in Nat : k <= visits[d] => k <= visits'[d]
  <2> TAKE d \in Clients, k \in Nat
  <2> HAVE k <= visits[d]
  <2>1. visits \in [Clients -> 0..Visits] /\ visits' \in [Clients -> 0..Visits]
    BY <1>2, Zenon DEF TInv, ClientTypes
  <2>2. visits[d] \in 0..Visits /\ visits'[d] \in 0..Visits
    BY <2>1, Zenon
  <2>3. visits[d] <= visits'[d]
    <3>1. visits[d] <= visits[d]
      BY <2>2, RegistryAssumption
    <3> QED BY <1>2, <3>1, Zenon
  <2> QED BY <2>2, <2>3, RegistryAssumption
<1>5. \A n \in Nodes : mem[n].recv_q \in Nat
  BY Zenon DEF TInv, HeapTypes, Mem, Record
<1>6. NodeInv'
  BY <1>1, <1>4, <1>5, Zenon DEF SInv, NodeInv
<1>7. EntryInv'
  BY <1>1, <1>4, Zenon DEF SInv, EntryInv, TInv, FlagTypes, LocalsInv, Registering
<1> QED BY <1>2, <1>3, <1>6, <1>7, Zenon DEF TInv, SInv

(* destroy_queues and destroy_shm of c remove a name of c. *)
LEMMA NextNameFacts ==
  ASSUME NEW c, ~NoNames(c)
  PROVE  NextName(c) \in Names(c) \cap names
<1> DEFINE P(n) == \/ n[1] = "send"
                   \/ n[1] = "recv" /\ <<"send", c>> \notin names
                   \/ Names(c) \cap names = {<<"shm", c>>}
<1>1. \E n \in Names(c) \cap names : P(n)
  <2>1. CASE <<"send", c>> \in names
    <3>1. <<"send", c>>[1] = "send"
      OBVIOUS
    <3> QED BY <2>1, <3>1, NamesFacts, Zenon
  <2>2. CASE <<"send", c>> \notin names /\ <<"recv", c>> \in names
    <3>1. <<"recv", c>>[1] = "recv"
      OBVIOUS
    <3> QED BY <2>2, <3>1, NamesFacts, Zenon
  <2>3. CASE <<"send", c>> \notin names /\ <<"recv", c>> \notin names
    <3>1. \A x : x \in Names(c) \cap names => x = <<"shm", c>>
      BY <2>3, NamesFacts, Zenon
    <3>2. \E x : x \in Names(c) \cap names
      BY Zenon DEF NoNames
    <3>3. Names(c) \cap names = {<<"shm", c>>}
      BY <3>1, <3>2, Zenon
    <3> QED BY <3>2, <3>3, Zenon
  <2> QED BY <2>1, <2>2, <2>3, Zenon
<1>2. NextName(c) = CHOOSE n \in Names(c) \cap names : P(n)
  BY Zenon DEF NextName
<1> HIDE DEF P
<1> QED BY <1>1, <1>2, Zenon

(* The other clients. *)
LEMMA OthersKept ==
  ASSUME TInv, QueueInv, NEW c \in Clients, ClientInv(c), ClientStep(c),
         NEW d \in Clients \ {c}, ClientInv(d)
  PROVE  ClientInv(d)'
<1>1. UNCHANGED <<started, mem, spc, msg>>
  BY ServerUnchanged, Zenon DEF ClientStep
<1>2. /\ cpc \in [Clients -> {"out", "create", "register", "ready", "answered", "unlink"}]
      /\ visits \in [Clients -> 0..Visits]
  BY Zenon DEF TInv, ClientTypes
<1>3. \A l : At(c, l) => cpc'[d] = cpc[d]
  <2>1. \A l : At(c, l) => cpc' = [x \in Clients |-> IF x = c THEN l ELSE cpc[x]]
    BY <1>2, ExceptAt, Zenon DEF At
  <2> QED BY <2>1, Zenon
<1>4. InProcess(d)' => InProcess(d)
  BY <1>1, Zenon DEF InProcess
<1>5. visits'[d] = visits[d] => (Registered(d)' => Registered(d))
  BY <1>1, Zenon DEF Registered
<1>6. UNCHANGED names => (HasNames(d)' <=> HasNames(d)) /\ (NoNames(d)' <=> NoNames(d))
  BY Zenon DEF HasNames, NoNames
<1>7. UNCHANGED queue => (Queued(d)' => Queued(d) /\ (QueuedOnce(d) => QueuedOnce(d)'))
  BY <1>1, Zenon DEF Queued, QueuedOnce, Entry
<1>8. \A x \in Names(c) : x \notin Names(d)
  BY NamesFacts, Zenon
<1>9. \A cmd \in {"TINYFILE_CLIENT_REGISTER", "TINYFILE_CLIENT_UNREGISTER"} :
        SendEntry(c, cmd) /\ cpc[c] # "out" =>
          (Queued(d)' => Queued(d) /\ (QueuedOnce(d) => QueuedOnce(d)'))
  BY <1>1, SendFacts, Zenon DEF TInv, QueueInv
<1>10. CASE OpenRegistry(c)
  <2>1. /\ UNCHANGED <<names, queue>> /\ visits' = [visits EXCEPT ![c] = visits[c] + 1]
        /\ UNCHANGED cpc \/ At(c, "create")
    BY <1>10, Zenon DEF OpenRegistry
  <2>2. visits'[d] = visits[d]
    BY <1>2, <2>1, ExceptAt, Zenon
  <2>3. cpc'[d] = cpc[d]
    BY <2>1, <1>3, Zenon
  <2> QED BY <1>4, <1>5, <1>6, <1>7, <2>1, <2>2, <2>3, ClientFrame, Zenon
<1>11. CASE CreateNames(c)
  <2>1. /\ UNCHANGED <<visits, queue>> /\ (At(c, "register") \/ At(c, "out"))
        /\ names' = names \cup Names(c) \/ UNCHANGED names
    BY <1>11, Zenon DEF CreateNames
  <2>2. (HasNames(d)' <=> HasNames(d)) /\ (NoNames(d)' <=> NoNames(d))
    BY <1>6, <1>8, <2>1, Zenon DEF HasNames, NoNames
  <2> QED BY <1>3, <1>4, <1>5, <1>7, <2>1, <2>2, ClientFrame, Zenon
<1>12. CASE SendRegister(c)
  <2>1. /\ cpc[c] # "out" /\ At(c, "ready") /\ SendEntry(c, "TINYFILE_CLIENT_REGISTER")
        /\ UNCHANGED <<visits, names>>
    BY <1>12, Zenon DEF SendRegister, SendEntry
  <2>2. Queued(d)' => Queued(d) /\ (QueuedOnce(d) => QueuedOnce(d)')
    BY <1>9, <2>1, Zenon
  <2> QED BY <1>3, <1>4, <1>5, <1>6, <2>1, <2>2, ClientFrame, Zenon
<1>13. CASE Call(c)
  <2>1. At(c, "answered") /\ UNCHANGED <<visits, names, queue>>
    BY <1>13, Zenon DEF Call
  <2> QED BY <1>3, <1>4, <1>5, <1>6, <1>7, <2>1, ClientFrame, Zenon
<1>14. CASE SendUnregister(c)
  <2>1. /\ cpc[c] # "out" /\ At(c, "unlink") /\ SendEntry(c, "TINYFILE_CLIENT_UNREGISTER")
        /\ UNCHANGED <<visits, names>>
    BY <1>14, Zenon DEF SendUnregister, SendEntry
  <2>2. Queued(d)' => Queued(d) /\ (QueuedOnce(d) => QueuedOnce(d)')
    BY <1>9, <2>1, Zenon
  <2> QED BY <1>3, <1>4, <1>5, <1>6, <2>1, <2>2, ClientFrame, Zenon
<1>15. CASE Unlink(c)
  <2>1. /\ cpc[c] = "unlink" /\ UNCHANGED <<visits, queue>> /\ (At(c, "out") \/ At(c, "unlink"))
        /\ names' = names \ {NextName(c)}
    BY <1>15, Zenon DEF Unlink
  <2>2. NextName(c) \notin Names(d)
    BY <2>1, <1>8, NextNameFacts, Zenon DEF ClientInv
  <2>3. (HasNames(d)' <=> HasNames(d)) /\ (NoNames(d)' <=> NoNames(d))
    BY <2>1, <2>2, Zenon DEF HasNames, NoNames
  <2> QED BY <1>3, <1>4, <1>5, <1>7, <2>1, <2>3, ClientFrame, Zenon
<1>16. CASE EndWithoutExit(c)
  <2>1. At(c, "out") /\ UNCHANGED <<visits, names, queue>>
    BY <1>16, Zenon DEF EndWithoutExit
  <2> QED BY <1>3, <1>4, <1>5, <1>6, <1>7, <2>1, ClientFrame, Zenon
<1> QED BY <1>10, <1>11, <1>12, <1>13, <1>14, <1>15, <1>16, Zenon DEF ClientStep

(* The client itself; one that waits for its result is "answered" before it  *)
(* exits.                                                                    *)
LEMMA OwnKept ==
  ASSUME Patient, TInv, QueueInv, NodeInv, NEW c \in Clients, ClientInv(c), ClientStep(c)
  PROVE  ClientInv(c)'
<1>1. UNCHANGED <<started, mem, spc, msg>>
  BY ServerUnchanged, Zenon DEF ClientStep
<1>2. /\ cpc \in [Clients -> {"out", "create", "register", "ready", "answered", "unlink"}]
      /\ visits \in [Clients -> 0..Visits] /\ serving \subseteq Nodes
  BY Zenon DEF TInv, ClientTypes, HeapTypes
<1>3. \A l : At(c, l) => cpc'[c] = l
  <2>1. \A l : At(c, l) => cpc' = [x \in Clients |-> IF x = c THEN l ELSE cpc[x]]
    BY <1>2, ExceptAt, Zenon DEF At
  <2> QED BY <2>1, Zenon
<1>4. InProcess(c)' <=> InProcess(c)
  BY <1>1, Zenon DEF InProcess
<1>5. visits'[c] = visits[c] => (Registered(c)' <=> Registered(c))
  BY <1>1, Zenon DEF Registered
<1>6. UNCHANGED names => (HasNames(c)' <=> HasNames(c)) /\ (NoNames(c)' <=> NoNames(c))
  BY Zenon DEF HasNames, NoNames
<1>7. UNCHANGED queue => (Queued(c)' <=> Queued(c)) /\ (QueuedOnce(c) <=> QueuedOnce(c)')
  BY <1>1, Zenon DEF Queued, QueuedOnce, Entry
<1>8. CASE OpenRegistry(c)
  <2>1. /\ UNCHANGED <<names, queue>> /\ visits' = [visits EXCEPT ![c] = visits[c] + 1]
        /\ cpc[c] = "out" /\ (UNCHANGED cpc \/ At(c, "create"))
    BY <1>8, Zenon DEF OpenRegistry
  <2>2. visits'[c] = visits[c] + 1
    BY <1>2, <2>1, ExceptAt, Zenon
  <2>3. ~Registered(c)'
    <3> SUFFICES ASSUME NEW n \in Nodes, mem[n].pid = c, mem[n].recv_q = visits[c] + 1
                 PROVE  FALSE
      BY <1>1, <2>2, Zenon DEF Registered
    <3>1. mem[n].recv_q <= visits[c]
      BY Zenon DEF NodeInv
    <3>2. visits[c] \in 0..Visits
      BY <1>2, Zenon
    <3> QED BY <3>1, <3>2, RegistryAssumption
  <2>4. cpc'[c] \in {"out", "create"}
    BY <1>3, <2>1, Zenon
  <2>5. HasNames(c)' \/ (NoNames(c)' /\ Fresh(c)')
    BY <1>4, <1>6, <1>7, <2>1, Zenon DEF ClientInv, Fresh
  <2> QED BY <2>3, <2>4, <2>5, Zenon DEF ClientInv
<1>9. CASE CreateNames(c)
  <2>1. /\ UNCHANGED <<visits, queue>> /\ cpc[c] = "create"
        /\ \/ NoNames(c) /\ At(c, "register") /\ names' = names \cup Names(c)
           \/ ~NoNames(c) /\ At(c, "out") /\ UNCHANGED names
    BY <1>9, Zenon DEF CreateNames, NoNames
  <2>2. CASE NoNames(c) /\ At(c, "register") /\ names' = names \cup Names(c)
    <3>1. HasNames(c)'
      BY <2>2, Zenon DEF HasNames
    <3>2. ~HasNames(c)
      BY <2>2, NamesFacts, Zenon DEF HasNames, NoNames
    <3>3. Fresh(c)' /\ ~Registered(c)'
      BY <1>4, <1>5, <1>7, <2>1, <3>2, Zenon DEF ClientInv, Fresh
    <3>4. cpc'[c] = "register"
      BY <1>3, <2>2, Zenon
    <3> QED BY <3>1, <3>3, <3>4, Zenon DEF ClientInv
  <2>3. CASE ~NoNames(c) /\ At(c, "out") /\ UNCHANGED names
    <3>1. HasNames(c)'
      BY <1>6, <2>1, <2>3, Zenon DEF ClientInv
    <3>2. cpc'[c] = "out"
      BY <1>3, <2>3, Zenon
    <3> QED BY <3>1, <3>2, Zenon DEF ClientInv
  <2> QED BY <2>1, <2>2, <2>3, Zenon
<1>10. CASE SendRegister(c)
  <2>1. /\ cpc[c] = "register" /\ At(c, "ready") /\ SendEntry(c, "TINYFILE_CLIENT_REGISTER")
        /\ UNCHANGED <<visits, names>>
    BY <1>10, Zenon DEF SendRegister, SendEntry
  <2>2. HasNames(c) /\ Fresh(c) /\ ~Registered(c)
    BY <2>1, Zenon DEF ClientInv
  <2>3. QueuedOnce(c)'
    BY <1>1, <2>1, <2>2, SendFacts, Zenon DEF Fresh, TInv, QueueInv
  <2>4. cpc'[c] = "ready"
    BY <1>3, <2>1, Zenon
  <2> QED BY <1>4, <1>5, <1>6, <2>1, <2>2, <2>3, <2>4, Zenon DEF ClientInv, Fresh
<1>11. CASE Call(c)
  <2>1. /\ At(c, "answered") /\ UNCHANGED <<visits, names, queue>> /\ cpc[c] = "ready"
        /\ \E n \in serving : mem[n].pid = c /\ mem[n].recv_q = visits[c]
    BY <1>11, Zenon DEF Call
  <2>2. Registered(c)
    BY <1>2, <2>1, Zenon DEF Registered
  <2>3. cpc'[c] = "answered"
    BY <1>3, <2>1, Zenon
  <2>4. HasNames(c)' /\ Fresh(c)'
    BY <1>4, <1>6, <1>7, <2>1, <2>2, Zenon DEF ClientInv, Fresh
  <2> QED BY <2>3, <2>4, Zenon DEF ClientInv
<1>12. CASE SendUnregister(c)
  <2>1. /\ cpc[c] = "answered" /\ At(c, "unlink") /\ SendEntry(c, "TINYFILE_CLIENT_UNREGISTER")
        /\ UNCHANGED <<visits, names>>
    BY <1>12, Zenon DEF SendUnregister, SendEntry
  <2>2. HasNames(c) /\ Fresh(c)
    BY <2>1, Zenon DEF ClientInv
  <2>3. Queued(c)' => Queued(c)
    BY <1>1, <2>1, SendFacts, Zenon DEF TInv, QueueInv
  <2>4. ~NoNames(c)'
    BY <2>1, <2>2, NamesFacts, Zenon DEF HasNames, NoNames
  <2>5. cpc'[c] = "unlink"
    BY <1>3, <2>1, Zenon
  <2> QED BY <1>4, <2>2, <2>3, <2>4, <2>5, Zenon DEF ClientInv, Fresh
<1>13. CASE Unlink(c)
  <2>1. /\ cpc[c] = "unlink" /\ UNCHANGED <<visits, queue>>
        /\ \/ At(c, "out") /\ NoNames(c)'
           \/ At(c, "unlink") /\ ~NoNames(c)'
    BY <1>13, Zenon DEF Unlink, NoNames, Names
  <2>2. Fresh(c)'
    BY <1>4, <1>7, <2>1, Zenon DEF ClientInv, Fresh
  <2>3. \/ cpc'[c] = "out" /\ NoNames(c)'
        \/ cpc'[c] = "unlink" /\ ~NoNames(c)'
    BY <1>3, <2>1, Zenon
  <2> QED BY <2>2, <2>3, Zenon DEF ClientInv
<1>14. CASE EndWithoutExit(c)
  <2>1. At(c, "out") /\ UNCHANGED <<visits, names, queue>> /\ cpc[c] = "ready"
    BY <1>14, Zenon DEF EndWithoutExit
  <2>2. cpc'[c] = "out"
    BY <1>3, <2>1, Zenon
  <2> QED BY <1>6, <2>1, <2>2, Zenon DEF ClientInv
<1> QED BY <1>8, <1>9, <1>10, <1>11, <1>12, <1>13, <1>14, Zenon DEF ClientStep

-----------------------------------------------------------------------------
(* The steps of the server. *)

LEMMA ClientsUnchanged ==
  ASSUME UNCHANGED client_vars PROVE UNCHANGED <<cpc, visits, opened, names>>
BY Zenon DEF client_vars

(* The clients see nothing of a step that takes up no entry and registers    *)
(* nobody.                                                                   *)
LEMMA ClientsKept ==
  ASSUME CInv, UNCHANGED client_vars, UNCHANGED started,
         started # 0 => queue'[started] = queue[started],
         \A c \in Clients : InProcess(c)' => InProcess(c),
         \A c \in Clients : Registered(c)' => Registered(c)
  PROVE  CInv'
<1>1. UNCHANGED <<cpc, visits, opened, names>>
  BY ClientsUnchanged, Zenon
<1> SUFFICES ASSUME NEW c \in Clients PROVE ClientInv(c)'
  BY Zenon DEF CInv
<1>2. (HasNames(c)' <=> HasNames(c)) /\ (NoNames(c)' <=> NoNames(c))
  BY <1>1, Zenon DEF HasNames, NoNames
<1>3. Queued(c)' => Queued(c) /\ (QueuedOnce(c) => QueuedOnce(c)')
  BY Zenon DEF Queued, QueuedOnce, Entry
<1> QED BY <1>1, <1>2, <1>3, ClientFrame, Zenon DEF CInv

(* A step of one thread that starts no registration. *)
LEMMA MoveKept ==
  ASSUME IInv, NEW t \in Threads, NEW l \in Labels, Go(t, l), spc[t] # "none",
         UNCHANGED client_vars, UNCHANGED <<started, up, queue, msg>>,
         registry_queue' \in {registry_queue, NULL},
         HeapTypes', FlagTypes', NodeInv', EntryInv', UpInv',
         node' \in [Threads -> Pointers], \A s \in Threads \ {t} : node'[s] = node[s],
         client_list' \in [Threads -> Pointers],
         \A s \in Threads \ {t} : client_list'[s] = client_list[s],
         \A c \in Clients : Registered(c)' => Registered(c),
         l \in Removing => node'[t] \in Nodes,
         l \in {"each", "next"} => client_list'[t] \in Nodes,
         t = "registry" => /\ l \notin {"link", "unregister"}
                           /\ l \in Registering => spc[t] \in Registering
  PROVE  IInv'
<1>1. UNCHANGED <<cpc, visits, opened, names>>
  BY ClientsUnchanged, Zenon
<1>2. spc \in [Threads -> Labels]
  BY Zenon DEF IInv, TInv, ThreadTypes
<1>3. spc' = [s \in Threads |-> IF s = t THEN l ELSE spc[s]]
  BY <1>2, ExceptAt, Zenon DEF Go
<1>4. spc' \in [Threads -> Labels] /\ spc'[t] = l /\ \A s \in Threads \ {t} : spc'[s] = spc[s]
  BY <1>2, <1>3, Zenon
<1>5. "registry" \in Threads
  BY Zenon DEF Threads
<1>6. ClientTypes' /\ QueueTypes' /\ ThreadTypes'
  BY <1>1, <1>4, Zenon DEF IInv, TInv, ClientTypes, QueueTypes, ThreadTypes
<1>7. \/ t = "registry" /\ spc'["registry"] = l
      \/ spc'["registry"] = spc["registry"] /\ node'["registry"] = node["registry"]
  BY <1>4, <1>5, Zenon
<1>8. LocalsInv'
  <2>1. spc'["registry"] \in Registering \cup {"unregister"} => msg'.pid \in Clients
    BY <1>7, Zenon DEF IInv, SInv, LocalsInv
  <2>2. spc'["registry"] = "link" => node'["registry"] \in Nodes
    BY <1>7, Zenon DEF IInv, SInv, LocalsInv
  <2>3. spc'["registry"] # "none" => started' # 0
    <3>1. spc[t] # "none" /\ (t = "registry" \/ spc'["registry"] = spc["registry"])
      BY <1>7, Zenon
    <3> QED BY <3>1, Zenon DEF IInv, SInv, LocalsInv
  <2>4. \A s \in Threads : /\ spc'[s] \in Removing => node'[s] \in Nodes
                           /\ spc'[s] \in {"each", "next"} => client_list'[s] \in Nodes
    BY <1>4, Zenon DEF IInv, SInv, LocalsInv
  <2> QED BY <2>1, <2>2, <2>3, <2>4, Zenon DEF LocalsInv
<1>9. QueueInv'
  BY <1>1, Zenon DEF IInv, SInv, QueueInv
<1>10. DownInv'
  BY Zenon DEF IInv, SInv, DownInv
<1>11. \A c \in Clients : InProcess(c)' => InProcess(c)
  BY <1>7, Zenon DEF InProcess
<1>12. CInv'
  BY <1>11, ClientsKept, Zenon DEF IInv
<1> QED BY <1>6, <1>8, <1>9, <1>10, <1>12, Zenon DEF IInv, TInv, SInv

(* Most of them leave the heap alone. *)
LEMMA HeapUnchanged ==
  ASSUME IInv, UNCHANGED client_vars,
         UNCHANGED <<clients, mem, allocated, head, uncounted, serving>>
  PROVE  HeapTypes' /\ NodeInv' /\ \A c \in Clients : Registered(c)' => Registered(c)
<1>1. UNCHANGED <<cpc, visits, opened, names>>
  BY ClientsUnchanged, Zenon
<1>2. HeapTypes' /\ NodeInv'
  BY <1>1, Zenon DEF IInv, TInv, SInv, HeapTypes, NodeInv
<1>3. \A c \in Clients : Registered(c)' => Registered(c)
  BY <1>1, Zenon DEF Registered
<1> QED BY <1>2, <1>3, Zenon

(* The process has ended after somebody asked for that. *)
LEMMA GoneKept ==
  ASSUME IInv, Gone, UNCHANGED client_vars, UNCHANGED started, stopped' = TRUE
  PROVE  IInv'
<1>1. UNCHANGED <<cpc, visits, opened, names>>
  BY ClientsUnchanged, Zenon
<1>2. /\ up' = FALSE /\ UNCHANGED <<registry_queue, queue>>
      /\ clients' = NULL /\ allocated' = {} /\ uncounted' = {} /\ serving' = {}
      /\ mem' = [n \in Nodes |-> Unused]
      /\ STOP_REGISTRY' = FALSE
      /\ spc' = [t \in Threads |-> "none"]
      /\ recv_q' = 0 /\ head' = NULL
      /\ node' = [t \in Threads |-> NULL] /\ client_list' = [t \in Threads |-> NULL]
      /\ in_exit' = FALSE /\ reused' = FALSE
  BY Zenon DEF Gone, queue_vars
<1>3. NULL \in Pointers /\ "none" \in Labels /\ Unused \in Record
  BY SMT DEF Pointers, Labels, Unused, Record
<1>4. \A t \in Threads : spc'[t] = "none" /\ client_list'[t] = NULL
  BY <1>2, Zenon
<1>5. "registry" \in Threads /\ "none" \notin Registering \cup Removing \cup {"each", "next"}
  BY SMT DEF Threads, Registering, Removing
<1>6. \A n \in Nodes : mem'[n].pid \notin Clients
  BY <1>2, RegistryAssumption, Zenon DEF Unused, FreedPid
<1>7. ClientTypes' /\ QueueTypes' /\ ThreadTypes'
  BY <1>1, <1>2, <1>3, Zenon DEF IInv, TInv, ClientTypes, QueueTypes, ThreadTypes
<1>8. HeapTypes' /\ FlagTypes'
  <2>1. 0 \in Nat
    OBVIOUS
  <2> QED BY <1>2, <1>3, <2>1, Zenon DEF HeapTypes, FlagTypes, Mem
<1>9. LocalsInv' /\ EntryInv'
  BY <1>4, <1>5, Zenon DEF LocalsInv, EntryInv, Registering
<1>10. QueueInv'
  BY <1>1, <1>2, Zenon DEF IInv, SInv, QueueInv
<1>11. NodeInv' /\ UpInv' /\ DownInv'
  BY <1>4, <1>6, Zenon DEF NodeInv, UpInv, DownInv
<1>12. CInv'
  <2>1. \A c \in Clients : ~InProcess(c)' /\ ~Registered(c)'
    BY <1>4, <1>5, <1>6, Zenon DEF InProcess, Registered
  <2> QED BY <1>2, <2>1, ClientsKept, Zenon DEF IInv
<1> QED BY <1>7, <1>8, <1>9, <1>10, <1>11, <1>12, Zenon DEF IInv, TInv, SInv

LEMMA StartKept == ASSUME IInv, StartServer PROVE IInv'
<1>1. /\ ~up /\ started < Starts /\ started' = started + 1 /\ up' = TRUE
      /\ registry_queue' = started + 1 /\ stopped' = FALSE
      /\ spc' = [registry |-> "receive", main |-> "fgets"]
      /\ UNCHANGED client_vars
      /\ UNCHANGED <<queue, clients, mem, allocated, STOP_REGISTRY, uncounted, serving, reused>>
      /\ UNCHANGED <<msg, recv_q, head, node, client_list, in_exit>>
  BY Zenon DEF StartServer, list_vars, locals, entry
<1>2. UNCHANGED <<cpc, visits, opened, names>>
  BY <1>1, ClientsUnchanged, Zenon
<1>3. started \in 0..Starts /\ queue \in [1..Starts -> Seq(Entries)]
        /\ \A g \in 1..Starts : g > started => queue[g] = << >>
  BY Zenon DEF IInv, TInv, QueueTypes, SInv, QueueInv
<1>4. /\ started' \in 0..Starts /\ started' \in 1..Starts /\ started' > started
      /\ started' # 0 /\ started' <= started' /\ 1..started \subseteq 1..started'
      /\ \A g \in 1..Starts : g > started' => g > started
  BY <1>1, <1>3, RegistryAssumption
<1>5. spc'["registry"] = "receive" /\ spc'["main"] = "fgets"
        /\ spc' \in [Threads -> Labels]
  BY <1>1, SMT DEF Threads, Labels
<1>6. "receive" \notin Registering \cup Removing \cup Exiting \cup {"link", "unregister"}
        /\ "fgets" \notin Registering \cup Removing \cup Exiting
  BY SMT DEF Registering, Removing, Exiting
<1>7. ClientTypes' /\ QueueTypes' /\ HeapTypes' /\ ThreadTypes' /\ FlagTypes'
  BY <1>1, <1>2, <1>4, <1>5, Zenon
     DEF IInv, TInv, ClientTypes, QueueTypes, HeapTypes, ThreadTypes, FlagTypes
<1>8. LocalsInv'
  BY <1>1, <1>4, <1>5, <1>6, Zenon DEF LocalsInv, Threads, Exiting
<1>9. QueueInv'
  BY <1>1, <1>2, <1>3, <1>4, Zenon DEF IInv, SInv, QueueInv
<1>10. NodeInv' /\ EntryInv' /\ DownInv'
  BY <1>1, <1>2, <1>5, Zenon DEF IInv, SInv, NodeInv, EntryInv, DownInv
<1>11. UpInv'
  BY <1>1, <1>5, <1>6, Zenon DEF UpInv, IInv, SInv, DownInv, Threads
<1>12. CInv'
  <2> SUFFICES ASSUME NEW c \in Clients PROVE ClientInv(c)'
    BY Zenon DEF CInv
  <2>1. ~InProcess(c)'
    BY <1>5, <1>6, Zenon DEF InProcess
  <2>2. queue'[started'] = << >>
    BY <1>1, <1>3, <1>4, Zenon
  <2>3. \A e : ~Has(<< >>, e)
    BY SMT DEF Has
  <2>4. ~Queued(c)'
    BY <2>2, <2>3, Zenon DEF Queued, Entry
  <2>5. (HasNames(c)' <=> HasNames(c)) /\ (NoNames(c)' <=> NoNames(c))
          /\ (Registered(c)' => Registered(c))
    BY <1>1, <1>2, Zenon DEF HasNames, NoNames, Registered
  <2> QED BY <1>2, <2>1, <2>4, <2>5, ClientFrame, Zenon DEF IInv, CInv
<1> QED BY <1>7, <1>8, <1>9, <1>10, <1>11, <1>12, Zenon DEF IInv, TInv, SInv

LEMMA KillKept == ASSUME IInv, KillServer PROVE IInv'
BY GoneKept, Zenon DEF KillServer

LEMMA CountKept == ASSUME IInv, NEW n \in Nodes, CountRequest(n) PROVE IInv'
<1>1. /\ UNCHANGED <<cpc, visits, opened, names, registry_queue, queue>>
      /\ UNCHANGED <<started, up, clients, mem, allocated, STOP_REGISTRY, spc, msg, recv_q>>
      /\ UNCHANGED <<head, node, client_list, in_exit, serving, reused, stopped>>
      /\ uncounted' = uncounted \ {n} /\ UNCHANGED client_vars
  BY ServerUnchanged, ClientsUnchanged, Zenon DEF CountRequest, queue_vars
<1>2. TInv'
  BY <1>1, Zenon DEF IInv, TInv, ClientTypes, QueueTypes, HeapTypes, ThreadTypes, FlagTypes
<1>3. SInv'
  BY <1>1, Zenon DEF IInv, SInv, LocalsInv, QueueInv, NodeInv, EntryInv, UpInv, DownInv
<1>4. \A c \in Clients : (InProcess(c)' => InProcess(c)) /\ (Registered(c)' => Registered(c))
  BY <1>1, Zenon DEF InProcess, Registered
<1>5. CInv'
  BY <1>1, <1>4, ClientsKept, Zenon DEF IInv
<1> QED BY <1>2, <1>3, <1>5, Zenon DEF IInv

(* If nobody has asked the server to quit, a thread that moves is the        *)
(* registry thread.                                                          *)
LEMMA UpMove ==
  ASSUME IInv, NEW t \in Threads, NEW l \in Labels, Go(t, l), spc[t] # "fgets",
         UNCHANGED <<up, stopped>>,
         ~stopped /\ t = "registry" =>
           /\ l \notin Exiting /\ client_list'["registry"] = NULL
           /\ l = "link" => head' = clients'
           /\ l \in Removing => node'["registry"] \in allocated'
           /\ l = "remove" => clients' # NULL
  PROVE  UpInv'
<1>1. spc' = [s \in Threads |-> IF s = t THEN l ELSE spc[s]]
  BY ExceptAt, Zenon DEF Go, IInv, TInv, ThreadTypes
<1>2. ~stopped => t = "registry" /\ spc'["main"] = "fgets"
  <2>1. ~stopped => spc["main"] = "fgets"
    BY Zenon DEF IInv, SInv, UpInv
  <2>2. t = "registry" \/ t = "main"
    BY Zenon DEF Threads
  <2>3. "main" \in Threads /\ "main" # "registry"
    BY Zenon DEF Threads
  <2> QED BY <1>1, <2>1, <2>2, <2>3, Zenon
<1>3. ~stopped => spc'["registry"] = l
  BY <1>1, <1>2, Zenon
<1> QED BY <1>2, <1>3, Zenon DEF UpInv, IInv, SInv

(* Steps after which a thread is elsewhere and nothing else has changed. *)
LEMMA GoKept ==
  ASSUME IInv, NEW t \in Threads, NEW l \in Labels, Go(t, l), spc[t] \notin {"none", "fgets"},
         UNCHANGED client_vars, UNCHANGED started,
         UNCHANGED <<queue_vars, up, list_vars, STOP_REGISTRY, locals, uncounted, history>>,
         l \in Removing => spc[t] \in Removing /\ l # "remove",
         l \notin {"each", "next", "link", "unregister"} \cup Exiting,
         l \notin {"open_shm", "append"},
         t = "registry" => (l \in Registering => spc[t] \in Registering)
  PROVE  IInv'
<1>1. /\ UNCHANGED <<up, registry_queue, queue, clients, mem, allocated, STOP_REGISTRY>>
      /\ UNCHANGED <<msg, recv_q, head, node, client_list, in_exit>>
      /\ UNCHANGED <<uncounted, serving, reused, stopped>>
  BY Zenon DEF queue_vars, list_vars, locals, entry, history
<1>2. HeapTypes' /\ NodeInv' /\ \A c \in Clients : Registered(c)' => Registered(c)
  BY <1>1, HeapUnchanged, Zenon
<1>3. FlagTypes' /\ node \in [Threads -> Pointers] /\ client_list \in [Threads -> Pointers]
  BY <1>1, Zenon DEF IInv, TInv, FlagTypes, ThreadTypes
<1>4. spc' = [s \in Threads |-> IF s = t THEN l ELSE spc[s]]
  BY ExceptAt, Zenon DEF Go, IInv, TInv, ThreadTypes
<1>5. EntryInv'
  <2>1. "registry" \in Threads
    BY Zenon DEF Threads
  <2>2. spc'["registry"] = l \/ spc'["registry"] = spc["registry"]
    BY <1>4, <2>1, Zenon
  <2>3. UNCHANGED <<cpc, visits, opened, names>>
    BY ClientsUnchanged, Zenon
  <2> QED BY <1>1, <2>2, <2>3, Zenon DEF IInv, SInv, EntryInv
<1>6. UpInv'
  <2>1. ~stopped /\ t = "registry" =>
           /\ l \notin Exiting /\ client_list'["registry"] = NULL
           /\ l = "link" => head' = clients'
           /\ l \in Removing => node'["registry"] \in allocated'
           /\ l = "remove" => clients' # NULL
    BY <1>1, Zenon DEF IInv, SInv, UpInv, Removing
  <2> QED BY <1>1, <2>1, UpMove, Zenon
<1>7. l \in Removing => node'[t] \in Nodes
  BY <1>1, Zenon DEF IInv, SInv, LocalsInv
<1>8. registry_queue' \in {registry_queue, NULL} /\ l \notin {"each", "next"}
        /\ l \notin {"link", "unregister"}
  BY <1>1, Zenon
<1> QED BY <1>1, <1>2, <1>3, <1>5, <1>6, <1>7, <1>8, MoveKept, Zenon

LEMMA StopKept ==
  ASSUME IInv, StopRegistry, UNCHANGED <<client_vars, started>> PROVE IInv'
<1>1. /\ "registry" \in Threads /\ "ended" \in Labels /\ "ended" \notin Removing
      /\ "ended" \notin {"each", "next", "link", "unregister"} \cup Exiting
      /\ "ended" \notin {"open_shm", "append"} /\ "ended" \notin Registering
      /\ "receive" \notin {"none", "fgets"}
  BY SMT DEF Threads, Labels, Removing, Exiting, Registering
<1> QED BY <1>1, GoKept, Zenon DEF StopRegistry

LEMMA FindKept ==
  ASSUME IInv, RegisterFind, UNCHANGED <<client_vars, started>> PROVE IInv'
<1>1. \A l \in {"receive", "open_recv"} :
         /\ l \in Labels /\ l \notin Removing
         /\ l \notin {"each", "next", "link", "unregister"} \cup Exiting
         /\ l \notin {"open_shm", "append"}
  BY SMT DEF Labels, Removing, Exiting, Registering
<1>2. "registry" \in Threads /\ "register" \in Registering /\ "register" \notin {"none", "fgets"}
  BY SMT DEF Threads, Registering
<1>3. PICK l \in {"receive", "open_recv"} : Go("registry", l)
  BY Zenon DEF RegisterFind
<1> QED BY <1>1, <1>2, <1>3, GoKept, Zenon DEF RegisterFind

LEMMA AwaitKept ==
  ASSUME IInv, NEW t \in Threads, AwaitWorkers(t), UNCHANGED <<client_vars, started>> PROVE IInv'
<1>1. \A l \in {"free", "loop"} :
         /\ l \in Labels /\ l \in Removing /\ l # "remove"
         /\ l \notin {"each", "next", "link", "unregister"} \cup Exiting
         /\ l \notin {"open_shm", "append"} /\ l \notin Registering
  BY SMT DEF Labels, Removing, Exiting, Registering
<1>2. "wait" \in Removing /\ "wait" \notin {"none", "fgets"}
  BY SMT DEF Removing
<1>3. PICK l \in {"free", "loop"} : Go(t, l)
  BY Zenon DEF AwaitWorkers
<1> QED BY <1>1, <1>2, <1>3, GoKept, Zenon DEF AwaitWorkers

(* The registry thread takes an entry from the queue. *)
LEMMA ReceiveKept ==
  ASSUME IInv, Receive, UNCHANGED <<client_vars, started>> PROVE IInv'
<1> DEFINE q == queue[started]
           l == IF msg'.cmd = "TINYFILE_CLIENT_REGISTER" THEN "register" ELSE "unregister"
<1>1. /\ spc["registry"] = "receive" /\ q # << >> /\ msg' = Head(q) /\ Go("registry", l)
      /\ queue' = [queue EXCEPT ![started] = Tail(q)]
      /\ UNCHANGED <<registry_queue, up, clients, mem, allocated, STOP_REGISTRY, recv_q, head>>
      /\ UNCHANGED <<node, client_list, in_exit, uncounted, serving, reused, stopped>>
      /\ UNCHANGED client_vars /\ UNCHANGED <<cpc, visits, opened, names, started>>
  BY ClientsUnchanged, Zenon DEF Receive, list_vars, history
<1>2. /\ queue \in [1..Starts -> Seq(Entries)] /\ started \in 0..Starts /\ started # 0
      /\ \A g \in 1..Starts : Len(queue[g]) <= MqMaxMsg
      /\ spc \in [Threads -> Labels]
  BY <1>1, Zenon DEF IInv, TInv, QueueTypes, ThreadTypes, SInv, LocalsInv
<1>3. started \in 1..Starts
  BY <1>2, RegistryAssumption
<1>4. q \in Seq(Entries)
  BY <1>2, <1>3, Zenon
<1>5. /\ Head(q) \in Entries /\ Has(q, Head(q))
      /\ Tail(q) \in Seq(Entries) /\ Len(Tail(q)) <= Len(q)
      /\ \A x : Has(Tail(q), x) => Has(q, x)
      /\ \A x : Once(q, x) => Once(Tail(q), x)
      /\ Once(q, Head(q)) => ~Has(Tail(q), Head(q))
  BY <1>1, <1>4, TailFacts, Zenon
<1>6. queue' = [g \in 1..Starts |-> IF g = started THEN Tail(q) ELSE queue[g]]
  <2> HIDE DEF q
  <2> QED BY <1>1, <1>2, ExceptAt, Zenon
<1>7. queue' \in [1..Starts -> Seq(Entries)]
        /\ (\A g \in 1..Starts : Len(queue'[g]) <= MqMaxMsg) /\ queue'[started] = Tail(q)
  <2>1. Len(Tail(q)) <= MqMaxMsg
    <3>1. Len(q) \in Nat /\ Len(Tail(q)) \in Nat
      <4> HIDE DEF q
      <4> QED BY <1>4, <1>5
    <3>2. Len(q) <= MqMaxMsg /\ MqMaxMsg \in Nat
      BY <1>2, <1>3, RegistryAssumption, Zenon
    <3> QED BY <3>1, <3>2, <1>5
  <2> QED BY <1>2, <1>3, <1>5, <1>6, <2>1, Zenon
<1>8. spc' = [s \in Threads |-> IF s = "registry" THEN l ELSE spc[s]]
  <2> HIDE DEF l
  <2> QED BY <1>1, <1>2, ExceptAt, Zenon DEF Go
<1>9. l \in {"register", "unregister"} /\ l \in Labels
        /\ l \notin Removing \cup Exiting \cup {"link", "none", "each", "next"}
        /\ "registry" \in Threads /\ "receive" \notin Registering \cup {"fgets", "none"}
        /\ l \notin {"open_shm", "append"}
  BY SMT DEF Labels, Registering, Removing, Exiting, Threads
<1>10. spc'["registry"] = l
  BY <1>8, <1>9, Zenon
<1>11. msg'.pid \in Clients
         /\ (l = "register" => msg'.cmd = "TINYFILE_CLIENT_REGISTER")
  <2>1. Head(q).pid \in Clients
    BY <1>5, Zenon DEF Entries
  <2>2. l = "register" => msg'.cmd = "TINYFILE_CLIENT_REGISTER"
    BY Zenon
  <2> QED BY <1>1, <2>1, <2>2, Zenon
<1>12. l = "register" => Head(q) = Entry(msg'.pid)
  <2>1. Head(q) = [cmd |-> Head(q).cmd, pid |-> Head(q).pid]
    BY <1>5, Zenon DEF Entries
  <2> QED BY <1>1, <1>11, <2>1, Zenon DEF Entry
<1> HIDE DEF l
<1>13. TInv'
  <2>1. ClientTypes' /\ HeapTypes' /\ FlagTypes'
    BY <1>1, Zenon DEF IInv, TInv, ClientTypes, HeapTypes, FlagTypes
  <2>2. QueueTypes'
    BY <1>1, <1>7, Zenon DEF IInv, TInv, QueueTypes
  <2>3. ThreadTypes'
    BY <1>1, <1>2, <1>8, <1>9, Zenon DEF IInv, TInv, ThreadTypes
  <2> QED BY <2>1, <2>2, <2>3, Zenon DEF TInv
<1>14. SInv'
  <2>1. LocalsInv'
    BY <1>1, <1>2, <1>8, <1>9, <1>10, <1>11, Zenon DEF IInv, SInv, LocalsInv
  <2>2. QueueInv'
    <3>1. \A g \in 1..Starts : g > started => g # started
      BY <1>3
    <3> QED BY <1>1, <1>6, <3>1, Zenon DEF IInv, SInv, QueueInv
  <2>3. NodeInv' /\ EntryInv'
    BY <1>1, <1>9, <1>10, Zenon DEF IInv, SInv, NodeInv, EntryInv
  <2>4. UpInv'
    <3>1. ~stopped => client_list'["registry"] = NULL
      BY <1>1, Zenon DEF IInv, SInv, UpInv
    <3>2. l # "link" /\ l \notin Removing /\ l # "remove" /\ l \notin Exiting
      BY <1>9, Zenon DEF Removing
    <3> QED BY <1>1, <1>9, <3>1, <3>2, UpMove, Zenon
  <2>5. DownInv'
    BY <1>1, <1>9, Zenon DEF IInv, SInv, DownInv
  <2> QED BY <2>1, <2>2, <2>3, <2>4, <2>5, Zenon DEF SInv
<1>15. CInv'
  <2> SUFFICES ASSUME NEW c \in Clients PROVE ClientInv(c)'
    BY Zenon DEF CInv
  <2>0. ClientInv(c)
    BY Zenon DEF IInv, CInv
  <2>1. (HasNames(c)' <=> HasNames(c)) /\ (NoNames(c)' <=> NoNames(c))
          /\ (Registered(c)' <=> Registered(c)) /\ cpc'[c] = cpc[c]
    BY <1>1, Zenon DEF HasNames, NoNames, Registered
  <2>2. Queued(c)' => Queued(c)
    BY <1>1, <1>5, <1>7, Zenon DEF Queued, Entry
  <2>3. QueuedOnce(c) => QueuedOnce(c)'
    BY <1>1, <1>5, <1>7, Zenon DEF QueuedOnce, Entry
  <2>4. CASE ~InProcess(c)'
    BY <2>0, <2>1, <2>2, <2>3, <2>4, ClientFrame, Zenon
  <2>5. CASE InProcess(c)'
    <3>1. l = "register" /\ msg'.pid = c
      BY <2>5, <1>9, <1>10, SMT DEF InProcess, Registering
    <3>2. Head(q) = Entry(c)
      BY <1>12, <3>1, Zenon
    <3>3. Queued(c)
      BY <1>2, <1>5, <3>2, Zenon DEF Queued
    <3>4. QueuedOnce(c) => ~Queued(c)'
      BY <1>1, <1>5, <1>7, <3>2, Zenon DEF Queued, QueuedOnce, Entry
    <3> QED BY <2>0, <2>1, <2>5, <3>3, <3>4, Zenon DEF ClientInv, Fresh
  <2> QED BY <2>4, <2>5, Zenon
<1> QED BY <1>13, <1>14, <1>15, Zenon DEF IInv

(* The registry thread opens a queue or the shared memory, or is in          *)
(* exit_server if the name is not there: which it is for the client it       *)
(* registers.                                                                *)
LEMMA OpenKept ==
  ASSUME IInv, NEW kind \in {"send", "recv", "shm"},
         NEW at \in {"open_recv", "open_send", "open_shm"},
         NEW next \in {"open_send", "open_shm", "append"},
         OpenName(kind, at, next), UNCHANGED <<client_vars, started>>,
         next = "open_shm" => kind = "send", next = "append" => at = "open_shm" /\ kind = "shm"
  PROVE  IInv'
<1> DEFINE l == IF <<kind, msg.pid>> \in names THEN next ELSE "exit_server"
<1>1. /\ spc["registry"] = at /\ Go("registry", l)
      /\ recv_q' = IF kind = "send" THEN visits[msg.pid] ELSE recv_q
      /\ UNCHANGED <<registry_queue, queue, up, clients, mem, allocated, STOP_REGISTRY, msg>>
      /\ UNCHANGED <<head, node, client_list, in_exit, uncounted, serving, reused, stopped>>
      /\ UNCHANGED client_vars /\ UNCHANGED <<cpc, visits, opened, names, started>>
  BY ClientsUnchanged, Zenon DEF OpenName, queue_vars, list_vars, history
<1>2. /\ at \in Registering /\ at \notin {"none", "fgets"} /\ next \in Labels
      /\ next \in Registering /\ next \notin Removing \cup Exiting
      /\ next \notin {"link", "unregister", "each", "next"}
      /\ "exit_server" \in Labels /\ "exit_server" \notin Removing \cup Registering
      /\ "exit_server" \notin {"link", "unregister", "each", "next"}
      /\ "registry" \in Threads /\ "remove" \in Removing
  BY SMT DEF Labels, Registering, Removing, Exiting, Threads
<1>3. msg.pid \in Clients
  BY <1>1, <1>2, Zenon DEF IInv, SInv, LocalsInv
<1>4. HasNames(msg.pid)
  BY <1>1, <1>2, <1>3, NamesThere, Zenon DEF IInv, TInv, CInv, InProcess
<1>5. <<kind, msg.pid>> \in names
  BY <1>4, NamesFacts, Zenon DEF HasNames
<1>6. l = next
  BY <1>5, Zenon
<1>7. HeapTypes' /\ NodeInv' /\ \A c \in Clients : Registered(c)' => Registered(c)
  BY <1>1, HeapUnchanged, Zenon
<1>8. visits[msg.pid] \in Nat /\ visits[msg.pid] <= visits[msg.pid]
  <2>1. visits[msg.pid] \in 0..Visits
    BY <1>3, Zenon DEF IInv, TInv, ClientTypes
  <2> QED BY <2>1, RegistryAssumption
<1>9. FlagTypes' /\ node \in [Threads -> Pointers] /\ client_list \in [Threads -> Pointers]
  BY <1>1, <1>8, Zenon DEF IInv, TInv, FlagTypes, ThreadTypes
<1>10. spc'["registry"] = next
  BY <1>1, <1>2, <1>6, ExceptAt, Zenon DEF Go, IInv, TInv, ThreadTypes
<1>11. EntryInv'
  <2>1. CASE kind = "send"
    BY <1>1, <1>8, <2>1, Zenon DEF EntryInv
  <2>2. CASE kind # "send"
    <3>1. next # "open_shm" /\ (next = "append" => at = "open_shm") /\ UNCHANGED recv_q
      BY <1>1, <2>2, Zenon
    <3> QED BY <1>1, <1>10, <3>1, Zenon DEF IInv, SInv, EntryInv
  <2> QED BY <2>1, <2>2, Zenon
<1>12. UpInv'
  <2>1. ~stopped => client_list'["registry"] = NULL
    BY <1>1, Zenon DEF IInv, SInv, UpInv
  <2>2. next # "link" /\ next \notin Removing /\ next # "remove" /\ next \notin Exiting
          /\ Go("registry", next) /\ spc["registry"] # "fgets"
    BY <1>1, <1>2, <1>6, Zenon
  <2> QED BY <1>1, <1>2, <2>1, <2>2, UpMove, Zenon
<1>13. /\ Go("registry", next) /\ spc["registry"] # "none" /\ next \notin Removing
       /\ next \notin {"each", "next"} /\ registry_queue' \in {registry_queue, NULL}
       /\ next \notin {"link", "unregister"} /\ spc["registry"] \in Registering
  BY <1>1, <1>2, <1>6, Zenon
<1> HIDE DEF l
<1> QED BY <1>1, <1>2, <1>7, <1>9, <1>11, <1>12, <1>13, MoveKept, Zenon

(* malloc: the node was not in use, so nothing else is known of it.          *)
LEMMA MallocKept ==
  ASSUME IInv, RegisterMalloc, UNCHANGED <<client_vars, started>> PROVE IInv'
<1>1. /\ spc["registry"] = "append" /\ Go("registry", "link") /\ head' = clients
      /\ UNCHANGED <<registry_queue, queue, up, clients, STOP_REGISTRY, msg, recv_q>>
      /\ UNCHANGED <<client_list, in_exit, uncounted, serving, stopped>>
      /\ UNCHANGED client_vars /\ UNCHANGED <<cpc, visits, opened, names, started>>
  BY ClientsUnchanged, Zenon DEF RegisterMalloc, queue_vars
<1>2. PICK n \in Nodes \ allocated :
        /\ mem' = [mem EXCEPT ![n].pid = msg.pid, ![n].recv_q = recv_q]
        /\ allocated' = allocated \cup {n}
        /\ node' = [node EXCEPT !["registry"] = n]
        /\ reused' = (reused \/ n \in Reached)
  BY Zenon DEF RegisterMalloc
<1>3. /\ "registry" \in Threads /\ "append" \in Registering /\ "append" \notin {"none", "fgets"}
      /\ "link" \in Labels /\ "link" \notin Registering \cup Removing \cup Exiting
      /\ "link" \notin {"unregister", "none", "each", "next", "open_shm", "append", "remove"}
  BY SMT DEF Threads, Registering, Labels, Removing, Exiting
<1>4. /\ spc \in [Threads -> Labels] /\ node \in [Threads -> Pointers] /\ mem \in Mem
      /\ recv_q \in Nat /\ msg.pid \in Clients /\ recv_q <= visits[msg.pid] /\ started # 0
  BY <1>1, <1>3, Zenon
     DEF IInv, TInv, ThreadTypes, HeapTypes, FlagTypes, SInv, LocalsInv, EntryInv
<1>5. spc' = [s \in Threads |-> IF s = "registry" THEN "link" ELSE spc[s]]
        /\ node' = [s \in Threads |-> IF s = "registry" THEN n ELSE node[s]]
  BY <1>1, <1>2, <1>4, ExceptAt, Zenon DEF Go
<1>6. /\ spc' \in [Threads -> Labels] /\ node' \in [Threads -> Pointers]
      /\ spc'["registry"] = "link" /\ node'["registry"] = n
      /\ \A s \in Threads \ {"registry"} : spc'[s] = spc[s] /\ node'[s] = node[s]
  BY <1>3, <1>4, <1>5, Zenon DEF Pointers
<1>7. /\ mem' \in Mem /\ mem'[n].pid = msg.pid /\ mem'[n].recv_q = recv_q
      /\ \A m \in Nodes \ {n} : mem'[m] = mem[m]
  <2> DEFINE m1 == [mem EXCEPT ![n].pid = msg.pid]
             m2 == [m1 EXCEPT ![n].recv_q = recv_q]
  <2>1. NewPid(m1, mem, n, msg.pid)
    BY <1>4, SetPid, Zenon
  <2>2. mem' = m2
    BY <1>2, Zenon
  <2> HIDE DEF m1
  <2>3. NewQueue(m2, m1, n, recv_q)
    BY <1>4, <2>1, SetQueue, Zenon DEF NewPid
  <2> HIDE DEF m2
  <2> QED BY <2>1, <2>2, <2>3, Zenon DEF NewPid, NewQueue
<1>8. mem[n].pid \notin Clients
  BY Zenon DEF IInv, SInv, NodeInv
<1>9. TInv'
  <2>1. ClientTypes' /\ QueueTypes' /\ ThreadTypes'
    BY <1>1, <1>6, Zenon DEF IInv, TInv, ClientTypes, QueueTypes, ThreadTypes
  <2>2. HeapTypes'
    BY <1>1, <1>2, <1>7, Zenon DEF IInv, TInv, HeapTypes
  <2>3. FlagTypes'
    BY <1>1, <1>2, Zenon DEF IInv, TInv, FlagTypes
  <2> QED BY <2>1, <2>2, <2>3, Zenon DEF TInv
<1>10. SInv'
  <2>1. LocalsInv'
    BY <1>1, <1>3, <1>4, <1>6, Zenon DEF IInv, SInv, LocalsInv
  <2>2. QueueInv' /\ EntryInv'
    BY <1>1, <1>3, <1>6, Zenon DEF IInv, SInv, QueueInv, EntryInv
  <2>3. NodeInv'
    BY <1>1, <1>2, <1>4, <1>7, Zenon DEF IInv, SInv, NodeInv
  <2>4. UpInv'
    <3>1. ~stopped => client_list'["registry"] = NULL
      BY <1>1, Zenon DEF IInv, SInv, UpInv
    <3>2. "link" \notin Exiting /\ "link" \notin Removing /\ "link" # "remove"
      BY <1>3, Zenon
    <3> QED BY <1>1, <1>3, <3>1, <3>2, UpMove, Zenon
  <2>5. DownInv'
    BY <1>1, <1>3, Zenon DEF IInv, SInv, DownInv
  <2> QED BY <2>1, <2>2, <2>3, <2>4, <2>5, Zenon DEF SInv
<1>11. CInv'
  <2> SUFFICES ASSUME NEW c \in Clients PROVE ClientInv(c)'
    BY Zenon DEF CInv
  <2>0. ClientInv(c)
    BY Zenon DEF IInv, CInv
  <2>1. (HasNames(c)' <=> HasNames(c)) /\ (NoNames(c)' <=> NoNames(c)) /\ cpc'[c] = cpc[c]
    BY <1>1, Zenon DEF HasNames, NoNames
  <2>2. (Queued(c)' <=> Queued(c)) /\ (QueuedOnce(c) <=> QueuedOnce(c)') /\ ~InProcess(c)'
    BY <1>1, <1>3, <1>6, Zenon DEF Queued, QueuedOnce, Entry, InProcess
  <2>3. CASE c = msg.pid
    <3>1. InProcess(c)
      BY <2>3, <1>1, <1>3, Zenon DEF InProcess
    <3> QED BY <2>0, <2>1, <2>2, <3>1, Zenon DEF ClientInv, Fresh
  <2>4. CASE c # msg.pid
    <3>1. Registered(c)' => Registered(c)
      BY <2>4, <1>1, <1>7, Zenon DEF Registered
    <3> QED BY <2>0, <2>1, <2>2, <3>1, ClientFrame, Zenon
  <2> QED BY <2>3, <2>4, Zenon
<1> QED BY <1>9, <1>10, <1>11, Zenon DEF IInv

(* Setting pointers does not change who is registered. *)
LEMMA LikeKept ==
  ASSUME IInv, Like(mem', mem), UNCHANGED client_vars, UNCHANGED allocated
  PROVE  NodeInv' /\ \A c \in Clients : Registered(c)' => Registered(c)
<1>1. UNCHANGED <<cpc, visits, opened, names>>
  BY ClientsUnchanged, Zenon
<1>2. \A n \in Nodes : mem'[n].pid = mem[n].pid /\ mem'[n].recv_q = mem[n].recv_q
  BY Zenon DEF Like, Same
<1>3. NodeInv'
  BY <1>1, <1>2, Zenon DEF IInv, SInv, NodeInv
<1>4. \A c \in Clients : Registered(c)' => Registered(c)
  BY <1>1, <1>2, Zenon DEF Registered
<1> QED BY <1>3, <1>4, Zenon

(* append_client: as long as nobody has asked the server to quit, clients is *)
(* what it was when append_client began.                                     *)
LEMMA LinkKept ==
  ASSUME IInv, RegisterLink, UNCHANGED <<client_vars, started>> PROVE IInv'
<1> DEFINE n == node["registry"]
<1>0. UNCHANGED client_vars /\ UNCHANGED started /\ spc["registry"] = "link"
  BY Zenon DEF RegisterLink
<1>1. PICK h2 \in {head, clients} :
        \/ head # NULL /\ h2 = NULL /\ Gone /\ UNCHANGED stopped
        \/ /\ mem' = append_client(n, head, h2)
           /\ clients' = IF head = NULL THEN n ELSE clients
           /\ serving' = serving \cup {n}
           /\ Go("registry", "receive")
           /\ UNCHANGED <<queue_vars, up, allocated, STOP_REGISTRY, locals, uncounted, reused,
                          stopped>>
  BY Zenon DEF RegisterLink
<1>2. CASE head # NULL /\ h2 = NULL /\ Gone /\ UNCHANGED stopped
  <2>1. stopped
    BY <1>0, <1>1, <1>2, Zenon DEF IInv, SInv, UpInv
  <2>2. stopped' = TRUE
    BY <1>2, <2>1, Zenon DEF IInv, TInv, FlagTypes
  <2> QED BY <1>0, <1>2, <2>2, GoneKept, Zenon
<1>3. CASE /\ mem' = append_client(n, head, h2)
           /\ clients' = IF head = NULL THEN n ELSE clients
           /\ serving' = serving \cup {n}
           /\ Go("registry", "receive")
           /\ UNCHANGED <<queue_vars, up, allocated, STOP_REGISTRY, locals, uncounted, reused,
                          stopped>>
  <2>1. /\ UNCHANGED <<registry_queue, queue, up, allocated, STOP_REGISTRY, uncounted, reused>>
        /\ UNCHANGED <<msg, recv_q, head, node, client_list, in_exit, stopped>>
    BY <1>3, Zenon DEF queue_vars, locals, entry
  <2>2. /\ n \in Nodes /\ mem \in Mem /\ head \in Pointers /\ clients \in Pointers
        /\ node \in [Threads -> Pointers] /\ client_list \in [Threads -> Pointers]
    BY <1>0, Zenon DEF IInv, TInv, HeapTypes, ThreadTypes, SInv, LocalsInv
  <2>3. Like(mem', mem)
    BY <1>3, <2>2, AppendLike, Zenon
  <2>4. NodeInv' /\ \A c \in Clients : Registered(c)' => Registered(c)
    BY <1>0, <2>1, <2>3, LikeKept, Zenon
  <2>5. HeapTypes'
    BY <1>3, <2>1, <2>2, <2>3, Zenon DEF IInv, TInv, HeapTypes, Like, Pointers
  <2>6. FlagTypes'
    BY <2>1, Zenon DEF IInv, TInv, FlagTypes
  <2>7. /\ "registry" \in Threads /\ "receive" \in Labels /\ "link" \notin {"none", "fgets"}
        /\ "receive" \notin Removing /\ "receive" \notin {"each", "next"}
        /\ "receive" \notin {"link", "unregister"} /\ "receive" \notin Registering
        /\ "receive" \notin Exiting /\ "receive" \notin {"remove", "open_shm", "append"}
    BY SMT DEF Threads, Labels, Removing, Registering, Exiting
  <2>8. spc'["registry"] = "receive"
    BY <1>3, <2>7, ExceptAt, Zenon DEF Go, IInv, TInv, ThreadTypes
  <2>9. EntryInv'
    BY <2>7, <2>8, Zenon DEF EntryInv
  <2>10. UpInv'
    <3>1. ~stopped => client_list'["registry"] = NULL
      BY <2>1, Zenon DEF IInv, SInv, UpInv
    <3> QED BY <1>0, <1>3, <2>1, <2>7, <3>1, UpMove, Zenon
  <2>11. registry_queue' \in {registry_queue, NULL}
    BY <2>1, Zenon
  <2> HIDE DEF n
  <2> QED BY <1>0, <1>3, <2>1, <2>2, <2>4, <2>5, <2>6, <2>7, <2>9, <2>10, <2>11, MoveKept, Zenon
<1> QED BY <1>1, <1>2, <1>3, Zenon

(* unregister_client, or exit_server, has looked for a pid. A node with the  *)
(* pid of a client is not freed.                                             *)
LEMMA UnregisterKept ==
  ASSUME IInv, NEW t \in Threads, NEW pid, NEW next \in {"receive", "next"},
         UnregisterFind(t, pid, next), UNCHANGED <<client_vars, started>>,
         spc[t] \in {"unregister", "each"}, next = "next" => client_list[t] \in Nodes,
         ~stopped => t = "registry" /\ pid \in Clients /\ next = "receive"
  PROVE  IInv'
<1> DEFINE n == find_client(pid)
           l == IF n = NULL THEN next ELSE "remove"
<1>1. /\ node' = [node EXCEPT ![t] = n] /\ Go(t, l)
      /\ UNCHANGED <<registry_queue, queue, up, clients, mem, allocated, STOP_REGISTRY, msg>>
      /\ UNCHANGED <<recv_q, head, client_list, in_exit, uncounted, serving, reused, stopped>>
      /\ UNCHANGED client_vars /\ UNCHANGED <<cpc, visits, opened, names, started>>
  BY ClientsUnchanged, Zenon DEF UnregisterFind, queue_vars, list_vars, entry
<1>2. n = NULL \/ (n \in Nodes /\ mem[n].pid = pid /\ clients # NULL)
  BY FindFacts, Zenon
<1>3. /\ l \in Labels /\ l \notin {"link", "unregister", "each", "none"} /\ l \notin Registering
      /\ l \notin {"open_shm", "append"} /\ (l \in Removing => l = "remove")
      /\ l # "receive" /\ l # "remove" => l = "next"
      /\ next = "receive" => l \notin Exiting
      /\ spc[t] # "none" /\ spc[t] # "fgets" /\ "registry" \in Threads
  <2>1. l \in {"receive", "next", "remove"} /\ (next = "receive" => l \in {"receive", "remove"})
    BY Zenon
  <2> HIDE DEF l
  <2> QED BY <2>1, SMT DEF Labels, Registering, Removing, Exiting, Threads
<1>4. (l = "remove" => n # NULL) /\ (l = "next" => next = "next")
  BY Zenon
<1> HIDE DEF l, n
<1>5. /\ spc \in [Threads -> Labels] /\ node \in [Threads -> Pointers]
      /\ client_list \in [Threads -> Pointers]
  BY Zenon DEF IInv, TInv, ThreadTypes
<1>6. node' = [s \in Threads |-> IF s = t THEN n ELSE node[s]]
        /\ spc' = [s \in Threads |-> IF s = t THEN l ELSE spc[s]]
  BY <1>1, <1>5, ExceptAt, Zenon DEF Go
<1>7. /\ node' \in [Threads -> Pointers] /\ node'[t] = n
      /\ \A s \in Threads \ {t} : node'[s] = node[s]
  BY <1>2, <1>5, <1>6, Zenon DEF Pointers
<1>8. HeapTypes' /\ NodeInv' /\ \A c \in Clients : Registered(c)' => Registered(c)
  BY <1>1, HeapUnchanged, Zenon
<1>9. FlagTypes'
  BY <1>1, Zenon DEF IInv, TInv, FlagTypes
<1>10. EntryInv'
  BY <1>1, <1>3, <1>6, Zenon DEF EntryInv, IInv, SInv
<1>11. UpInv'
  <2>1. ~stopped => client_list'["registry"] = NULL /\ l \notin Exiting
    BY <1>1, <1>3, Zenon DEF IInv, SInv, UpInv
  <2>2. ~stopped /\ l = "remove" => node'["registry"] \in allocated' /\ clients' # NULL
    BY <1>1, <1>2, <1>4, <1>7, Zenon DEF IInv, SInv, NodeInv
  <2>3. l # "link"
    BY <1>3, Zenon
  <2> QED BY <1>1, <1>3, <2>1, <2>2, <2>3, UpMove, Zenon
<1>12. /\ l \in Removing => node'[t] \in Nodes
       /\ l \in {"each", "next"} => client_list'[t] \in Nodes
       /\ l \notin {"link", "unregister"} /\ registry_queue' \in {registry_queue, NULL}
       /\ \A s \in Threads \ {t} : client_list'[s] = client_list[s]
       /\ client_list' \in [Threads -> Pointers]
  BY <1>1, <1>2, <1>3, <1>4, <1>5, <1>7, Zenon
<1> QED BY <1>1, <1>3, <1>7, <1>8, <1>9, <1>10, <1>11, <1>12, MoveKept, Zenon

(* remove_client: as long as nobody has asked the server to quit there is a  *)
(* list to remove the node from.                                             *)
LEMMA RemoveKept ==
  ASSUME IInv, NEW t \in Threads, Remove(t), UNCHANGED <<client_vars, started>> PROVE IInv'
<1> DEFINE n == node[t]
<1>0. UNCHANGED client_vars /\ UNCHANGED started /\ spc[t] = "remove"
  BY Zenon DEF Remove
<1>1. /\ "remove" \in Removing /\ "wait" \in Labels /\ "wait" \in Removing /\ "wait" \notin Exiting
      /\ "wait" \notin {"each", "next", "link", "unregister", "open_shm", "append", "remove"}
      /\ "wait" \notin Registering /\ "remove" \notin {"none", "fgets"} /\ "registry" \in Threads
      /\ "main" \in Threads /\ (t = "registry" \/ t = "main")
  BY SMT DEF Removing, Labels, Exiting, Registering, Threads
<1>2. ~stopped => t = "registry" /\ clients # NULL /\ n \in allocated
                    /\ client_list["registry"] = NULL
  <2>1. ~stopped => spc["main"] = "fgets"
    BY Zenon DEF IInv, SInv, UpInv
  <2>2. ~stopped => t = "registry"
    BY <1>0, <1>1, <2>1, Zenon
  <2>3. ~stopped => spc["registry"] = "remove" /\ n = node["registry"]
    BY <1>0, <2>2, Zenon
  <2>4. ~stopped => /\ spc["registry"] = "remove" => clients # NULL
                    /\ "remove" \in Removing => node["registry"] \in allocated
                    /\ client_list["registry"] = NULL
    BY <2>3, Zenon DEF IInv, SInv, UpInv
  <2> QED BY <1>1, <2>2, <2>3, <2>4, Zenon
<1>3. CASE NoHead(n)
  <2>1. Gone /\ UNCHANGED stopped
    BY <1>3, Zenon DEF Remove
  <2>2. stopped' = TRUE
    BY <1>2, <1>3, <2>1, Zenon DEF IInv, TInv, FlagTypes, NoHead
  <2> QED BY <1>0, <2>1, <2>2, GoneKept, Zenon
<1>4. CASE ~NoHead(n)
  <2>1. /\ clients' = remove_client(n).head /\ mem' = remove_client(n).mem
        /\ serving' = serving \ {n} /\ Go(t, "wait")
        /\ UNCHANGED <<registry_queue, queue, up, allocated, STOP_REGISTRY, uncounted, reused>>
        /\ UNCHANGED <<msg, recv_q, head, node, client_list, in_exit, stopped>>
    BY <1>4, Zenon DEF Remove, queue_vars, locals, entry
  <2>2. /\ n \in Nodes /\ mem \in Mem /\ clients \in Pointers
        /\ node \in [Threads -> Pointers] /\ client_list \in [Threads -> Pointers]
    BY <1>0, <1>1, Zenon DEF IInv, TInv, HeapTypes, ThreadTypes, SInv, LocalsInv
  <2>3. Like(mem', mem) /\ clients' \in Pointers
    BY <2>1, <2>2, RemoveLike, Zenon
  <2>4. NodeInv' /\ \A c \in Clients : Registered(c)' => Registered(c)
    BY <1>0, <2>1, <2>3, LikeKept, Zenon
  <2>5. HeapTypes'
    BY <2>1, <2>3, Zenon DEF IInv, TInv, HeapTypes, Like
  <2>6. FlagTypes'
    BY <2>1, Zenon DEF IInv, TInv, FlagTypes
  <2>7. spc' = [s \in Threads |-> IF s = t THEN "wait" ELSE spc[s]]
    BY <2>1, ExceptAt, Zenon DEF Go, IInv, TInv, ThreadTypes
  <2>8. EntryInv'
    <3>1. UNCHANGED <<cpc, visits, opened, names>>
      BY <1>0, ClientsUnchanged, Zenon
    <3>2. spc'["registry"] = "wait" \/ spc'["registry"] = spc["registry"]
      BY <1>1, <2>7, Zenon
    <3> QED BY <1>1, <2>1, <3>1, <3>2, Zenon DEF EntryInv, IInv, SInv
  <2>9. UpInv'
    BY <1>0, <1>1, <1>2, <2>1, UpMove, Zenon
  <2>10. registry_queue' \in {registry_queue, NULL} /\ node'[t] \in Nodes
    BY <2>1, <2>2, Zenon
  <2>11. "wait" \notin {"link", "unregister"} /\ "wait" \notin {"each", "next"} /\ spc[t] # "none"
    BY <1>0, <1>1, Zenon
  <2> HIDE DEF n
  <2> QED BY <1>0, <1>1, <2>1, <2>2, <2>4, <2>5, <2>6, <2>8, <2>9, <2>10, <2>11, MoveKept, Zenon
<1> QED BY <1>3, <1>4, Zenon

(* free: only a node that another thread has freed too is freed twice.       *)
LEMMA FreeKept ==
  ASSUME IInv, NEW t \in Threads, Free(t), UNCHANGED <<client_vars, started>> PROVE IInv'
<1> DEFINE n == node[t]
           l == IF client_list[t] = NULL THEN "receive" ELSE "next"
<1>0. UNCHANGED client_vars /\ UNCHANGED started /\ spc[t] = "free"
  BY Zenon DEF Free
<1>1. /\ "free" \in Removing /\ "free" \notin {"none", "fgets"} /\ "registry" \in Threads
      /\ "main" \in Threads /\ (t = "registry" \/ t = "main")
      /\ l \in Labels /\ l \notin Removing /\ l \notin {"link", "unregister"}
      /\ l \notin Registering /\ l \notin {"open_shm", "append"} /\ l # "remove"
      /\ (l = "next" => client_list[t] # NULL) /\ (client_list[t] = NULL => l \notin Exiting)
      /\ l \in {"each", "next"} => l = "next"
  <2>1. l \in {"receive", "next"} /\ (l = "next" => client_list[t] # NULL)
          /\ (client_list[t] = NULL => l = "receive")
    BY Zenon
  <2> HIDE DEF l
  <2> QED BY <2>1, SMT DEF Removing, Labels, Exiting, Registering, Threads
<1>2. ~stopped => t = "registry" /\ n \in allocated /\ client_list["registry"] = NULL
  <2>1. ~stopped => spc["main"] = "fgets"
    BY Zenon DEF IInv, SInv, UpInv
  <2>2. ~stopped => t = "registry"
    BY <1>0, <1>1, <2>1, Zenon
  <2> QED BY <1>0, <1>1, <2>2, Zenon DEF IInv, SInv, UpInv
<1>3. CASE n \notin allocated
  <2>1. Gone /\ UNCHANGED stopped
    BY <1>3, Zenon DEF Free
  <2>2. stopped' = TRUE
    BY <1>2, <1>3, <2>1, Zenon DEF IInv, TInv, FlagTypes
  <2> QED BY <1>0, <2>1, <2>2, GoneKept, Zenon
<1>4. CASE n \in allocated
  <2>1. /\ allocated' = allocated \ {n} /\ mem' = [mem EXCEPT ![n].pid = FreedPid] /\ Go(t, l)
        /\ UNCHANGED <<registry_queue, queue, up, clients, STOP_REGISTRY, uncounted, reused>>
        /\ UNCHANGED <<msg, recv_q, head, node, client_list, in_exit, serving, stopped>>
    BY <1>4, Zenon DEF Free, queue_vars, locals, entry, history
  <2>2. /\ n \in Nodes /\ mem \in Mem
        /\ node \in [Threads -> Pointers] /\ client_list \in [Threads -> Pointers]
    BY <1>0, <1>1, Zenon DEF IInv, TInv, HeapTypes, ThreadTypes, SInv, LocalsInv
  <2>3. NewPid(mem', mem, n, FreedPid)
    <3> HIDE DEF n
    <3> QED BY <2>1, <2>2, SetPid, Zenon
  <2> HIDE DEF l, n
  <2>4. /\ mem' \in Mem /\ mem'[n].pid \notin Clients
        /\ \A m \in Nodes \ {n} : mem'[m] = mem[m]
    BY <2>3, RegistryAssumption, Zenon DEF NewPid, FreedPid
  <2>5. UNCHANGED <<cpc, visits, opened, names>>
    BY <1>0, ClientsUnchanged, Zenon
  <2>6. NodeInv' /\ \A c \in Clients : Registered(c)' => Registered(c)
    BY <2>1, <2>4, <2>5, Zenon DEF IInv, SInv, NodeInv, Registered
  <2>7. HeapTypes'
    BY <2>1, <2>4, Zenon DEF IInv, TInv, HeapTypes
  <2>8. FlagTypes'
    BY <2>1, Zenon DEF IInv, TInv, FlagTypes
  <2>9. spc' = [s \in Threads |-> IF s = t THEN l ELSE spc[s]]
    BY <2>1, ExceptAt, Zenon DEF Go, IInv, TInv, ThreadTypes
  <2>10. EntryInv'
    <3>1. spc'["registry"] = l \/ spc'["registry"] = spc["registry"]
      BY <1>1, <2>9, Zenon
    <3> QED BY <1>1, <2>1, <2>5, <3>1, Zenon DEF EntryInv, IInv, SInv
  <2>11. UpInv'
    <3>1. ~stopped => l \notin Exiting /\ client_list'["registry"] = NULL
      BY <1>1, <1>2, <2>1, Zenon
    <3>2. l # "link" /\ spc[t] # "fgets"
      BY <1>0, <1>1, Zenon
    <3> QED BY <1>1, <2>1, <3>1, <3>2, UpMove, Zenon
  <2>12. /\ registry_queue' \in {registry_queue, NULL} /\ spc[t] # "none"
         /\ l \in {"each", "next"} => client_list'[t] \in Nodes
    BY <1>0, <1>1, <2>1, <2>2, Zenon DEF Pointers
  <2> QED BY <1>0, <1>1, <2>1, <2>2, <2>6, <2>7, <2>8, <2>10, <2>11, <2>12, MoveKept, Zenon
<1> QED BY <1>3, <1>4, Zenon

(* exit_server: somebody has asked the server to quit. *)
LEMMA InExit ==
  ASSUME IInv, NEW t \in Threads, spc[t] \in Exiting
  PROVE  stopped = TRUE
<1>1. t = "registry" \/ t = "main"
  BY Zenon DEF Threads
<1>2. "fgets" \notin Exiting
  BY SMT DEF Exiting
<1>3. stopped
  BY <1>1, <1>2, Zenon DEF IInv, SInv, UpInv
<1> QED BY <1>3, Zenon DEF IInv, TInv, FlagTypes

(* A step of exit_server that ends no thread. *)
LEMMA ExitKept ==
  ASSUME IInv, NEW t \in Threads, NEW l \in {"exit_server", "close", "each", "join"}, Go(t, l),
         spc[t] \in Exiting \cup {"fgets"}, stopped' = TRUE,
         UNCHANGED client_vars, UNCHANGED started,
         UNCHANGED <<queue, up, clients, mem, allocated, uncounted, serving, reused>>,
         UNCHANGED <<msg, recv_q, head, node>>,
         registry_queue' \in {registry_queue, NULL},
         STOP_REGISTRY' \in BOOLEAN, in_exit' \in BOOLEAN,
         client_list' \in [Threads -> Pointers],
         \A s \in Threads \ {t} : client_list'[s] = client_list[s],
         l = "each" => client_list'[t] \in Nodes
  PROVE  IInv'
<1>1. /\ l \in Labels /\ l \notin Removing /\ l \notin {"link", "unregister"}
      /\ l \notin Registering /\ l \notin {"open_shm", "append"}
      /\ l \in {"each", "next"} => l = "each"
      /\ "none" \notin Exiting /\ "none" # "fgets"
  BY SMT DEF Labels, Removing, Registering, Exiting
<1>2. HeapTypes' /\ NodeInv' /\ \A c \in Clients : Registered(c)' => Registered(c)
  BY HeapUnchanged, Zenon
<1>3. FlagTypes' /\ node' \in [Threads -> Pointers]
  BY Zenon DEF IInv, TInv, FlagTypes, ThreadTypes
<1>4. spc' = [s \in Threads |-> IF s = t THEN l ELSE spc[s]]
  BY ExceptAt, Zenon DEF Go, IInv, TInv, ThreadTypes
<1>5. EntryInv'
  <2>1. "registry" \in Threads
    BY Zenon DEF Threads
  <2>2. spc'["registry"] = l \/ spc'["registry"] = spc["registry"]
    BY <1>4, <2>1, Zenon
  <2>3. UNCHANGED <<cpc, visits, opened, names>>
    BY ClientsUnchanged, Zenon
  <2> QED BY <1>1, <2>2, <2>3, Zenon DEF IInv, SInv, EntryInv
<1>6. UpInv'
  BY Zenon DEF UpInv
<1>7. \A s \in Threads \ {t} : node'[s] = node[s]
  BY Zenon
<1>8. (l \in {"each", "next"} => client_list'[t] \in Nodes) /\ spc[t] # "none"
  BY <1>1, Zenon
<1> QED BY <1>1, <1>2, <1>3, <1>5, <1>6, <1>7, <1>8, MoveKept, Zenon

LEMMA PressKept == ASSUME IInv, PressQ PROVE IInv'
<1>1. /\ spc["main"] = "fgets" /\ Go("main", "exit_server") /\ stopped' = TRUE
      /\ UNCHANGED client_vars /\ UNCHANGED started
      /\ UNCHANGED <<queue, up, clients, mem, allocated, uncounted, serving, reused>>
      /\ UNCHANGED <<msg, recv_q, head, node, client_list>>
      /\ UNCHANGED <<registry_queue, STOP_REGISTRY, in_exit>>
  BY Zenon DEF PressQ, queue_vars, list_vars, locals, entry
<1>2. "main" \in Threads
  BY Zenon DEF Threads
<1>3. client_list \in [Threads -> Pointers] /\ STOP_REGISTRY \in BOOLEAN /\ in_exit \in BOOLEAN
  BY Zenon DEF IInv, TInv, ThreadTypes, FlagTypes
<1> QED BY <1>1, <1>2, <1>3, ExitKept, Zenon

LEMMA LoopKept ==
  ASSUME IInv, NEW t \in Threads, NEW list \in Pointers, spc[t] \in Exiting, ExitLoop(t, list),
         UNCHANGED <<client_vars, started>>
  PROVE  IInv'
<1>1. /\ client_list' = [client_list EXCEPT ![t] = list]
      /\ UNCHANGED client_vars /\ UNCHANGED started
      /\ UNCHANGED <<queue, up, clients, mem, allocated, uncounted, serving, reused>>
      /\ UNCHANGED <<msg, recv_q, head, node, stopped>>
      /\ UNCHANGED <<registry_queue, STOP_REGISTRY, in_exit>>
  BY Zenon DEF ExitLoop, queue_vars, list_vars, entry, history
<1>2. PICK l \in {"exit_server", "close", "each", "join"} :
        Go(t, l) /\ (l = "each" => list # NULL)
  BY Zenon DEF ExitLoop
<1>3. client_list \in [Threads -> Pointers] /\ STOP_REGISTRY \in BOOLEAN /\ in_exit \in BOOLEAN
  BY Zenon DEF IInv, TInv, ThreadTypes, FlagTypes
<1>4. client_list' = [s \in Threads |-> IF s = t THEN list ELSE client_list[s]]
  BY <1>1, <1>3, ExceptAt, Zenon
<1>5. /\ client_list' \in [Threads -> Pointers] /\ client_list'[t] = list
      /\ \A s \in Threads \ {t} : client_list'[s] = client_list[s]
  BY <1>3, <1>4, Zenon
<1>6. l = "each" => client_list'[t] \in Nodes
  BY <1>2, <1>5, Zenon DEF Pointers
<1>7. stopped' = TRUE
  BY <1>1, InExit, Zenon
<1> QED BY <1>1, <1>2, <1>3, <1>5, <1>6, <1>7, ExitKept, Zenon

LEMMA CloseKept ==
  ASSUME IInv, NEW t \in Threads, CloseRegistry(t), UNCHANGED <<client_vars, started>> PROVE IInv'
<1>1. /\ spc[t] = "close" /\ Go(t, "join") /\ registry_queue' = NULL /\ STOP_REGISTRY' = TRUE
      /\ UNCHANGED client_vars /\ UNCHANGED started
      /\ UNCHANGED <<queue, up, clients, mem, allocated, uncounted, serving, reused>>
      /\ UNCHANGED <<msg, recv_q, head, node, client_list, in_exit, stopped>>
  BY Zenon DEF CloseRegistry, list_vars, locals, entry, history
<1>2. "close" \in Exiting
  BY Zenon DEF Exiting
<1>3. client_list \in [Threads -> Pointers] /\ in_exit \in BOOLEAN
  BY Zenon DEF IInv, TInv, ThreadTypes, FlagTypes
<1>4. stopped' = TRUE
  BY <1>1, <1>2, InExit, Zenon
<1> QED BY <1>1, <1>2, <1>3, <1>4, ExitKept, Zenon

LEMMA JoinKept ==
  ASSUME IInv, NEW t \in Threads, Join(t), UNCHANGED <<client_vars, started>> PROVE IInv'
<1>1. spc[t] = "join" /\ UNCHANGED client_vars /\ UNCHANGED started /\ spc[t] \in Exiting
  BY Zenon DEF Join, Exiting
<1>2. stopped = TRUE
  BY <1>1, InExit, Zenon
<1>3. CASE Gone /\ UNCHANGED stopped
  BY <1>1, <1>2, <1>3, GoneKept, Zenon
<1>4. CASE ~(Gone /\ UNCHANGED stopped)
  <2>1. /\ in_exit' = TRUE /\ Go(t, "exit_server")
        /\ UNCHANGED <<queue, up, clients, mem, allocated, uncounted, serving, reused>>
        /\ UNCHANGED <<msg, recv_q, head, node, client_list, stopped>>
        /\ UNCHANGED <<registry_queue, STOP_REGISTRY>>
    BY <1>4, Zenon DEF Join, queue_vars, list_vars, entry, history
  <2>2. client_list \in [Threads -> Pointers] /\ STOP_REGISTRY \in BOOLEAN
    BY Zenon DEF IInv, TInv, ThreadTypes, FlagTypes
  <2> QED BY <1>1, <1>2, <2>1, <2>2, ExitKept, Zenon
<1> QED BY <1>3, <1>4, Zenon

-----------------------------------------------------------------------------
LEMMA InitInv == Init => IInv
<1> SUFFICES ASSUME Init PROVE IInv
  OBVIOUS
<1>1. /\ cpc = [c \in Clients |-> "out"] /\ visits = [c \in Clients |-> 0]
      /\ opened = [c \in Clients |-> NULL] /\ names = {}
      /\ registry_queue = NULL /\ queue = [g \in 1..Starts |-> << >>]
      /\ started = 0 /\ up = FALSE /\ clients = NULL /\ allocated = {}
      /\ mem = [n \in Nodes |-> Unused] /\ STOP_REGISTRY = FALSE
      /\ spc = [t \in Threads |-> "none"] /\ recv_q = 0 /\ head = NULL
      /\ node = [t \in Threads |-> NULL] /\ client_list = [t \in Threads |-> NULL]
      /\ in_exit = FALSE /\ uncounted = {} /\ serving = {} /\ reused = FALSE /\ stopped = TRUE
  BY Zenon DEF Init
<1>2. /\ 0 \in 0..Visits /\ 0 \in 0..Starts /\ 0 \in Nat /\ << >> \in Seq(Entries)
      /\ Len(<< >>) <= MqMaxMsg
  BY RegistryAssumption
<1>3. NULL \in Pointers /\ "none" \in Labels /\ Unused \in Record
  BY SMT DEF Pointers, Labels, Unused, Record
<1>4. \A t \in Threads : spc[t] = "none" /\ client_list[t] = NULL
  BY <1>1, Zenon
<1>5. "registry" \in Threads /\ "none" \notin Registering \cup Removing \cup {"each", "next"}
  BY SMT DEF Threads, Registering, Removing
<1>6. \A n \in Nodes : mem[n].pid \notin Clients
  BY <1>1, RegistryAssumption, Zenon DEF Unused, FreedPid
<1>7. TInv
  <2>1. ClientTypes
    BY <1>1, <1>2, Zenon DEF ClientTypes
  <2>2. QueueTypes /\ ThreadTypes
    BY <1>1, <1>2, <1>3, Zenon DEF QueueTypes, ThreadTypes
  <2>3. HeapTypes /\ FlagTypes
    BY <1>1, <1>2, <1>3, Zenon DEF HeapTypes, FlagTypes, Mem
  <2> QED BY <2>1, <2>2, <2>3, Zenon DEF TInv
<1>8. SInv
  <2>1. LocalsInv /\ EntryInv
    BY <1>4, <1>5, Zenon DEF LocalsInv, EntryInv, Registering
  <2>2. QueueInv
    BY <1>1, Zenon DEF QueueInv
  <2>3. NodeInv /\ UpInv /\ DownInv
    BY <1>1, <1>4, <1>6, Zenon DEF NodeInv, UpInv, DownInv
  <2> QED BY <2>1, <2>2, <2>3, Zenon DEF SInv
<1>9. CInv
  <2> SUFFICES ASSUME NEW c \in Clients PROVE ClientInv(c)
    BY Zenon DEF CInv
  <2>1. cpc[c] = "out" /\ NoNames(c) /\ Fresh(c)
    BY <1>1, <1>4, <1>5, Zenon DEF NoNames, Fresh, Queued, InProcess
  <2> QED BY <2>1, Zenon DEF ClientInv
<1> QED BY <1>7, <1>8, <1>9, Zenon DEF IInv

LEMMA ThreadKept ==
  ASSUME IInv, NEW t \in Threads, ThreadStep(t) PROVE IInv'
<1>0. UNCHANGED <<client_vars, started>> /\ clients \in Pointers /\ mem \in Mem
  BY Zenon DEF ThreadStep, IInv, TInv, HeapTypes
<1>1. /\ "exit_server" \in Exiting /\ "each" \in Exiting /\ "next" \in Exiting
      /\ "each" \in {"unregister", "each"} /\ "next" \in {"receive", "next"}
  BY Zenon DEF Exiting
<1>2. CASE ExitServer(t)
  BY <1>0, <1>1, <1>2, LoopKept, Zenon DEF ExitServer
<1>3. CASE ExitEach(t)
  <2>1. spc[t] = "each" /\ UnregisterFind(t, mem[client_list[t]].pid, "next")
    BY <1>3, Zenon DEF ExitEach
  <2>2. client_list[t] \in Nodes
    BY <2>1, Zenon DEF IInv, SInv, LocalsInv
  <2>3. stopped
    BY <1>1, <2>1, InExit, Zenon
  <2> QED BY <1>0, <1>1, <2>1, <2>2, <2>3, UnregisterKept, Zenon
<1>4. CASE ExitNext(t)
  <2>1. spc[t] = "next" /\ ExitLoop(t, mem[client_list[t]].next)
    BY <1>4, Zenon DEF ExitNext
  <2>2. client_list[t] \in Nodes
    BY <2>1, Zenon DEF IInv, SInv, LocalsInv
  <2>3. mem[client_list[t]].next \in Pointers
    BY <1>0, <2>2, PointersOf, Zenon
  <2> QED BY <1>0, <1>1, <2>1, <2>3, LoopKept, Zenon
<1> QED BY <1>0, <1>2, <1>3, <1>4, RemoveKept, AwaitKept, FreeKept, CloseKept, JoinKept, Zenon
        DEF ThreadStep

LEMMA RegistryKept == ASSUME IInv, RegistryStep PROVE IInv'
<1>0. UNCHANGED <<client_vars, started>>
  BY Zenon DEF RegistryStep
<1>1. CASE OpenNames
  BY <1>0, <1>1, OpenKept, Zenon DEF OpenNames
<1>2. CASE Unregister
  <2>1. spc["registry"] = "unregister" /\ UnregisterFind("registry", msg.pid, "receive")
    BY <1>2, Zenon DEF Unregister
  <2>2. msg.pid \in Clients
    BY <2>1, Zenon DEF IInv, SInv, LocalsInv
  <2>3. "registry" \in Threads
    BY Zenon DEF Threads
  <2> QED BY <1>0, <2>1, <2>2, <2>3, UnregisterKept, Zenon
<1> QED BY <1>0, <1>1, <1>2, ReceiveKept, StopKept, FindKept, MallocKept, LinkKept, Zenon
        DEF RegistryStep

LEMMA StutterKept == ASSUME IInv, UNCHANGED vars PROVE IInv'
<1>1. /\ UNCHANGED <<cpc, visits, opened, names, registry_queue, queue, uncounted>>
      /\ UNCHANGED <<started, up, clients, mem, allocated, STOP_REGISTRY, spc, msg, recv_q>>
      /\ UNCHANGED <<head, node, client_list, in_exit, serving, reused, stopped>>
      /\ UNCHANGED client_vars
  BY ServerUnchanged, ClientsUnchanged, Zenon DEF vars, queue_vars
<1>2. TInv'
  BY <1>1, Zenon DEF IInv, TInv, ClientTypes, QueueTypes, HeapTypes, ThreadTypes, FlagTypes
<1>3. SInv'
  BY <1>1, Zenon DEF IInv, SInv, LocalsInv, QueueInv, NodeInv, EntryInv, UpInv, DownInv
<1>4. \A c \in Clients : (InProcess(c)' => InProcess(c)) /\ (Registered(c)' => Registered(c))
  BY <1>1, Zenon DEF InProcess, Registered
<1>5. CInv'
  BY <1>1, <1>4, ClientsKept, Zenon DEF IInv
<1> QED BY <1>2, <1>3, <1>5, Zenon DEF IInv

(* The invariant holds as long as every client waits for the result of its   *)
(* call before it exits.                                                     *)
LEMMA RegistryInvariant == ASSUME Patient PROVE Spec => []IInv
<1>1. IInv /\ [Next]_vars => IInv'
  <2> SUFFICES ASSUME IInv, [Next]_vars PROVE IInv'
    OBVIOUS
  <2>1. ASSUME NEW c \in Clients, ClientStep(c) PROVE IInv'
    <3>1. TInv' /\ SInv'
      BY <2>1, ClientServerKept, Zenon DEF IInv
    <3>2. \A d \in Clients \ {c} : ClientInv(d)'
      BY <2>1, OthersKept, Zenon DEF IInv, CInv, SInv
    <3>3. ClientInv(c)'
      BY <2>1, OwnKept, Zenon DEF IInv, CInv, SInv
    <3> QED BY <3>1, <3>2, <3>3, Zenon DEF IInv, CInv
  <2>2. CASE UNCHANGED vars
    BY <2>2, StutterKept, Zenon
  <2>3. CASE Idle
    BY <2>3, StutterKept, Zenon DEF Idle
  <2> QED BY <2>1, <2>2, <2>3, CountKept, StartKept, KillKept, PressKept, RegistryKept, ThreadKept,
             Zenon DEF Next
<1> QED BY <1>1, InitInv, PTL DEF Spec

(* For every number of clients, of nodes and of visits, and every length of  *)
(* the registry queue: a server that nobody asks to quit or kills stays up.  *)
(* The registry thread finds the queues and the shared memory of every       *)
(* client whose registration it handles, so register_client never takes one  *)
(* of its exits, and unregister_client frees no node twice, even if clients  *)
(* end without tinyfile_exit and processes with the same pid come again.     *)
THEOREM StaysUp == ASSUME Patient PROVE Spec => []QuitsOnlyOnQ
<1>1. IInv => QuitsOnlyOnQ
  BY Zenon DEF IInv, SInv, UpInv, QuitsOnlyOnQ
<1> QED BY <1>1, RegistryInvariant, PTL

(* The variables of the clients, of the registry queue and of the server's   *)
(* list keep their types, and the queue its bound, whatever the two threads  *)
(* of the server do to the list.                                             *)
THEOREM RegistryTypes == ASSUME Patient PROVE Spec => []TypeOK
<1>1. IInv => TypeOK
  <2> SUFFICES ASSUME IInv PROVE TypeOK
    OBVIOUS
  <2>1. mem \in Mem
    BY Zenon DEF IInv, TInv, HeapTypes
  <2>2. \A n \in Nodes : /\ mem[n].pid \in Clients \cup {FreedPid}
                         /\ {mem[n].prev, mem[n].next, mem[n].tail} \subseteq Nodes \cup {NULL}
    <3> TAKE n \in Nodes
    <3>1. mem[n] \in Record
      BY <2>1, Zenon DEF Mem
    <3> QED BY <3>1, Zenon DEF Record, Pointers
  <2>3. ClientTypes /\ QueueTypes /\ HeapTypes /\ ThreadTypes /\ FlagTypes
    BY Zenon DEF IInv, TInv
  <2> QED BY <2>2, <2>3, Zenon
          DEF TypeOK, ClientTypes, QueueTypes, HeapTypes, ThreadTypes, FlagTypes, Pointers
<1> QED BY <1>1, RegistryInvariant, PTL
=============================================================================
