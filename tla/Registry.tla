------------------------------ MODULE Registry ------------------------------
(* How clients come and go: tinyfile_init and tinyfile_exit of several       *)
(* processes (src/api/api.c), the registry thread and the main thread of the *)
(* server and the list of clients they share without a lock                  *)
(* (src/server/server.c).                                                    *)
(*                                                                           *)
(* What happens between init and exit is one call per visit: its result has  *)
(* reached the client before the worker counts it (num_requests_completed).  *)
(* The other calls, the resizing and the queues are in module Tinyfile.      *)
(*                                                                           *)
(* A node of the list is a chunk of the heap: free leaves its pointers and   *)
(* overwrites its pid, until malloc hands the chunk out again.               *)
(*                                                                           *)
(* An operator X_y is X with the plausible mistake y; no action uses it.     *)
EXTENDS Integers, Sequences, FiniteSets

CONSTANTS
  Clients,    \* process ids of clients
  Nodes,      \* chunks that malloc(sizeof(client_list_t)) may return
  MqMaxMsg,   \* attr.mq_maxmsg of the registry queue
  Visits,     \* how often a client may call tinyfile_init
  Starts,     \* how often the server may be started
  MayQuit,    \* whether somebody may press q, in the last server
  MayDie,     \* clients that may end without tinyfile_exit
  Patient,    \* whether clients wait for the result of a call before they exit
  NULL

ASSUME RegistryAssumption ==
  /\ NULL \notin Nodes \cup Clients /\ 0 \notin Clients /\ IsFiniteSet(Nodes)
  /\ MqMaxMsg \in Nat \ {0} /\ Visits \in Nat /\ Starts \in Nat
  /\ MayQuit \in BOOLEAN /\ Patient \in BOOLEAN /\ MayDie \subseteq Clients

VARIABLES
  \* --- clients ---
  cpc, visits,
  opened,         \* the registry queue that global_registry of c refers to
  names,          \* the queues and shared memory objects that have a name
  \* --- registry queues, numbered by the server's starts ---
  registry_queue, \* the one that TINYFILE_REGISTRY_QUEUE names, or NULL
  queue,          \* queue[g]: the messages in it
  \* --- the server ---
  started, up,
  clients, mem, allocated,  \* the list's head, the nodes, the ones not freed
  STOP_REGISTRY,
  spc,            \* where the threads "registry" and "main" are
  msg,            \* registry_entry of the registry thread
  node,           \* local node of each thread in (un)register_client
  head,           \* clients as append_client has read it
  client_list,    \* local of each thread in exit_server
  in_exit,        \* main has returned, so that atexit's functions run
  recv_q,         \* client.recv_q in register_client: the visit whose queue it is
  uncounted,      \* nodes with a worker that has answered a call and not counted it
  \* --- history ---
  serving,        \* nodes whose workers receive requests
  reused,         \* malloc has returned a chunk that the list still reaches
  stopped         \* the server was asked to quit, or killed

client_vars == <<cpc, visits, opened, names>>
queue_vars == <<registry_queue, queue>>
list_vars == <<clients, mem, allocated>>
entry == <<msg, recv_q, head>>
locals == <<entry, node, client_list, in_exit>>
history == <<serving, reused, stopped>>
server_vars == <<started, up, list_vars, STOP_REGISTRY, spc, locals, history>>
vars == <<client_vars, queue_vars, server_vars, uncounted>>

Threads == {"registry", "main"}
Names(c) == {"send", "recv", "shm"} \X {c}
FreedPid == 0     \* what malloc's bookkeeping leaves in the pid field
NoMsg == [cmd |-> "none", pid |-> FreedPid]

(* A client_list_t; recv_q is the visit whose send queue the server opened. *)
Unused == [pid |-> FreedPid, recv_q |-> 0, prev |-> NULL, next |-> NULL, tail |-> NULL]

Init ==
  /\ cpc = [c \in Clients |-> "out"] /\ visits = [c \in Clients |-> 0]
  /\ opened = [c \in Clients |-> NULL] /\ names = {}
  /\ registry_queue = NULL /\ queue = [g \in 1..Starts |-> << >>]
  /\ started = 0 /\ up = FALSE
  /\ clients = NULL /\ allocated = {}
  /\ mem = [n \in Nodes |-> Unused]
  /\ STOP_REGISTRY = FALSE
  /\ spc = [t \in Threads |-> "none"]
  /\ msg = NoMsg /\ recv_q = 0 /\ head = NULL
  /\ node = [t \in Threads |-> NULL] /\ client_list = [t \in Threads |-> NULL]
  /\ in_exit = FALSE /\ uncounted = {}
  /\ serving = {} /\ reused = FALSE /\ stopped = TRUE

-----------------------------------------------------------------------------
(* The list. *)

(* The nodes that k steps along next lead to from n. *)
Along(m, n, k) ==
  LET walk[i \in 0..k] == IF i = 0 THEN n
                          ELSE IF walk[i - 1] = NULL THEN NULL ELSE m[walk[i - 1]].next
  IN  walk[k]

Reached == {Along(mem, clients, k) : k \in 0..Cardinality(Nodes)} \ {NULL}

(* The first node of the list with this pid; no step of the loop if there is *)
(* no list.                                                                  *)
find_client_any(pid) == clients
find_client(pid) ==
  LET hits == {k \in 0..Cardinality(Nodes) :
                 LET n == Along(mem, clients, k) IN n \in Nodes /\ mem[n].pid = pid}
  IN  IF clients = NULL \/ hits = {} THEN NULL
      ELSE Along(mem, clients, CHOOSE k \in hits : \A j \in hits : k <= j)

(* mem after append_client(n), which has read clients as h1 and writes the  *)
(* tail of h2, another read of clients.                                     *)
append_client(n, h1, h2) ==
  IF h1 = NULL
  THEN [mem EXCEPT ![n].next = NULL, ![n].prev = NULL, ![n].tail = n]
  ELSE LET tail == mem[h1].tail
           m1 == [mem EXCEPT ![n].prev = tail, ![n].next = NULL, ![n].tail = n]
           m2 == [m1 EXCEPT ![tail].next = n]
       IN  [m2 EXCEPT ![h2].tail = n]

(* The head and mem after remove_client(n). The head stays, even if it is n. *)
Unlinked(m, n) ==
  LET m1 == IF m[n].prev = NULL THEN m ELSE [m EXCEPT ![m[n].prev].next = m[n].next]
  IN  IF m1[n].next = NULL THEN m1 ELSE [m1 EXCEPT ![m1[n].next].prev = m1[n].prev]
remove_client_tail(n) ==
  IF mem[n].prev = NULL /\ mem[n].next = NULL
  THEN [head |-> NULL, mem |-> mem]
  ELSE [head |-> clients, mem |-> Unlinked(mem, n)]
remove_client(n) ==
  IF mem[n].prev = NULL /\ mem[n].next = NULL
  THEN [head |-> NULL, mem |-> mem]
  ELSE [head |-> clients,
        mem  |-> IF mem[n].next # NULL THEN Unlinked(mem, n)
                 ELSE [Unlinked(mem, n) EXCEPT ![clients].tail = mem[n].prev]]

(* The other thread has removed all the rest, and clients->tail is a fault.  *)
NoHead(n) == clients = NULL /\ mem[n].prev # NULL /\ mem[n].next = NULL

-----------------------------------------------------------------------------
(* A client's tinyfile_init and tinyfile_exit. *)

At(c, l) == cpc' = [cpc EXCEPT ![c] = l]

(* mq_open(TINYFILE_REGISTRY_QUEUE) *)
OpenRegistry(c) ==
  /\ cpc[c] = "out" /\ visits[c] < Visits
  /\ visits' = [visits EXCEPT ![c] = @ + 1]
  /\ IF registry_queue = NULL
     THEN UNCHANGED <<cpc, opened>>        \* TINYFILE_INIT_ERROR
     ELSE At(c, "create") /\ opened' = [opened EXCEPT ![c] = registry_queue]
  /\ UNCHANGED <<names, queue, uncounted>>

(* create_queues and create_shm; O_EXCL refuses a name that a process with   *)
(* the same pid has left behind.                                             *)
CreateNames_noshm(c) ==
  /\ cpc[c] = "create"
  /\ IF Names(c) \cap names = {}
     THEN At(c, "register") /\ names' = names \cup (Names(c) \ {<<"shm", c>>})
     ELSE At(c, "out") /\ UNCHANGED names
  /\ UNCHANGED <<visits, opened, queue, uncounted>>
CreateNames(c) ==
  /\ cpc[c] = "create"
  /\ IF Names(c) \cap names = {}
     THEN At(c, "register") /\ names' = names \cup Names(c)
     ELSE At(c, "out") /\ UNCHANGED names
  /\ UNCHANGED <<visits, opened, queue, uncounted>>

(* mq_send to the queue that c has opened blocks while it is full. *)
SendEntry_full(c, cmd) ==
  /\ queue' = [queue EXCEPT ![opened[c]] = Append(@, [cmd |-> cmd, pid |-> c])]
  /\ UNCHANGED <<visits, opened, names, uncounted>>
SendEntry(c, cmd) ==
  /\ Len(queue[opened[c]]) < MqMaxMsg
  /\ queue' = [queue EXCEPT ![opened[c]] = Append(@, [cmd |-> cmd, pid |-> c])]
  /\ UNCHANGED <<visits, opened, names, uncounted>>

SendRegister(c) ==
  /\ cpc[c] = "register" /\ At(c, "ready")
  /\ SendEntry(c, "TINYFILE_CLIENT_REGISTER")

(* A call: one of the threads that serve c answers it. *)
Call(c) ==
  /\ cpc[c] = "ready" /\ At(c, "answered")
  /\ \E n \in serving : /\ mem[n].pid = c /\ mem[n].recv_q = visits[c]
                        /\ uncounted' = uncounted \cup {n}
  /\ UNCHANGED <<visits, opened, names, queue>>

SendUnregister(c) ==
  /\ cpc[c] = "answered" \/ (cpc[c] = "ready" /\ ~Patient)
  /\ At(c, "unlink")
  /\ SendEntry(c, "TINYFILE_CLIENT_UNREGISTER")

(* destroy_queues and destroy_shm remove the names in this order. *)
NextName(c) ==
  CHOOSE n \in Names(c) \cap names :
    \/ n[1] = "send"
    \/ n[1] = "recv" /\ <<"send", c>> \notin names
    \/ Names(c) \cap names = {<<"shm", c>>}

Unlink(c) ==
  /\ cpc[c] = "unlink"
  /\ names' = names \ {NextName(c)}
  /\ At(c, IF names' \cap Names(c) = {} THEN "out" ELSE "unlink")
  /\ UNCHANGED <<visits, opened, queue, uncounted>>

(* A client that ends with exit(EXIT_FAILURE) leaves its names. *)
EndWithoutExit(c) ==
  /\ cpc[c] = "ready" /\ c \in MayDie /\ At(c, "out")
  /\ UNCHANGED <<visits, opened, names, queue, uncounted>>

ClientStep(c) ==
  /\ \/ OpenRegistry(c) \/ CreateNames(c) \/ SendRegister(c) \/ Call(c) \/ SendUnregister(c)
     \/ Unlink(c) \/ EndWithoutExit(c)
  /\ UNCHANGED <<registry_queue, server_vars>>

-----------------------------------------------------------------------------
(* The server. *)

Go(t, l) == spc' = [spc EXCEPT ![t] = l]

(* The process is gone, with its memory and its threads. *)
Gone ==
  /\ up' = FALSE
  /\ clients' = NULL /\ allocated' = {} /\ uncounted' = {} /\ serving' = {}
  /\ mem' = [n \in Nodes |-> Unused]
  /\ STOP_REGISTRY' = FALSE
  /\ spc' = [t \in Threads |-> "none"]
  /\ msg' = NoMsg /\ recv_q' = 0 /\ head' = NULL
  /\ node' = [t \in Threads |-> NULL] /\ client_list' = [t \in Threads |-> NULL]
  /\ in_exit' = FALSE /\ reused' = FALSE
  /\ UNCHANGED queue_vars

(* init_server: a queue that already exists is unlinked and made anew. *)
StartServer ==
  /\ ~up /\ started < Starts
  /\ started' = started + 1 /\ up' = TRUE
  /\ registry_queue' = started + 1
  /\ spc' = [registry |-> "receive", main |-> "fgets"]
  /\ stopped' = FALSE
  /\ UNCHANGED <<client_vars, queue, list_vars, STOP_REGISTRY, locals, uncounted, serving,
                 reused>>

(* The server is killed; the name of its queue stays. *)
KillServer ==
  /\ up /\ started < Starts
  /\ Gone
  /\ stopped' = TRUE
  /\ UNCHANGED <<client_vars, started>>

(* A worker thread counts the call it has answered. *)
CountRequest(n) ==
  /\ n \in uncounted
  /\ uncounted' = uncounted \ {n}
  /\ UNCHANGED <<client_vars, queue_vars, server_vars>>

(* One turn of registry_handler. *)
Receive ==
  /\ spc["registry"] = "receive"
  /\ ~STOP_REGISTRY
  /\ queue[started] # << >>
  /\ msg' = Head(queue[started])
  /\ queue' = [queue EXCEPT ![started] = Tail(@)]
  /\ Go("registry", IF msg'.cmd = "TINYFILE_CLIENT_REGISTER" THEN "register" ELSE "unregister")
  /\ UNCHANGED <<registry_queue, up, list_vars, STOP_REGISTRY, recv_q, head, node, client_list,
                 in_exit, uncounted, history>>

StopRegistry ==
  /\ spc["registry"] = "receive"
  /\ STOP_REGISTRY
  /\ Go("registry", "ended")
  /\ UNCHANGED <<queue_vars, up, list_vars, STOP_REGISTRY, locals, uncounted, history>>

(* register_client up to its first mq_open. *)
RegisterFind ==
  /\ spc["registry"] = "register"
  /\ Go("registry", IF find_client(msg.pid) # NULL THEN "receive" ELSE "open_recv")
  /\ UNCHANGED <<queue_vars, up, list_vars, STOP_REGISTRY, locals, uncounted, history>>

(* The two mq_open and the shm_open; a missing name is exit(EXIT_FAILURE),   *)
(* and atexit has exit_server run in the registry thread.                    *)
OpenName(kind, at, next) ==
  /\ spc["registry"] = at
  /\ Go("registry", IF <<kind, msg.pid>> \in names THEN next ELSE "exit_server")
  /\ recv_q' = IF kind = "send" THEN visits[msg.pid] ELSE recv_q
  /\ UNCHANGED <<queue_vars, up, list_vars, STOP_REGISTRY, msg, head, node, client_list,
                 in_exit, uncounted, history>>

OpenNames ==
  \/ OpenName("recv", "open_recv", "open_send")
  \/ OpenName("send", "open_send", "open_shm")
  \/ OpenName("shm", "open_shm", "append")

(* The rest of register_client: malloc, append_client, init_worker_threads.  *)
(* The other thread may change clients while append_client runs, and the     *)
(* compiler may have it read again.                                          *)
RegisterMalloc ==
  /\ spc["registry"] = "append" /\ Go("registry", "link")
  /\ \E n \in Nodes \ allocated :
       /\ mem' = [mem EXCEPT ![n].pid = msg.pid, ![n].recv_q = recv_q]
       /\ allocated' = allocated \cup {n}
       /\ node' = [node EXCEPT !["registry"] = n]
       /\ reused' = (reused \/ n \in Reached)
  /\ head' = clients
  /\ UNCHANGED <<queue_vars, up, clients, STOP_REGISTRY, msg, recv_q, client_list, in_exit,
                 uncounted, serving, stopped>>

RegisterLink ==
  /\ spc["registry"] = "link"
  /\ LET n == node["registry"] IN
     \E h2 \in {head, clients} :
       IF head # NULL /\ h2 = NULL
       THEN Gone /\ UNCHANGED stopped
       ELSE /\ mem' = append_client(n, head, h2)
            /\ clients' = IF head = NULL THEN n ELSE clients
            /\ serving' = serving \cup {n}
            /\ Go("registry", "receive")
            /\ UNCHANGED <<queue_vars, up, allocated, STOP_REGISTRY, locals, uncounted, reused,
                           stopped>>

(* unregister_client up to remove_client, in thread t. If the server is      *)
(* closing it sends the client TINYFILE_SERVER_CLOSE.                        *)
UnregisterFind(t, pid, next) ==
  LET n == find_client(pid) IN
  /\ node' = [node EXCEPT ![t] = n]
  /\ Go(t, IF n = NULL THEN next ELSE "remove")
  /\ UNCHANGED <<queue_vars, up, list_vars, STOP_REGISTRY, entry, client_list, in_exit,
                 uncounted, serving, reused, stopped>>

Unregister ==
  /\ spc["registry"] = "unregister"
  /\ UnregisterFind("registry", msg.pid, "receive")

Remove(t) ==
  /\ spc[t] = "remove"
  /\ IF NoHead(node[t])
     THEN Gone /\ UNCHANGED stopped
     ELSE /\ LET r == remove_client(node[t]) IN clients' = r.head /\ mem' = r.mem
          /\ serving' = serving \ {node[t]}
          /\ Go(t, "wait")
          /\ UNCHANGED <<queue_vars, up, allocated, STOP_REGISTRY, locals, uncounted, reused,
                         stopped>>

(* The loop that compares num_requests_started and num_requests_completed.   *)
(* gcc -O3 reads the two once, before the loop, which then has no end.       *)
AllCounted(n) == n \notin uncounted
AwaitWorkers(t) ==
  /\ spc[t] = "wait"
  /\ Go(t, IF AllCounted(node[t]) THEN "free" ELSE "loop")
  /\ UNCHANGED <<queue_vars, up, list_vars, STOP_REGISTRY, locals, uncounted, history>>

(* cleanup_worker_threads, munmap and free; freeing a chunk twice aborts.    *)
(* exit_server goes on with the next client.                                 *)
Free(t) ==
  /\ spc[t] = "free"
  /\ IF node[t] \notin allocated
     THEN Gone /\ UNCHANGED stopped
     ELSE /\ allocated' = allocated \ {node[t]}
          /\ mem' = [mem EXCEPT ![node[t]].pid = FreedPid]
          /\ Go(t, IF client_list[t] = NULL THEN "receive" ELSE "next")
          /\ UNCHANGED <<queue_vars, up, clients, STOP_REGISTRY, locals, uncounted, history>>

-----------------------------------------------------------------------------
(* exit_server: main calls it when q is pressed, atexit calls it again; the  *)
(* registry thread is in it when it has called exit.                         *)

PressQ ==
  /\ spc["main"] = "fgets" /\ MayQuit /\ started = Starts
  /\ Go("main", "exit_server")
  /\ stopped' = TRUE
  /\ UNCHANGED <<client_vars, queue_vars, started, up, list_vars, STOP_REGISTRY, locals,
                 uncounted, serving, reused>>

ExitLoop(t, list) ==
  /\ client_list' = [client_list EXCEPT ![t] = list]
  /\ Go(t, IF list = NULL THEN "close" ELSE "each")
  /\ UNCHANGED <<queue_vars, up, list_vars, STOP_REGISTRY, entry, node, in_exit,
                 uncounted, history>>

ExitServer(t) == spc[t] = "exit_server" /\ ExitLoop(t, clients)

ExitEach(t) ==
  /\ spc[t] = "each"
  /\ UnregisterFind(t, mem[client_list[t]].pid, "next")

(* client_list = client_list->next, of a node that has been freed. *)
ExitNext(t) == spc[t] = "next" /\ ExitLoop(t, mem[client_list[t]].next)

(* mq_close, mq_unlink, STOP_REGISTRY = 1 *)
CloseRegistry_nostop(t) ==
  /\ spc[t] = "close" /\ Go(t, "join")
  /\ registry_queue' = NULL
  /\ UNCHANGED <<STOP_REGISTRY, queue, up, list_vars, locals, uncounted, history>>
CloseRegistry(t) ==
  /\ spc[t] = "close" /\ Go(t, "join")
  /\ registry_queue' = NULL
  /\ STOP_REGISTRY' = TRUE
  /\ UNCHANGED <<queue, up, list_vars, locals, uncounted, history>>

(* The registry thread does not wait for itself. *)
Join(t) ==
  /\ spc[t] = "join"
  /\ t = "main" => spc["registry"] = "ended"
  /\ IF t = "registry" \/ in_exit
     THEN Gone /\ UNCHANGED stopped
     ELSE /\ in_exit' = TRUE /\ Go(t, "exit_server")
          /\ UNCHANGED <<queue_vars, up, list_vars, STOP_REGISTRY, entry, node,
                         client_list, uncounted, history>>

RegistryStep ==
  /\ \/ Receive \/ StopRegistry \/ RegisterFind \/ OpenNames
     \/ RegisterMalloc \/ RegisterLink \/ Unregister
  /\ UNCHANGED <<client_vars, started>>

ThreadStep(t) ==
  /\ \/ Remove(t) \/ AwaitWorkers(t) \/ Free(t)
     \/ ExitServer(t) \/ ExitEach(t) \/ ExitNext(t) \/ CloseRegistry(t) \/ Join(t)
  /\ UNCHANGED <<client_vars, started>>

(* Every visit is over. *)
Idle ==
  /\ \A c \in Clients : cpc[c] = "out" /\ visits[c] = Visits
  /\ UNCHANGED vars

Next ==
  \/ \E c \in Clients : ClientStep(c)
  \/ \E n \in Nodes : CountRequest(n)
  \/ StartServer \/ KillServer \/ PressQ
  \/ RegistryStep
  \/ \E t \in Threads : ThreadStep(t)
  \/ Idle

Spec == Init /\ [][Next]_vars

(* What a client goes on with once it has begun tinyfile_init, a call or     *)
(* tinyfile_exit.                                                            *)
Begun(c) ==
  /\ CreateNames(c) \/ SendRegister(c) \/ Call(c) \/ Unlink(c)
  /\ UNCHANGED <<registry_queue, server_vars>>

(* Every thread that can go on does; when clients come, whether they leave,  *)
(* and what happens to the server, is up to their users.                     *)
FairSpec ==
  /\ Spec
  /\ \A c \in Clients : WF_vars(Begun(c))
  /\ \A n \in Nodes : WF_vars(CountRequest(n))
  /\ WF_vars(RegistryStep)
  /\ \A t \in Threads : WF_vars(ThreadStep(t))

-----------------------------------------------------------------------------
(* Every variable has its type, and no registry queue holds more entries    *)
(* than its mq_maxmsg: what the mq_send of tinyfile_init and of              *)
(* tinyfile_exit waits for.                                                  *)
TypeOK ==
  /\ cpc \in [Clients -> {"out", "create", "register", "ready", "answered", "unlink"}]
  /\ visits \in [Clients -> 0..Visits]
  /\ opened \in [Clients -> 1..Starts \cup {NULL}]
  /\ names \subseteq UNION {Names(c) : c \in Clients}
  /\ registry_queue \in 1..Starts \cup {NULL}
  /\ \A g \in 1..Starts : Len(queue[g]) <= MqMaxMsg
  /\ started \in 0..Starts /\ up \in BOOLEAN
  /\ clients \in Nodes \cup {NULL} /\ head \in Nodes \cup {NULL}
  /\ \A n \in Nodes : /\ mem[n].pid \in Clients \cup {FreedPid}
                      /\ {mem[n].prev, mem[n].next, mem[n].tail} \subseteq Nodes \cup {NULL}
  /\ allocated \subseteq Nodes /\ uncounted \subseteq Nodes /\ serving \subseteq Nodes
  /\ node \in [Threads -> Nodes \cup {NULL}]
  /\ client_list \in [Threads -> Nodes \cup {NULL}]
  /\ {STOP_REGISTRY, in_exit, reused, stopped} \subseteq BOOLEAN

(* As long as malloc has not handed out a chunk that the list still reaches  *)
(* (remove_client leaves clients at a head that is freed) find_client finds  *)
(* every client whose worker threads run, at the node they were started for. *)
FoundUnlessReused ==
  ~reused /\ spc["main"] = "fgets" => \A n \in serving : find_client(mem[n].pid) = n

(* unregister_client's "Client already unregistered": the server finds no    *)
(* node for a pid only if no worker threads run for that pid.                *)
FindsRegistered ==
  spc["registry"] = "unregister" /\ find_client(msg.pid) = NULL
    => \A n \in serving : mem[n].pid # msg.pid

(* main's "Press q to quit": without q, or a kill, the server stays up. The  *)
(* exits of register_client are the other way out.                           *)
QuitsOnlyOnQ == up \/ stopped

(* unregister_client's "Send poison pill if server is closing": when main is *)
(* through the exit_server that atexit calls, no client is left that the     *)
(* server still serves and has not told.                                     *)
ClosesAll == spc["main"] = "join" /\ in_exit => serving = {}

(* A client that has begun tinyfile_init is registered and gets the answer   *)
(* to its call, or tinyfile_init fails; unless the server is down, the       *)
(* client has opened the queue of an earlier server, a chunk was reused, or  *)
(* the wait of unregister_client has become a loop.                          *)
Waiting == {"create", "register", "ready"}
Looping == \E t \in Threads : spc[t] = "loop"
Stuck(c) == ~up \/ opened[c] # started \/ reused \/ Looping
WaitingIsServed ==
  \A c \in Clients : cpc[c] \in Waiting ~> cpc[c] \notin Waiting \/ Stuck(c)

(* unregister_client's "Wait for all worker threads to complete" ends. *)
UnregisterEnds ==
  \A t \in Threads : spc[t] = "wait" ~> spc[t] \notin {"wait", "loop"}

(* Once q is pressed the server ends, whatever the registry thread does to   *)
(* the list that exit_server walks along, unless that wait is in a loop.     *)
ExitEnds == spc["main"] = "exit_server" ~> ~up \/ Looping
=============================================================================
