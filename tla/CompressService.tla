--------------------------- MODULE CompressService ---------------------------
(* compress_service and the end of handle_request (src/server/server.c) on   *)
(* the files: several service threads work on requests that may name the     *)
(* same file, while users may rewrite it.                                    *)
(*                                                                           *)
(* An operator X_y is X with the plausible mistake y; no action uses it.     *)
EXTENDS Integers, Sequences, FiniteSets, SnappyFormat

CONSTANTS
  Workers,     \* service threads
  Requests,    \* requests; PathOf[r] is the file that r names
  PathOf,
  Contents,    \* contents of source files, byte sequences
  Stale,       \* what a compressed file may hold from an earlier run
  Editable,    \* files that a user may rewrite
  BUFSIZ,      \* bytes that stdio writes at a time
  Unreadable,  \* requests for which a file operation may fail
  FdLimit,     \* how many files the server may have open
  NoFile

Paths == {PathOf[r] : r \in Requests}

(* Files of fewer than 15 bytes, so that snappy_compress emits one literal. *)
ASSUME ContentsAssumption ==
  /\ \A s \in Contents : s \in Seq(0..255) /\ Len(s) < 15
  /\ NoFile \notin Contents
  /\ BUFSIZ \in Nat \ {0} /\ FdLimit \in Nat /\ Unreadable \subseteq Requests
  /\ Editable \subseteq Paths

VARIABLES
  disk,        \* the source files
  output,      \* output[p]: the file p.compressed
  state,       \* state[r]: "sent", "taken" or "done"
  pc, request, \* of each worker: where it is, and the request it works on
  buf_size, source_len, source,  \* locals of compress_service
  text,        \* what fprintf prints
  pos,         \* how much of it has reached the file
  fds,         \* descriptors in use
  edited,      \* history: files that were rewritten
  failed       \* history: requests for which compress_service returned -1

file_vars == <<disk, output, edited>>
locals == <<request, buf_size, source_len, source, text, pos>>
vars == <<file_vars, state, pc, locals, fds, failed>>

Garbage == 256   \* a byte of memory that was not initialised
path(w) == PathOf[request[w]]
Least(a, b) == IF a <= b THEN a ELSE b

(* snappy_compress of a file without matches: its length and one literal. *)
Compressed(s) ==
  varint_encode32(Len(s)) \o IF s = << >> THEN << >> ELSE LiteralHeader(Len(s)) \o s

(* What "%s" prints of the buffer c: the bytes before the first NUL; without *)
(* one, also whatever follows in memory.                                     *)
BeforeNul(c) ==
  LET nul == {i \in 1..Len(c) : c[i] = 0} IN
  IF nul = {} THEN c ELSE SubSeq(c, 1, (CHOOSE i \in nul : \A j \in nul : i <= j) - 1)
Printed(c) ==
  IF \E i \in 1..Len(c) : c[i] = 0 THEN {BeforeNul(c)} ELSE {c, c \o <<Garbage>>}

(* write(2) at an offset; a gap before it reads as zeros. *)
WriteAt(f, at, bytes) ==
  [i \in 1..(IF Len(f) > at + Len(bytes) THEN Len(f) ELSE at + Len(bytes)) |->
     IF i > at /\ i <= at + Len(bytes) THEN bytes[i - at]
     ELSE IF i <= Len(f) THEN f[i] ELSE 0]

Init ==
  /\ disk \in [Paths -> Contents \cup {NoFile}]
  /\ output \in [Paths -> Stale \cup {NoFile}]
  /\ state = [r \in Requests |-> "sent"]
  /\ pc = [w \in Workers |-> "idle"]
  /\ request = [w \in Workers |-> CHOOSE r \in Requests : TRUE]
  /\ buf_size = [w \in Workers |-> 0] /\ source_len = [w \in Workers |-> 0]
  /\ source = [w \in Workers |-> << >>] /\ text = [w \in Workers |-> << >>]
  /\ pos = [w \in Workers |-> 0]
  /\ fds = 0 /\ edited = {} /\ failed = {}

Go(w, l) == pc' = [pc EXCEPT ![w] = l]
Return(w, error) ==
  /\ Go(w, "done")
  /\ failed' = IF error THEN failed \cup {request[w]} ELSE failed

(* handle_request begins. *)
Take(w) ==
  /\ pc[w] = "idle"
  /\ \E r \in Requests : /\ state[r] = "sent"
                         /\ state' = [state EXCEPT ![r] = "taken"]
                         /\ request' = [request EXCEPT ![w] = r]
  /\ Go(w, "open")
  /\ UNCHANGED <<file_vars, buf_size, source_len, source, text, pos, fds, failed>>

(* fopen for reading. *)
OpenSource(w) ==
  /\ pc[w] = "open"
  /\ IF disk[path(w)] = NoFile \/ fds = FdLimit
     THEN Return(w, TRUE) /\ UNCHANGED fds
     ELSE Go(w, "measure") /\ fds' = fds + 1 /\ UNCHANGED failed
  /\ UNCHANGED <<file_vars, state, locals>>

(* fseek, ftell and fread may fail; the file then stays open. *)
ReadFails(w) ==
  /\ pc[w] \in {"measure", "read"} /\ request[w] \in Unreadable
  /\ Return(w, TRUE)
  /\ UNCHANGED <<file_vars, state, locals, fds>>

Measure(w) ==
  /\ pc[w] = "measure" /\ Go(w, "read")
  /\ buf_size' = [buf_size EXCEPT ![w] = Len(disk[path(w)])]
  /\ UNCHANGED <<file_vars, state, request, source_len, source, text, pos, fds, failed>>

(* malloc(buf_size + 1), fread and fclose. *)
ReadSource(w) ==
  /\ pc[w] = "read" /\ Go(w, "compress")
  /\ LET n == Least(buf_size[w], Len(disk[path(w)])) IN
       /\ source_len' = [source_len EXCEPT ![w] = n]
       /\ source' = [source EXCEPT ![w] =
                       [i \in 1..buf_size[w] |-> IF i <= n THEN disk[path(w)][i] ELSE Garbage]]
  /\ fds' = fds - 1
  /\ UNCHANGED <<file_vars, state, request, buf_size, text, pos, failed>>

(* The buffer for the compressed data. *)
compressed_len_same(n) == n
compressed_len(n) == snappy_max_compressed_length(n)

(* snappy_compress gets buf_size bytes; strcpy and strcat name the output. *)
Compress(w) ==
  /\ pc[w] = "compress" /\ Go(w, "open_output")
  /\ \E t \in Printed(Compressed(source[w])) : text' = [text EXCEPT ![w] = t]
  /\ UNCHANGED <<file_vars, state, request, buf_size, source_len, source, pos, fds, failed>>

(* fopen for writing truncates the file. *)
OpenOutput_keep(w) ==
  /\ pc[w] = "open_output"
  /\ IF fds = FdLimit
     THEN Return(w, TRUE) /\ UNCHANGED <<output, fds>>
     ELSE /\ Go(w, "write") /\ fds' = fds + 1 /\ UNCHANGED failed
          /\ output' = [output EXCEPT ![path(w)] = IF @ = NoFile THEN << >> ELSE @]
  /\ pos' = [pos EXCEPT ![w] = 0]
  /\ UNCHANGED <<disk, edited, state, request, buf_size, source_len, source, text>>
OpenOutput(w) ==
  /\ pc[w] = "open_output"
  /\ IF fds = FdLimit
     THEN Return(w, TRUE) /\ UNCHANGED <<output, fds>>
     ELSE /\ Go(w, "write") /\ fds' = fds + 1 /\ UNCHANGED failed
          /\ output' = [output EXCEPT ![path(w)] = << >>]
  /\ pos' = [pos EXCEPT ![w] = 0]
  /\ UNCHANGED <<disk, edited, state, request, buf_size, source_len, source, text>>

(* fprintf and fclose write what is left, BUFSIZ bytes at a time. *)
Write(w) ==
  /\ pc[w] = "write" /\ pos[w] < Len(text[w])
  /\ LET n == Least(pos[w] + BUFSIZ, Len(text[w])) IN
       /\ output' = [output EXCEPT ![path(w)] =
                       WriteAt(@, pos[w], SubSeq(text[w], pos[w] + 1, n))]
       /\ pos' = [pos EXCEPT ![w] = n]
  /\ UNCHANGED <<disk, edited, state, pc, request, buf_size, source_len, source, text, fds,
                 failed>>

Close(w) ==
  /\ pc[w] = "write" /\ pos[w] = Len(text[w])
  /\ Return(w, FALSE) /\ fds' = fds - 1
  /\ UNCHANGED <<file_vars, state, locals>>

(* handle_request sets done, whatever compress_service has returned. *)
MarkDone_found(w) ==
  /\ pc[w] = "done" /\ Go(w, "idle")
  /\ state' = [state EXCEPT ![request[w]] = IF disk[path(w)] = NoFile THEN @ ELSE "done"]
  /\ UNCHANGED <<file_vars, locals, fds, failed>>
MarkDone(w) ==
  /\ pc[w] = "done" /\ Go(w, "idle")
  /\ state' = [state EXCEPT ![request[w]] = "done"]
  /\ UNCHANGED <<file_vars, locals, fds, failed>>

WorkerStep(w) ==
  \/ Take(w) \/ OpenSource(w) \/ ReadFails(w) \/ Measure(w) \/ ReadSource(w)
  \/ Compress(w) \/ OpenOutput(w) \/ Write(w) \/ Close(w) \/ MarkDone(w)

(* A user rewrites a source file, once. *)
Edit(p) ==
  /\ p \in Editable \ edited /\ disk[p] # NoFile
  /\ \E s \in Contents \ {disk[p]} : disk' = [disk EXCEPT ![p] = s]
  /\ edited' = edited \cup {p}
  /\ UNCHANGED <<output, state, pc, locals, fds, failed>>

Finished ==
  /\ \A r \in Requests : state[r] # "sent"
  /\ \A w \in Workers : pc[w] = "idle"
  /\ UNCHANGED vars

Next ==
  \/ \E w \in Workers : WorkerStep(w)
  \/ \E p \in Paths : Edit(p)
  \/ Finished

Spec == Init /\ [][Next]_vars

(* The threads are scheduled. *)
FairSpec == Spec /\ \A w \in Workers : WF_vars(WorkerStep(w))

-----------------------------------------------------------------------------
(* Has a request for p been served, and is nobody writing p.compressed? *)
Settled(p) ==
  /\ \E r \in Requests \ failed : PathOf[r] = p /\ state[r] = "done"
  /\ \A w \in Workers : pc[w] = "write" => path(w) # p

(* Threads that compress the same file truncate and overwrite one output,    *)
(* and some may fail; once none of them has it open it is what one of them   *)
(* alone would have left: what fprintf printed, with nothing of an older     *)
(* file and no gap.                                                          *)
SettledFile ==
  \A p \in Paths \ edited :
    Settled(p) => \E t \in Printed(Compressed(disk[p])) : output[p] = t

(* compress_service allocates for the bytes that fread returned and passes   *)
(* the size that ftell returned: for a file that nobody rewrites the buffer  *)
(* is as large as snappy_compress asks.                                      *)
Contract(w) ==
  pc[w] = "compress" =>
    compressed_len(source_len[w]) >= snappy_max_compressed_length(buf_size[w])
ContractUnedited == \A w \in Workers : path(w) \notin edited => Contract(w)

(* snappy_compress's "The output buffer must be at least                     *)
(* snappy_max_compressed_length(input_length) bytes long", for every file.   *)
ContractKept == \A w \in Workers : Contract(w)

(* handle_request answers every request, also when its file is missing or    *)
(* cannot be read, or when the descriptors are used up.                      *)
EveryRequestAnswered == \A r \in Requests : <>(state[r] = "done")

(* The README's "respond to clients with a compressed version of the file":  *)
(* when a request has been served its output is there, as far as fprintf     *)
(* prints it.                                                                *)
ServedComplete ==
  \A r \in Requests \ failed :
    state[r] = "done" /\ PathOf[r] \notin edited
      => \E t \in Printed(Compressed(disk[PathOf[r]])) : output[PathOf[r]] = t

(* The README's "capable of handling any kind of file content": the output   *)
(* of a request that has been served is the compressed file.                 *)
AnyContent ==
  \A p \in Paths \ edited : Settled(p) => output[p] = Compressed(disk[p])
=============================================================================
