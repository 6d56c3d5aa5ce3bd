---------------------------- MODULE CompressProofs ----------------------------
(* Service threads that compress one file at the same time leave its output  *)
(* as one of them alone would, however many there are.                       *)
EXTENDS CompressService, WellFoundedInduction, TLAPS

(* The longest and the shortest text that fprintf may print of c. *)
HasNul(c) == \E i \in 1..Len(c) : c[i] = 0
Longest(c) == IF HasNul(c) THEN BeforeNul(c) ELSE c \o <<Garbage>>
Shortest(c) == IF HasNul(c) THEN BeforeNul(c) ELSE c

(* f holds what Longest(c) holds, as far as it goes. *)
Agrees(f, c) ==
  /\ f \in Seq(Int) /\ Len(f) <= Len(Longest(c))
  /\ \A i \in 1..Len(f) : f[i] = Longest(c)[i]

(* The least of some naturals. *)
LEMMA LeastOf ==
  ASSUME NEW T, T \subseteq Nat, T # {}
  PROVE  \E n \in T : \A m \in T : n <= m
<1>1. PICK n \in T : \A m \in T : ~ (<<m, n>> \in OpToRel(<, Nat))
  BY NatLessThanWellFounded, WFMin, Zenon
<1>2. \A m \in T : ~ (m < n)
  BY <1>1, Zenon DEF OpToRel
<1> QED BY <1>2

(* Sequences are equal if they have the same elements. *)
LEMMA SameSequence ==
  ASSUME NEW s \in Seq(Int), NEW t \in Seq(Int), Len(s) = Len(t),
         \A i \in 1..Len(s) : s[i] = t[i]
  PROVE  s = t
<1>1. s \in [1..Len(s) -> Int] /\ t \in [1..Len(s) -> Int]
  OBVIOUS
<1> QED BY <1>1

(* The bytes before the first NUL are a part of the buffer. *)
LEMMA BeforeNulFacts ==
  ASSUME NEW c \in Seq(Int)
  PROVE  BeforeNul(c) \in Seq(Int) /\ Len(BeforeNul(c)) <= Len(c)
<1> DEFINE nul == {i \in 1..Len(c) : c[i] = 0}
<1>1. CASE nul = {}
  BY <1>1 DEF BeforeNul
<1>2. CASE nul # {}
  <2> DEFINE k == CHOOSE i \in nul : \A j \in nul : i <= j
  <2>1. nul \subseteq Nat
    OBVIOUS
  <2>2. k \in nul
    BY <1>2, <2>1, LeastOf, Zenon
  <2>3. BeforeNul(c) = SubSeq(c, 1, k - 1)
    BY <1>2, Zenon DEF BeforeNul
  <2>4. k \in 1..Len(c)
    BY <2>2, Zenon
  <2> HIDE DEF k, nul
  <2> QED BY <2>3, <2>4
<1> QED BY <1>1, <1>2

(* What fprintf may print: what agrees with the longest text and is not      *)
(* shorter than the shortest.                                                *)
LEMMA PrintedFacts ==
  ASSUME NEW c \in Seq(Int)
  PROVE  /\ Longest(c) \in Seq(Int) /\ Shortest(c) \in Seq(Int)
         /\ Len(Shortest(c)) <= Len(Longest(c)) /\ Len(Longest(c)) <= Len(Shortest(c)) + 1
         /\ \A t : t \in Printed(c) <=> Agrees(t, c) /\ Len(Shortest(c)) <= Len(t)
<1>1. CASE HasNul(c)
  <2>1. /\ Longest(c) = BeforeNul(c) /\ Shortest(c) = BeforeNul(c)
        /\ Printed(c) = {BeforeNul(c)} /\ BeforeNul(c) \in Seq(Int)
    BY <1>1, BeforeNulFacts DEF HasNul, Longest, Shortest, Printed
  <2>2. ASSUME NEW t, Agrees(t, c), Len(BeforeNul(c)) <= Len(t)
        PROVE  t = BeforeNul(c)
    <3>1. /\ t \in Seq(Int) /\ Len(t) = Len(BeforeNul(c))
          /\ \A i \in 1..Len(t) : t[i] = BeforeNul(c)[i]
      BY <2>1, <2>2, SMT DEF Agrees
    <3> QED BY <2>1, <3>1, SameSequence, Zenon
  <2> QED BY <2>1, <2>2 DEF Agrees
<1>2. CASE ~HasNul(c)
  <2> DEFINE l == c \o <<Garbage>>
  <2>1. /\ Longest(c) = l /\ Shortest(c) = c /\ Printed(c) = {c, l}
    BY <1>2 DEF HasNul, Longest, Shortest, Printed
  <2>2. /\ l \in Seq(Int) /\ Len(l) = Len(c) + 1 /\ Len(c) \in Nat
        /\ \A i \in 1..Len(c) : l[i] = c[i]
    BY DEF Garbage
  <2>3. ASSUME NEW t, Agrees(t, c), Len(c) <= Len(t)
        PROVE  t = c \/ t = l
    <3> HIDE DEF l
    <3>1. t \in Seq(Int) /\ Len(t) <= Len(l) /\ \A i \in 1..Len(t) : t[i] = l[i]
      BY <2>1, <2>3 DEF Agrees
    <3>2. Len(t) = Len(c) \/ Len(t) = Len(l)
      BY <2>2, <2>3, <3>1
    <3>3. CASE Len(t) = Len(c)
      BY <2>2, <3>1, <3>3, SameSequence
    <3>4. CASE Len(t) = Len(l)
      BY <2>2, <3>1, <3>4, SameSequence
    <3> QED BY <3>2, <3>3, <3>4
  <2>4. Agrees(c, c) /\ Agrees(l, c)
    <3> HIDE DEF l
    <3> QED BY <2>1, <2>2 DEF Agrees
  <2> HIDE DEF l
  <2> QED BY <2>1, <2>2, <2>3, <2>4
<1> QED BY <1>1, <1>2

(* The length of a file of fewer than 15 bytes, and its literal's header,    *)
(* take one byte each.                                                       *)
LEMMA ShortHeaders ==
  ASSUME NEW n \in Nat, n < 15
  PROVE  varint_encode32(n) = <<n>> /\ LiteralHeader(n) = <<LITERAL + 4 * (n - 1)>>
<1>1. n < 128 /\ n - 1 < 60 /\ n - 1 \notin 60..255
  BY SMT
<1>2. varint_encode32(n) = <<n>>
  BY <1>1, SMT DEF varint_encode32
<1>3. LiteralHeader(n) = <<LITERAL + 4 * (n - 1)>>
  BY <1>1, Zenon DEF LiteralHeader
<1> QED BY <1>2, <1>3

(* A sequence over a set is one over a larger set. *)
LEMMA LargerSet ==
  ASSUME NEW S, NEW T, S \subseteq T, NEW s \in Seq(S)
  PROVE  s \in Seq(T)
OBVIOUS

(* snappy_compress of a file. *)
LEMMA CompressedType ==
  ASSUME NEW s \in Contents
  PROVE  Compressed(s) \in Seq(Int)
<1>1. s \in Seq(0..255) /\ Len(s) < 15
  BY ContentsAssumption, Zenon
<1>2. 0..255 \subseteq Int
  BY SMT
<1>3. s \in Seq(Int) /\ Len(s) \in Nat
  <2>1. s \in Seq(Int)
    BY <1>1, <1>2, LargerSet, Zenon
  <2> QED BY <2>1
<1>4. CASE s = << >>
  <2>1. Compressed(s) = <<Len(s)>> \o << >>
    BY <1>1, <1>3, <1>4, ShortHeaders, Zenon DEF Compressed
  <2> QED BY <1>3, <2>1
<1>5. CASE s # << >>
  <2>1. Compressed(s) = <<Len(s)>> \o (<<LITERAL + 4 * (Len(s) - 1)>> \o s)
    BY <1>1, <1>3, <1>5, ShortHeaders, Zenon DEF Compressed
  <2>2. LITERAL + 4 * (Len(s) - 1) \in Int
    BY <1>3, SMT DEF LITERAL
  <2> HIDE DEF LITERAL
  <2> QED BY <1>3, <2>1, <2>2
<1> QED BY <1>4, <1>5

(* The bytes from a to n of t, written over the file f at their own place,   *)
(* give the file g.                                                          *)
Overwritten(f, t, a, n, g) ==
  /\ g \in Seq(Int) /\ Len(g) = IF Len(f) > n THEN Len(f) ELSE n
  /\ \A i \in 1..Len(g) :
       g[i] = IF i > a /\ i <= n THEN t[i] ELSE IF i <= Len(f) THEN f[i] ELSE 0

(* WriteAt does so. *)
LEMMA WriteFacts ==
  ASSUME NEW f \in Seq(Int), NEW t \in Seq(Int), NEW a \in Nat, NEW n \in Nat,
         a <= n, n <= Len(t)
  PROVE  Overwritten(f, t, a, n, WriteAt(f, a, SubSeq(t, a + 1, n)))
<1> DEFINE b == SubSeq(t, a + 1, n)
           l == IF Len(f) > n THEN Len(f) ELSE n
           h == [i \in 1..l |-> IF i > a /\ i <= n THEN t[i]
                                ELSE IF i <= Len(f) THEN f[i] ELSE 0]
<1>1. Len(b) = n - a /\ \A i \in 1..(n - a) : b[i] = t[a + i]
  OBVIOUS
<1>2. Len(f) \in Nat /\ l \in Nat /\ a + Len(b) = n
  BY <1>1
<1>3. WriteAt(f, a, b) = [i \in 1..l |-> IF i > a /\ i <= n THEN b[i - a]
                                         ELSE IF i <= Len(f) THEN f[i] ELSE 0]
  BY <1>2, Zenon DEF WriteAt
<1>4. \A i \in 1..l : i > a /\ i <= n => b[i - a] = t[i]
  <2> HIDE DEF b
  <2> QED BY <1>1
<1>5. WriteAt(f, a, b) = h
  <2> HIDE DEF b, l
  <2> QED BY <1>2, <1>3, <1>4
<1>6. \A i \in 1..l : h[i] \in Int
  <2>1. \A i \in 1..l : i > a /\ i <= n => t[i] \in Int
    BY <1>2
  <2>2. \A i \in 1..l : i <= Len(f) => f[i] \in Int
    BY <1>2
  <2> QED BY <2>1, <2>2, SMT
<1>7. h \in Seq(Int) /\ Len(h) = l
  <2> HIDE DEF l
  <2> QED BY <1>2, <1>6
<1> QED BY <1>5, <1>7, Zenon DEF Overwritten

-----------------------------------------------------------------------------
(* Locals of the threads, and what the requests that name p have done to its *)
(* output: every byte of the longest text is there, or some thread that has  *)
(* the file open has yet to write it; the last one, which may be missing     *)
(* from the text, may also be absent.                                        *)
IsFcn(f, D) == f = [x \in D |-> f[x]]
Reading == {"measure", "read", "compress", "open_output", "write"}
Types ==
  /\ disk \in [Paths -> Contents \cup {NoFile}] /\ IsFcn(output, Paths)
  /\ IsFcn(state, Requests) /\ IsFcn(pc, Workers) /\ IsFcn(request, Workers)
  /\ IsFcn(buf_size, Workers) /\ IsFcn(source_len, Workers) /\ IsFcn(source, Workers)
  /\ IsFcn(text, Workers) /\ IsFcn(pos, Workers)

Texts(p) == Printed(Compressed(disk[p]))
WorkerInv(w) ==
  /\ pc[w] # "idle" => request[w] \in Requests
  /\ pc[w] \in Reading => disk[path(w)] \in Contents
  /\ path(w) \notin edited =>
       /\ pc[w] = "read" => buf_size[w] = Len(disk[path(w)])
       /\ pc[w] = "compress" => /\ source_len[w] = buf_size[w] /\ source[w] = disk[path(w)]
                                /\ buf_size[w] = Len(disk[path(w)])
       /\ pc[w] \in {"open_output", "write"} => text[w] \in Texts(path(w))
       /\ pc[w] = "write" => pos[w] \in 0..Len(text[w])

Writing(w, p) == pc[w] = "write" /\ path(w) = p
Wrote(w, p) == pc[w] = "done" /\ request[w] \notin failed /\ path(w) = p
ServedOn(r, p) == r \in Requests \ failed /\ PathOf[r] = p /\ state[r] = "done"
Opened(p) == \/ \E w \in Workers : Writing(w, p) \/ Wrote(w, p)
             \/ \E r \in Requests : ServedOn(r, p)

Coming(p, i) == \E w \in Workers : Writing(w, p) /\ pos[w] < i /\ i <= Len(text[w])
Holds(f, c, i) == i <= Len(f) /\ f[i] = Longest(c)[i]
MayLack(f, c, i) == i > Len(Shortest(c)) /\ i > Len(f)
FileInv(p) ==
  LET c == Compressed(disk[p]) IN
  /\ disk[p] \in Contents /\ output[p] \in Seq(Int) /\ Len(output[p]) <= Len(Longest(c))
  /\ \A i \in 1..Len(Longest(c)) :
       Holds(output[p], c, i) \/ Coming(p, i) \/ MayLack(output[p], c, i)

IInv ==
  /\ Types
  /\ \A w \in Workers : WorkerInv(w)
  /\ \A p \in Paths \ edited : Opened(p) => FileInv(p)

(* A local of one thread changes. *)
LEMMA ExceptFacts ==
  ASSUME Types, NEW w \in Workers, NEW e
  PROVE  /\ [pc EXCEPT ![w] = e][w] = e
         /\ [request EXCEPT ![w] = e][w] = e
         /\ [buf_size EXCEPT ![w] = e][w] = e
         /\ [source_len EXCEPT ![w] = e][w] = e
         /\ [source EXCEPT ![w] = e][w] = e
         /\ [text EXCEPT ![w] = e][w] = e
         /\ [pos EXCEPT ![w] = e][w] = e
<1>1. [pc EXCEPT ![w] = e][w] = e
  <2>1. IsFcn(pc, Workers)
    BY Zenon DEF Types
  <2> QED BY <2>1, SMT DEF IsFcn
<1>2. [request EXCEPT ![w] = e][w] = e
  <2>1. IsFcn(request, Workers)
    BY Zenon DEF Types
  <2> QED BY <2>1, SMT DEF IsFcn
<1>3. [buf_size EXCEPT ![w] = e][w] = e
  <2>1. IsFcn(buf_size, Workers)
    BY Zenon DEF Types
  <2> QED BY <2>1, SMT DEF IsFcn
<1>4. [source_len EXCEPT ![w] = e][w] = e
  <2>1. IsFcn(source_len, Workers)
    BY Zenon DEF Types
  <2> QED BY <2>1, SMT DEF IsFcn
<1>5. [source EXCEPT ![w] = e][w] = e
  <2>1. IsFcn(source, Workers)
    BY Zenon DEF Types
  <2> QED BY <2>1, SMT DEF IsFcn
<1>6. [text EXCEPT ![w] = e][w] = e
  <2>1. IsFcn(text, Workers)
    BY Zenon DEF Types
  <2> QED BY <2>1, SMT DEF IsFcn
<1>7. [pos EXCEPT ![w] = e][w] = e
  <2>1. IsFcn(pos, Workers)
    BY Zenon DEF Types
  <2> QED BY <2>1, SMT DEF IsFcn
<1> QED BY <1>1, <1>2, <1>3, <1>4, <1>5, <1>6, <1>7

(* What a thread does leaves the locals of the others, and the source files. *)
Same(v) ==
  /\ pc'[v] = pc[v] /\ request'[v] = request[v] /\ buf_size'[v] = buf_size[v]
  /\ source_len'[v] = source_len[v] /\ source'[v] = source[v]
  /\ text'[v] = text[v] /\ pos'[v] = pos[v]

(* The frame of a thread's step. *)
LEMMA StepFrame ==
  ASSUME Types, NEW w \in Workers, WorkerStep(w)
  PROVE  /\ disk' = disk /\ edited' = edited /\ failed \subseteq failed' /\ Types'
         /\ \A v \in Workers : v # w => Same(v)
<1> USE DEF file_vars, locals
<1>1. disk' = disk /\ edited' = edited
  BY Zenon DEF WorkerStep, Take, OpenSource, ReadFails, Measure, ReadSource, Compress, OpenOutput,
               Write, Close, MarkDone
<1>2. failed \subseteq failed'
  BY Zenon DEF WorkerStep, Take, OpenSource, ReadFails, Measure, ReadSource, Compress, OpenOutput,
               Write, Close, MarkDone, Return
<1>3. IsFcn(pc, Workers)' /\ \A v \in Workers : v # w => pc'[v] = pc[v]
  <2>0. IsFcn(pc, Workers)
    BY Zenon DEF Types
  <2>1. UNCHANGED pc \/ \E l : pc' = [pc EXCEPT ![w] = l]
    BY Zenon DEF WorkerStep, Take, OpenSource, ReadFails, Measure, ReadSource, Compress,
                 OpenOutput, Write, Close, MarkDone, Return, Go
  <2> QED BY <2>0, <2>1, SMT DEF IsFcn
<1>4. IsFcn(request, Workers)' /\ \A v \in Workers : v # w => request'[v] = request[v]
  <2>0. IsFcn(request, Workers)
    BY Zenon DEF Types
  <2>1. UNCHANGED request \/ \E l : request' = [request EXCEPT ![w] = l]
    BY Zenon DEF WorkerStep, Take, OpenSource, ReadFails, Measure, ReadSource, Compress,
                 OpenOutput, Write, Close, MarkDone
  <2> QED BY <2>0, <2>1, SMT DEF IsFcn
<1>5. IsFcn(buf_size, Workers)' /\ \A v \in Workers : v # w => buf_size'[v] = buf_size[v]
  <2>0. IsFcn(buf_size, Workers)
    BY Zenon DEF Types
  <2>1. UNCHANGED buf_size \/ \E l : buf_size' = [buf_size EXCEPT ![w] = l]
    BY Zenon DEF WorkerStep, Take, OpenSource, ReadFails, Measure, ReadSource, Compress,
                 OpenOutput, Write, Close, MarkDone
  <2> QED BY <2>0, <2>1, SMT DEF IsFcn
<1>6. IsFcn(source_len, Workers)' /\ \A v \in Workers : v # w => source_len'[v] = source_len[v]
  <2>0. IsFcn(source_len, Workers)
    BY Zenon DEF Types
  <2>1. UNCHANGED source_len \/ \E l : source_len' = [source_len EXCEPT ![w] = l]
    BY Zenon DEF WorkerStep, Take, OpenSource, ReadFails, Measure, ReadSource, Compress,
                 OpenOutput, Write, Close, MarkDone
  <2> QED BY <2>0, <2>1, SMT DEF IsFcn
<1>7. IsFcn(source, Workers)' /\ \A v \in Workers : v # w => source'[v] = source[v]
  <2>0. IsFcn(source, Workers)
    BY Zenon DEF Types
  <2>1. UNCHANGED source \/ \E l : source' = [source EXCEPT ![w] = l]
    BY Zenon DEF WorkerStep, Take, OpenSource, ReadFails, Measure, ReadSource, Compress,
                 OpenOutput, Write, Close, MarkDone
  <2> QED BY <2>0, <2>1, SMT DEF IsFcn
<1>8. IsFcn(text, Workers)' /\ \A v \in Workers : v # w => text'[v] = text[v]
  <2>0. IsFcn(text, Workers)
    BY Zenon DEF Types
  <2>1. UNCHANGED text \/ \E l : text' = [text EXCEPT ![w] = l]
    BY Zenon DEF WorkerStep, Take, OpenSource, ReadFails, Measure, ReadSource, Compress,
                 OpenOutput, Write, Close, MarkDone
  <2> QED BY <2>0, <2>1, SMT DEF IsFcn
<1>9. IsFcn(pos, Workers)' /\ \A v \in Workers : v # w => pos'[v] = pos[v]
  <2>0. IsFcn(pos, Workers)
    BY Zenon DEF Types
  <2>1. UNCHANGED pos \/ \E l : pos' = [pos EXCEPT ![w] = l]
    BY Zenon DEF WorkerStep, Take, OpenSource, ReadFails, Measure, ReadSource, Compress,
                 OpenOutput, Write, Close, MarkDone
  <2> QED BY <2>0, <2>1, SMT DEF IsFcn
<1>10. IsFcn(state, Requests)'
  <2>0. IsFcn(state, Requests)
    BY Zenon DEF Types
  <2>1. UNCHANGED state \/ \E r, l : state' = [state EXCEPT ![r] = l]
    BY Zenon DEF WorkerStep, Take, OpenSource, ReadFails, Measure, ReadSource, Compress,
                 OpenOutput, Write, Close, MarkDone
  <2> QED BY <2>0, <2>1, SMT DEF IsFcn
<1>11. IsFcn(output, Paths)'
  <2>0. IsFcn(output, Paths)
    BY Zenon DEF Types
  <2>1. UNCHANGED output \/ \E q, l : output' = [output EXCEPT ![q] = l]
    BY Zenon DEF WorkerStep, Take, OpenSource, ReadFails, Measure, ReadSource, Compress,
                 OpenOutput, Write, Close, MarkDone
  <2> QED BY <2>0, <2>1, SMT DEF IsFcn
<1> QED BY <1>1, <1>2, <1>3, <1>4, <1>5, <1>6, <1>7, <1>8, <1>9, <1>10, <1>11, Zenon
        DEF Types, Same


(* The other threads are as they were. *)
LEMMA OthersKeep ==
  ASSUME IInv, NEW w \in Workers, WorkerStep(w), NEW v \in Workers, v # w
  PROVE  WorkerInv(v)'
<1>1. disk' = disk /\ edited' = edited /\ Same(v)
  BY StepFrame, Zenon DEF IInv
<1>2. WorkerInv(v)
  BY Zenon DEF IInv
<1> QED BY <1>1, <1>2, Zenon DEF WorkerInv, Same, path, Texts

(* A text that is printed is a sequence, and lies between the shortest and   *)
(* the longest.                                                              *)
LEMMA TextFacts ==
  ASSUME NEW p, disk[p] \in Contents, NEW t \in Texts(p)
  PROVE  LET c == Compressed(disk[p]) IN
         /\ c \in Seq(Int) /\ t \in Seq(Int) /\ Len(t) \in Nat
         /\ Len(Shortest(c)) <= Len(t) /\ Len(t) <= Len(Longest(c))
         /\ \A i \in 1..Len(t) : t[i] = Longest(c)[i]
<1> DEFINE c == Compressed(disk[p])
<1>1. c \in Seq(Int)
  BY CompressedType, Zenon
<1>2. Agrees(t, c) /\ Len(Shortest(c)) <= Len(t)
  BY <1>1, PrintedFacts, Zenon DEF Texts
<1>3. t \in Seq(Int)
  BY <1>2 DEF Agrees
<1>4. Len(t) \in Nat
  BY <1>3
<1> QED BY <1>1, <1>2, <1>3, <1>4, Zenon DEF Agrees

(* fread of a file of the size that ftell has returned gives the file. *)
LEMMA ReadFacts ==
  ASSUME NEW s \in Contents
  PROVE  /\ Len(s) \in Nat /\ Least(Len(s), Len(s)) = Len(s)
         /\ [i \in 1..Len(s) |-> IF i <= Len(s) THEN s[i] ELSE Garbage] = s
<1>1. s \in Seq(0..255)
  BY ContentsAssumption, Zenon
<1>2. Len(s) \in Nat /\ s = [i \in 1..Len(s) |-> s[i]]
  BY <1>1
<1>3. \A i \in 1..Len(s) : i <= Len(s)
  BY <1>2
<1>4. [i \in 1..Len(s) |-> IF i <= Len(s) THEN s[i] ELSE Garbage] = [i \in 1..Len(s) |-> s[i]]
  BY <1>3, Zenon
<1> QED BY <1>2, <1>4 DEF Least

(* The thread itself, one step of compress_service after another. *)
LEMMA OwnKeeps ==
  ASSUME IInv, NEW w \in Workers, WorkerStep(w)
  PROVE  WorkerInv(w)'
<1> USE DEF file_vars, locals
<1>1. /\ WorkerInv(w) /\ disk' = disk /\ edited' = edited
      /\ disk \in [Paths -> Contents \cup {NoFile}]
  BY StepFrame, Zenon DEF IInv, Types
<1>2. \A e : /\ [pc EXCEPT ![w] = e][w] = e
             /\ [request EXCEPT ![w] = e][w] = e
             /\ [buf_size EXCEPT ![w] = e][w] = e
             /\ [source_len EXCEPT ![w] = e][w] = e
             /\ [source EXCEPT ![w] = e][w] = e
             /\ [text EXCEPT ![w] = e][w] = e
             /\ [pos EXCEPT ![w] = e][w] = e
  BY ExceptFacts, Zenon DEF IInv
<1>3. ASSUME NEW l, Go(w, l) PROVE pc'[w] = l
  BY <1>2, <1>3, Zenon DEF Go
<1>4. CASE Take(w)
  <2>1. pc'[w] = "open"
    BY <1>3, <1>4, Zenon DEF Take
  <2>2. request'[w] \in Requests
    <3>1. PICK r \in Requests : request' = [request EXCEPT ![w] = r]
      BY <1>4, Zenon DEF Take
    <3>2. [request EXCEPT ![w] = r][w] = r
      BY <1>2, Zenon
    <3> QED BY <3>1, <3>2, Zenon
  <2> QED BY <2>1, <2>2, Zenon DEF WorkerInv, Reading
<1>5. ASSUME pc'[w] = "done" \/ pc'[w] = "idle", pc[w] # "idle", UNCHANGED request
      PROVE  WorkerInv(w)'
  BY <1>1, <1>5, Zenon DEF WorkerInv, Reading
<1>6. CASE OpenSource(w)
  <2>1. CASE disk[path(w)] = NoFile \/ fds = FdLimit
    BY <1>3, <1>5, <1>6, <2>1, Zenon DEF OpenSource, Return
  <2>2. CASE ~ (disk[path(w)] = NoFile \/ fds = FdLimit)
    <3>1. pc'[w] = "measure" /\ UNCHANGED request
      BY <1>3, <1>6, <2>2, Zenon DEF OpenSource
    <3>2. request[w] \in Requests
      BY <1>1, <1>6, Zenon DEF OpenSource, WorkerInv
    <3>3. path(w) \in Paths
      BY <3>2, Zenon DEF path, Paths
    <3>4. disk[path(w)] \in Contents
      BY <1>1, <2>2, <3>3
    <3> QED BY <1>1, <3>1, <3>2, <3>4, Zenon DEF WorkerInv, Reading, path
  <2> QED BY <2>1, <2>2
<1>7. CASE ReadFails(w) \/ Close(w) \/ MarkDone(w)
  BY <1>3, <1>5, <1>7, Zenon DEF ReadFails, Close, MarkDone, Return
<1>8. CASE Measure(w)
  <2>1. pc'[w] = "read" /\ UNCHANGED request /\ buf_size'[w] = Len(disk[path(w)])
    BY <1>2, <1>3, <1>8, Zenon DEF Measure
  <2> QED BY <1>1, <1>8, <2>1, Zenon DEF Measure, WorkerInv, Reading, path
<1>9. CASE ReadSource(w)
  <2> DEFINE d == disk[path(w)]
             n == Least(buf_size[w], Len(d))
  <2>1. /\ pc'[w] = "compress" /\ UNCHANGED <<request, buf_size>> /\ source_len'[w] = n
        /\ source'[w] = [i \in 1..buf_size[w] |-> IF i <= n THEN d[i] ELSE Garbage]
    BY <1>2, <1>3, <1>9, Zenon DEF ReadSource
  <2>2. d \in Contents /\ request[w] \in Requests
    BY <1>1, <1>9, Zenon DEF ReadSource, WorkerInv, Reading
  <2>3. path(w) \notin edited => buf_size[w] = Len(d)
    BY <1>1, <1>9, Zenon DEF ReadSource, WorkerInv
  <2>4. path(w) \notin edited => source_len'[w] = buf_size[w] /\ source'[w] = d
    <3> SUFFICES ASSUME path(w) \notin edited
                 PROVE  source_len'[w] = buf_size[w] /\ source'[w] = d
      OBVIOUS
    <3>1. buf_size[w] = Len(d) /\ n = Len(d)
      BY <2>2, <2>3, ReadFacts, Zenon
    <3> HIDE DEF d, n
    <3> QED BY <2>1, <2>2, <3>1, ReadFacts, Zenon
  <2> QED BY <1>1, <2>1, <2>2, <2>3, <2>4, Zenon DEF WorkerInv, Reading, path
<1>10. CASE Compress(w)
  <2>1. /\ pc'[w] = "open_output" /\ UNCHANGED request
        /\ text'[w] \in Printed(Compressed(source[w]))
    <3>1. PICK t \in Printed(Compressed(source[w])) : text' = [text EXCEPT ![w] = t]
      BY <1>10, Zenon DEF Compress
    <3>2. [text EXCEPT ![w] = t][w] = t
      BY <1>2, Zenon
    <3> QED BY <1>3, <1>10, <3>1, <3>2, Zenon DEF Compress
  <2> QED BY <1>1, <1>10, <2>1, Zenon DEF Compress, WorkerInv, Reading, path, Texts
<1>11. CASE OpenOutput(w)
  <2>1. CASE fds = FdLimit
    BY <1>3, <1>5, <1>11, <2>1, Zenon DEF OpenOutput, Return
  <2>2. CASE fds # FdLimit
    <3>1. pc'[w] = "write" /\ UNCHANGED <<request, text>> /\ pos'[w] = 0
      BY <1>2, <1>3, <1>11, <2>2, Zenon DEF OpenOutput
    <3>2. /\ request[w] \in Requests /\ disk[path(w)] \in Contents
          /\ path(w) \notin edited => text[w] \in Texts(path(w))
      BY <1>1, <1>11, Zenon DEF OpenOutput, WorkerInv, Reading
    <3>3. path(w) \notin edited => 0 \in 0..Len(text[w])
      <4>1. path(w) \notin edited => Len(text[w]) \in Nat
        BY <3>2, TextFacts, Zenon
      <4> QED BY <4>1
    <3> QED BY <1>1, <3>1, <3>2, <3>3, Zenon DEF WorkerInv, Reading, path, Texts
  <2> QED BY <2>1, <2>2
<1>12. CASE Write(w)
  <2>1. /\ pc[w] = "write" /\ UNCHANGED <<pc, request, text>>
        /\ pos'[w] = Least(pos[w] + BUFSIZ, Len(text[w]))
    BY <1>2, <1>12, Zenon DEF Write
  <2>2. /\ request[w] \in Requests /\ disk[path(w)] \in Contents
        /\ path(w) \notin edited => text[w] \in Texts(path(w)) /\ pos[w] \in 0..Len(text[w])
    BY <1>1, <2>1, Zenon DEF WorkerInv, Reading
  <2>3. path(w) \notin edited => pos'[w] \in 0..Len(text[w])
    <3>1. path(w) \notin edited => Len(text[w]) \in Nat
      BY <2>2, TextFacts, Zenon
    <3>2. BUFSIZ \in Nat
      BY ContentsAssumption, Zenon
    <3> QED BY <2>1, <2>2, <3>1, <3>2, SMT DEF Least
  <2> QED BY <1>1, <2>1, <2>2, <2>3, Zenon DEF WorkerInv, Reading, path, Texts
<1> QED BY <1>4, <1>6, <1>7, <1>8, <1>9, <1>10, <1>11, <1>12, Zenon DEF WorkerStep


-----------------------------------------------------------------------------
(* A step that neither opens nor writes the output: no thread that had bytes  *)
(* to write has gone.                                                        *)
LEMMA QuietFiles ==
  ASSUME IInv, NEW w \in Workers, WorkerStep(w), NEW p \in Paths \ edited, Opened(p),
         output'[p] = output[p], Writing(w, p) => pos[w] = Len(text[w])
  PROVE  FileInv(p)'
<1>1. FileInv(p) /\ disk' = disk /\ \A v \in Workers : v # w => Same(v)
  BY StepFrame, Zenon DEF IInv
<1>2. ASSUME NEW i \in 1..Len(Longest(Compressed(disk[p]))), Coming(p, i)
      PROVE  Coming(p, i)'
  <2>1. PICK v \in Workers : Writing(v, p) /\ pos[v] < i /\ i <= Len(text[v])
    BY <1>2, Zenon DEF Coming
  <2>2. v # w
    <3>1. disk[p] \in Contents /\ v = w => text[w] \in Texts(p) /\ pos[w] = Len(text[w])
      BY <2>1, Zenon DEF IInv, WorkerInv, Writing
    <3>2. v = w => Len(text[w]) \in Nat /\ pos[w] = Len(text[w])
      BY <1>1, <3>1, TextFacts, Zenon DEF FileInv
    <3> QED BY <2>1, <3>2
  <2> QED BY <1>1, <2>1, <2>2, Zenon DEF Coming, Writing, Same, path
<1> QED BY <1>1, <1>2, Zenon DEF FileInv


(* The output of a request that has been served was opened by its thread. *)
LEMMA OpenedBefore ==
  ASSUME IInv, NEW w \in Workers, WorkerStep(w), NEW p, Opened(p)',
         ~ (OpenOutput(w) /\ fds # FdLimit /\ path(w) = p)
  PROVE  Opened(p)
<1> USE DEF file_vars, locals
<1>1. failed \subseteq failed' /\ \A v \in Workers : v # w => Same(v)
  BY StepFrame, Zenon DEF IInv
<1>2. \A e : [pc EXCEPT ![w] = e][w] = e
  BY ExceptFacts, Zenon DEF IInv
<1>3. \A l : Go(w, l) => pc'[w] = l
  BY <1>2, Zenon DEF Go
<1>4. ASSUME NEW v \in Workers, v # w, Writing(v, p)' \/ Wrote(v, p)'
      PROVE  Opened(p)
  <2>1. Writing(v, p) \/ Wrote(v, p)
    BY <1>1, <1>4, Zenon DEF Writing, Wrote, Same, path
  <2> QED BY <2>1, Zenon DEF Opened
<1>5. ASSUME pc'[w] = "write" \/ (pc'[w] = "done" /\ request[w] \notin failed')
      PROVE  UNCHANGED request /\ (pc[w] = "write" \/ (OpenOutput(w) /\ fds # FdLimit))
  <2>1. ~ (Take(w) \/ Measure(w) \/ ReadSource(w) \/ Compress(w) \/ MarkDone(w))
    BY <1>3, <1>5, Zenon DEF Take, Measure, ReadSource, Compress, MarkDone
  <2>2. ~ ReadFails(w) /\ ~ OpenSource(w)
    BY <1>3, <1>5, Zenon DEF ReadFails, OpenSource, Return
  <2>3. OpenOutput(w) => UNCHANGED request /\ fds # FdLimit
    BY <1>3, <1>5, Zenon DEF OpenOutput, Return
  <2> QED BY <2>1, <2>2, <2>3, Zenon DEF WorkerStep, Write, Close
<1>6. ASSUME Writing(w, p)' \/ Wrote(w, p)'
      PROVE  Opened(p)
  <2>1. UNCHANGED request /\ pc[w] = "write" /\ path(w) = p
    <3>1. pc'[w] = "write" \/ (pc'[w] = "done" /\ request'[w] \notin failed')
      BY <1>6, Zenon DEF Writing, Wrote
    <3>2. CASE Take(w)
      BY <1>3, <3>1, <3>2, Zenon DEF Take
    <3>3. CASE ~Take(w)
      <4>1. UNCHANGED request
        BY <3>3, Zenon DEF WorkerStep, OpenSource, ReadFails, Measure, ReadSource, Compress,
                           OpenOutput, Write, Close, MarkDone
      <4> QED BY <1>5, <1>6, <3>1, <4>1, Zenon DEF Writing, Wrote, path
    <3> QED BY <3>2, <3>3
  <2> QED BY <2>1, Zenon DEF Opened, Writing
<1>7. ASSUME NEW r \in Requests, ServedOn(r, p)'
      PROVE  Opened(p)
  <2>1. r \notin failed /\ PathOf[r] = p /\ state'[r] = "done"
    BY <1>1, <1>7, Zenon DEF ServedOn
  <2>2. CASE state[r] = "done"
    BY <2>1, <2>2, Zenon DEF Opened, ServedOn
  <2>3. CASE state[r] # "done"
    <3>1. pc[w] = "done" /\ request[w] = r
      <4>1. IsFcn(state, Requests)
        BY Zenon DEF IInv, Types
      <4>2. Take(w) => state'[r] = "taken" \/ state'[r] = state[r]
        BY <4>1, SMT DEF Take, IsFcn
      <4>3. MarkDone(w) => state'[r] = state[r] \/ request[w] = r
        BY <4>1, SMT DEF MarkDone, IsFcn
      <4> QED BY <2>1, <2>3, <4>2, <4>3, Zenon
              DEF WorkerStep, OpenSource, ReadFails, Measure, ReadSource, Compress, OpenOutput,
                  Write, Close, MarkDone
    <3> QED BY <2>1, <3>1, Zenon DEF Opened, Wrote, path
  <2> QED BY <2>2, <2>3
<1> QED BY <1>4, <1>6, <1>7, Zenon DEF Opened


(* Lengths: a text of t bytes, its bytes from a to n written over a file of  *)
(* f bytes, where the longest text has F and the shortest l.                 *)
Lengths(F, l, f, t, a, n, g) ==
  /\ g <= F
  /\ \A i \in 1..F : /\ a < i /\ i <= n => i <= g /\ i \in 1..g /\ i \in 1..t /\ i > a
                     /\ i <= f => i <= g /\ i \in 1..g
                     /\ i > l /\ i > f => i > g \/ (a < i /\ i <= n)
                     /\ i > a <=> a < i

(* They are as they should be. *)
LEMMA WrittenLengths ==
  ASSUME NEW F \in Nat, NEW l \in Nat, NEW f \in Nat, NEW t \in Nat, NEW a \in Nat, NEW n \in Nat,
         F <= l + 1, f <= F, t <= F, a < n, n <= t
  PROVE  Lengths(F, l, f, t, a, n, IF f > n THEN f ELSE n)
BY SMT DEF Lengths

(* The file g has of F what f had of it and the bytes from a to n besides,   *)
(* and no gap where nobody is going to write.                                *)
Better(F, l, f, a, n, g) ==
  /\ Len(g) <= Len(F)
  /\ \A i \in 1..Len(F) :
       /\ a < i /\ i <= n => i <= Len(g) /\ g[i] = F[i]
       /\ i <= Len(f) /\ f[i] = F[i] => i <= Len(g) /\ g[i] = F[i]
       /\ i > l /\ i > Len(f) => i > Len(g) \/ (i <= Len(g) /\ g[i] = F[i])

(* So it is when bytes of a text t are written over f, where t is the        *)
(* longest text F, or lacks its last byte.                                   *)
LEMMA WrittenBytes ==
  ASSUME NEW F \in Seq(Int), NEW l \in Nat, Len(F) <= l + 1,
         NEW f \in Seq(Int), Len(f) <= Len(F),
         NEW t \in Seq(Int), Len(t) <= Len(F), \A i \in 1..Len(t) : t[i] = F[i],
         NEW a \in Nat, NEW n \in Nat, a < n, n <= Len(t),
         NEW g, Overwritten(f, t, a, n, g)
  PROVE  Better(F, l, f, a, n, g)
<1>1. Len(F) \in Nat /\ Len(f) \in Nat /\ Len(t) \in Nat
  OBVIOUS
<1>2. /\ Len(g) = IF Len(f) > n THEN Len(f) ELSE n
      /\ \A i \in 1..Len(g) :
           g[i] = IF i > a /\ i <= n THEN t[i] ELSE IF i <= Len(f) THEN f[i] ELSE 0
  BY Zenon DEF Overwritten
<1>3. Lengths(Len(F), l, Len(f), Len(t), a, n, IF Len(f) > n THEN Len(f) ELSE n)
  BY <1>1, WrittenLengths, Zenon
<1>4. Lengths(Len(F), l, Len(f), Len(t), a, n, Len(g))
  BY <1>2, <1>3, Zenon
<1>5. ASSUME NEW i \in 1..Len(F), a < i, i <= n
      PROVE  i <= Len(g) /\ g[i] = F[i]
  BY <1>2, <1>4, <1>5, Zenon DEF Lengths
<1>6. ASSUME NEW i \in 1..Len(F), i <= Len(f), f[i] = F[i], ~ (a < i /\ i <= n)
      PROVE  i <= Len(g) /\ g[i] = F[i]
  BY <1>2, <1>4, <1>6, Zenon DEF Lengths
<1> QED BY <1>4, <1>5, <1>6, Zenon DEF Lengths, Better

(* Write(w) on the output of its own request. *)
LEMMA WriteKeeps ==
  ASSUME IInv, NEW w \in Workers, WorkerStep(w), Write(w),
         NEW p \in Paths \ edited, p = path(w)
  PROVE  FileInv(p)'
<1> DEFINE c == Compressed(disk[p])
           n == Least(pos[w] + BUFSIZ, Len(text[w]))
<1>1. Writing(w, p) /\ pos[w] < Len(text[w])
  BY Zenon DEF Write, Writing
<1>2. FileInv(p) /\ WorkerInv(w)
  BY <1>1, Zenon DEF IInv, Opened
<1>3. /\ disk[p] \in Contents /\ output[p] \in Seq(Int) /\ Len(output[p]) <= Len(Longest(c))
      /\ \A i \in 1..Len(Longest(c)) :
           Holds(output[p], c, i) \/ Coming(p, i) \/ MayLack(output[p], c, i)
  BY <1>2, Zenon DEF FileInv
<1>4. text[w] \in Texts(p) /\ pos[w] \in 0..Len(text[w])
  BY <1>1, <1>2, Zenon DEF WorkerInv, Writing
<1>5. /\ c \in Seq(Int) /\ text[w] \in Seq(Int) /\ Len(text[w]) \in Nat
      /\ Len(text[w]) <= Len(Longest(c)) /\ \A i \in 1..Len(text[w]) : text[w][i] = Longest(c)[i]
  BY <1>3, <1>4, TextFacts, Zenon
<1>6. /\ Longest(c) \in Seq(Int) /\ Shortest(c) \in Seq(Int)
      /\ Len(Longest(c)) <= Len(Shortest(c)) + 1
  BY <1>5, PrintedFacts, Zenon
<1>7. Len(Shortest(c)) \in Nat
  BY <1>6
<1>8. pos[w] \in Nat /\ n \in Nat /\ pos[w] < n /\ n <= Len(text[w])
  <2>1. BUFSIZ \in Nat \ {0}
    BY ContentsAssumption, Zenon
  <2> QED BY <1>1, <1>4, <1>5, <2>1, SMT DEF Least
<1>9. /\ output'[p] = WriteAt(output[p], pos[w], SubSeq(text[w], pos[w] + 1, n))
      /\ pos'[w] = n
  <2>1. IsFcn(output, Paths) /\ \A e : [pos EXCEPT ![w] = e][w] = e
    BY ExceptFacts, Zenon DEF IInv, Types
  <2>2. pos'[w] = n
    BY <2>1, Zenon DEF Write
  <2>3. output' = [output EXCEPT ![p] = WriteAt(output[p], pos[w], SubSeq(text[w], pos[w] + 1, n))]
    BY Zenon DEF Write
  <2>4. \A e : [output EXCEPT ![p] = e][p] = e
    <3>1. p \in Paths
      BY Zenon
    <3> QED BY <2>1, <3>1, SMT DEF IsFcn
  <2> QED BY <2>2, <2>3, <2>4, Zenon
<1>10. /\ disk' = disk /\ UNCHANGED <<pc, request, text>>
       /\ \A v \in Workers : v # w => Same(v)
  BY StepFrame, Zenon DEF IInv, Write
<1> HIDE DEF n
<1>11. /\ output'[p] \in Seq(Int) /\ Len(output'[p]) <= Len(Longest(c))
       /\ \A i \in 1..Len(Longest(c)) :
            /\ pos[w] < i /\ i <= n => Holds(output'[p], c, i)
            /\ Holds(output[p], c, i) => Holds(output'[p], c, i)
            /\ MayLack(output[p], c, i) => MayLack(output'[p], c, i) \/ Holds(output'[p], c, i)
  <2> DEFINE F == Longest(c)
             l == Len(Shortest(c))
             f == output[p]
             t == text[w]
             a == pos[w]
             g == output'[p]
  <2>1. /\ F \in Seq(Int) /\ l \in Nat /\ Len(F) <= l + 1 /\ f \in Seq(Int) /\ Len(f) <= Len(F)
        /\ t \in Seq(Int) /\ Len(t) <= Len(F) /\ \A i \in 1..Len(t) : t[i] = F[i]
        /\ a \in Nat /\ n \in Nat /\ a < n /\ n <= Len(t)
        /\ g = WriteAt(f, a, SubSeq(t, a + 1, n))
    BY <1>3, <1>5, <1>6, <1>7, <1>8, <1>9, Zenon
  <2>2. \A i : /\ Holds(g, c, i) <=> i <= Len(g) /\ g[i] = F[i]
               /\ Holds(f, c, i) <=> i <= Len(f) /\ f[i] = F[i]
               /\ MayLack(f, c, i) <=> i > l /\ i > Len(f)
               /\ i > l /\ i > Len(g) => MayLack(g, c, i)
    BY Zenon DEF Holds, MayLack
  <2> HIDE DEF c, F, l, f, t, a, g
  <2>3. a <= n
    BY <2>1
  <2>4. Overwritten(f, t, a, n, g)
    BY <2>1, <2>3, WriteFacts, Zenon
  <2>5. Better(F, l, f, a, n, g)
    BY <2>1, <2>4, WrittenBytes, Zenon
  <2>6. \A i \in 1..Len(F) :
          /\ a < i /\ i <= n => Holds(g, c, i)
          /\ Holds(f, c, i) => Holds(g, c, i)
          /\ MayLack(f, c, i) => MayLack(g, c, i) \/ Holds(g, c, i)
    BY <2>2, <2>5, ZenonT(60) DEF Better
  <2> QED BY <2>4, <2>5, <2>6, Zenon DEF F, f, a, g, Overwritten, Better
<1>12. ASSUME NEW i \in 1..Len(Longest(c)), Coming(p, i), ~ (pos[w] < i /\ i <= n)
       PROVE  Coming(p, i)'
  <2>1. PICK v \in Workers : Writing(v, p) /\ pos[v] < i /\ i <= Len(text[v])
    BY <1>12, Zenon DEF Coming
  <2>2. v = w => n < i
    BY <1>6, <1>8, <1>12, <2>1, SMT
  <2>3. pos'[v] < i /\ i <= Len(text'[v]) /\ Writing(v, p)'
    BY <1>1, <1>9, <1>10, <2>1, <2>2, Zenon DEF Writing, Same, path
  <2> QED BY <2>3, <1>10, Zenon DEF Coming, Writing, path
<1> QED BY <1>3, <1>10, <1>11, <1>12, Zenon DEF FileInv, path


(* OpenOutput(w) truncates the output, and w has all of its text to write. *)
LEMMA OpenKeeps ==
  ASSUME IInv, NEW w \in Workers, WorkerStep(w), OpenOutput(w), fds # FdLimit,
         NEW p \in Paths \ edited, p = path(w)
  PROVE  FileInv(p)'
<1> DEFINE c == Compressed(disk[p])
<1>1. disk[p] \in Contents /\ text[w] \in Texts(p)
  BY Zenon DEF IInv, WorkerInv, OpenOutput, Reading
<1>2. /\ c \in Seq(Int) /\ Len(text[w]) \in Nat /\ Len(Shortest(c)) <= Len(text[w])
  BY <1>1, TextFacts, Zenon
<1>3. Longest(c) \in Seq(Int) /\ Shortest(c) \in Seq(Int)
  BY <1>2, PrintedFacts, Zenon
<1>4. Len(Longest(c)) \in Nat /\ Len(Shortest(c)) \in Nat
  BY <1>3
<1>5. disk' = disk /\ UNCHANGED <<request, text>> /\ pc'[w] = "write" /\ pos'[w] = 0
  <2>1. \A e : [pos EXCEPT ![w] = e][w] = e /\ [pc EXCEPT ![w] = e][w] = e
    BY ExceptFacts, Zenon DEF IInv
  <2> QED BY <2>1, Zenon DEF OpenOutput, Go
<1>6. output'[p] = << >>
  <2>1. IsFcn(output, Paths) /\ p \in Paths
    BY Zenon DEF IInv, Types
  <2>2. output' = [output EXCEPT ![p] = << >>]
    BY Zenon DEF OpenOutput
  <2> QED BY <2>1, <2>2, SMT DEF IsFcn
<1>7. output'[p] \in Seq(Int) /\ Len(output'[p]) = 0
  BY <1>6
<1>8. ASSUME NEW i \in 1..Len(Longest(c))
      PROVE  Coming(p, i)' \/ MayLack(output'[p], c, i)
  <2>1. 0 < i /\ i > 0 /\ (i <= Len(Shortest(c)) => i <= Len(text[w]))
        /\ (i > Len(Shortest(c)) \/ i <= Len(Shortest(c)))
    BY <1>2, <1>4, SMT
  <2>2. CASE i <= Len(Shortest(c))
    BY <1>5, <2>1, <2>2, Zenon DEF Coming, Writing, path
  <2>3. CASE i > Len(Shortest(c))
    BY <1>7, <2>1, <2>3, Zenon DEF MayLack
  <2> QED BY <2>1, <2>2, <2>3
<1>9. Len(output'[p]) <= Len(Longest(c))
  BY <1>4, <1>7, SMT
<1> QED BY <1>1, <1>5, <1>7, <1>8, <1>9, Zenon DEF FileInv, path

(* What any step of a thread does to the outputs. *)
LEMMA FilesKeep ==
  ASSUME IInv, NEW w \in Workers, WorkerStep(w), NEW p \in Paths \ edited, Opened(p)'
  PROVE  FileInv(p)'
<1> USE DEF file_vars, locals
<1>1. CASE OpenOutput(w) /\ fds # FdLimit /\ path(w) = p
  BY <1>1, OpenKeeps, Zenon
<1>2. CASE Write(w) /\ path(w) = p
  BY <1>2, WriteKeeps, Zenon
<1>3. ASSUME ~ (OpenOutput(w) /\ fds # FdLimit /\ path(w) = p), ~ (Write(w) /\ path(w) = p)
      PROVE  FileInv(p)'
  <2>1. Opened(p)
    BY <1>3, OpenedBefore, Zenon
  <2>2. output'[p] = output[p]
    <3>1. IsFcn(output, Paths) /\ p \in Paths
      BY Zenon DEF IInv, Types
    <3>2. UNCHANGED output \/ \E q, e : q # p /\ output' = [output EXCEPT ![q] = e]
      BY <1>3, Zenon DEF WorkerStep, Take, OpenSource, ReadFails, Measure, ReadSource, Compress,
                         OpenOutput, Write, Close, MarkDone
    <3> QED BY <3>1, <3>2, SMT DEF IsFcn
  <2>3. Writing(w, p) => pos[w] = Len(text[w])
    BY <1>3, Zenon DEF Writing, WorkerStep, Take, OpenSource, ReadFails, Measure, ReadSource,
                       Compress, OpenOutput, Close, MarkDone
  <2> QED BY <2>1, <2>2, <2>3, QuietFiles, Zenon
<1> QED BY <1>1, <1>2, <1>3, Zenon

(* A user's edit of q leaves every other file, and q is in edited then. *)
LEMMA EditKeeps ==
  ASSUME IInv, NEW q \in Paths, Edit(q)
  PROVE  IInv'
<1> USE DEF locals
<1>1. /\ disk \in [Paths -> Contents \cup {NoFile}] /\ UNCHANGED <<output, state, pc, failed>>
      /\ UNCHANGED <<request, buf_size, source_len, source, text, pos>>
      /\ edited' = edited \cup {q}
  BY Zenon DEF IInv, Types, Edit
<1>2. PICK s \in Contents : disk' = [disk EXCEPT ![q] = s]
  BY Zenon DEF Edit
<1>3. /\ disk' \in [Paths -> Contents \cup {NoFile}] /\ disk'[q] \in Contents
      /\ \A p \in Paths : p # q => disk'[p] = disk[p]
  BY <1>1, <1>2
<1>4. Types'
  BY <1>1, <1>3, Zenon DEF IInv, Types, IsFcn
<1>5. ASSUME NEW w \in Workers PROVE WorkerInv(w)'
  <2>1. WorkerInv(w)
    BY Zenon DEF IInv
  <2>2. pc[w] # "idle" => path(w) \in Paths
    BY <2>1, Zenon DEF WorkerInv, path, Paths
  <2>3. pc[w] \in Reading => pc[w] # "idle" /\ disk'[path(w)] \in Contents
    BY <1>3, <2>1, <2>2, Zenon DEF WorkerInv, Reading
  <2>4. path(w) \notin edited' /\ pc[w] # "idle"
          => path(w) \notin edited /\ disk'[path(w)] = disk[path(w)]
    BY <1>1, <1>3, <2>2, Zenon
  <2> QED BY <1>1, <2>1, <2>3, <2>4, Zenon DEF WorkerInv, path, Texts
<1>6. ASSUME NEW p \in Paths \ edited', Opened(p)' PROVE FileInv(p)'
  <2>1. p \in Paths \ edited /\ disk'[p] = disk[p]
    BY <1>1, <1>3, <1>6, Zenon
  <2>2. Opened(p)
    BY <1>1, <1>6, Zenon DEF Opened, Writing, Wrote, ServedOn, path
  <2>3. FileInv(p)
    BY <2>1, <2>2, Zenon DEF IInv
  <2> QED BY <1>1, <2>1, <2>3, Zenon DEF FileInv, Coming, Writing, path
<1> QED BY <1>4, <1>5, <1>6, Zenon DEF IInv

-----------------------------------------------------------------------------
(* The invariant of the threads and the files. *)
LEMMA FilesInvariant == Spec => []IInv
<1>1. Init => IInv
  <2> SUFFICES ASSUME Init PROVE IInv
    OBVIOUS
  <2>1. Types
    BY SMT DEF Init, Types, IsFcn
  <2>2. \A w \in Workers : pc[w] = "idle"
    BY Zenon DEF Init
  <2>3. \A r \in Requests : state[r] # "done"
    BY Zenon DEF Init
  <2> QED BY <2>1, <2>2, <2>3, Zenon DEF IInv, WorkerInv, Reading, Opened, Writing, Wrote, ServedOn
<1>2. IInv /\ [Next]_vars => IInv'
  <2> SUFFICES ASSUME IInv, [Next]_vars PROVE IInv'
    OBVIOUS
  <2>1. ASSUME NEW w \in Workers, WorkerStep(w) PROVE IInv'
    <3>1. Types' /\ edited' = edited
      BY <2>1, StepFrame, Zenon DEF IInv
    <3>2. \A v \in Workers : WorkerInv(v)'
      BY <2>1, OwnKeeps, OthersKeep, Zenon
    <3>3. \A p \in Paths \ edited : Opened(p)' => FileInv(p)'
      BY <2>1, FilesKeep, Zenon
    <3> QED BY <3>1, <3>2, <3>3, Zenon DEF IInv
  <2>2. CASE UNCHANGED vars
    BY <2>2, Zenon DEF vars, file_vars, locals, IInv, Types, IsFcn, WorkerInv, Texts, Opened,
       Writing, Wrote,
                       ServedOn, FileInv, Coming, path
  <2> QED BY <2>1, <2>2, EditKeeps, Zenon DEF Next, Finished
<1> QED BY <1>1, <1>2, PTL DEF Spec

(* However many threads compress one file at the same time, and whichever of *)
(* them fail: once one has succeeded and none has the output open, it is     *)
(* what one of them alone would have left.                                   *)
THEOREM OneOutput == Spec => []SettledFile
<1>1. IInv => SettledFile
  <2> SUFFICES ASSUME IInv, NEW p \in Paths \ edited, Settled(p)
               PROVE  output[p] \in Texts(p)
    BY Zenon DEF SettledFile, Texts
  <2> DEFINE c == Compressed(disk[p])
             o == output[p]
  <2>1. FileInv(p)
    BY Zenon DEF IInv, Settled, Opened, ServedOn
  <2>2. \A i : ~ Coming(p, i)
    BY Zenon DEF Settled, Coming, Writing
  <2>3. /\ disk[p] \in Contents /\ o \in Seq(Int) /\ Len(o) <= Len(Longest(c))
        /\ \A i \in 1..Len(Longest(c)) : Holds(o, c, i) \/ MayLack(o, c, i)
    BY <2>1, <2>2, Zenon DEF FileInv
  <2>4. c \in Seq(Int)
    BY <2>3, CompressedType, Zenon
  <2>5. /\ Longest(c) \in Seq(Int) /\ Shortest(c) \in Seq(Int)
        /\ Len(Shortest(c)) <= Len(Longest(c))
    BY <2>4, PrintedFacts, Zenon
  <2> HIDE DEF c, o
  <2>6. Len(o) \in Nat /\ Len(Longest(c)) \in Nat /\ Len(Shortest(c)) \in Nat
    BY <2>3, <2>5
  <2>7. Len(Shortest(c)) <= Len(o) /\ \A i \in 1..Len(o) : o[i] = Longest(c)[i]
    <3>1. ~ (Len(o) + 1 <= Len(o)) /\ \A i \in 1..Len(o) : ~ (i > Len(o))
      BY <2>6, SMT
    <3>2. 1..Len(o) \subseteq 1..Len(Longest(c))
      BY <2>3, <2>6, SMT
    <3>3. ~ (Len(Shortest(c)) <= Len(o)) =>
            Len(o) + 1 \in 1..Len(Longest(c)) /\ ~ (Len(o) + 1 > Len(Shortest(c)))
      BY <2>5, <2>6, SMT
    <3> QED BY <2>3, <3>1, <3>2, <3>3, Zenon DEF Holds, MayLack
  <2>8. Agrees(o, c)
    BY <2>3, <2>7, Zenon DEF Agrees
  <2> QED BY <2>4, <2>7, <2>8, PrintedFacts, Zenon DEF Texts, c, o
<1> QED BY <1>1, FilesInvariant, PTL

(* For every file that nobody rewrites, however many requests name it, the   *)
(* buffer of compress_service is as large as snappy_compress asks.           *)
THEOREM BufferLargeEnough == Spec => []ContractUnedited
<1>1. IInv => ContractUnedited
  <2> SUFFICES ASSUME IInv, NEW w \in Workers, path(w) \notin edited, pc[w] = "compress"
               PROVE  compressed_len(source_len[w]) >= snappy_max_compressed_length(buf_size[w])
    BY Zenon DEF ContractUnedited, Contract
  <2>1. /\ source_len[w] = buf_size[w] /\ buf_size[w] = Len(disk[path(w)])
        /\ disk[path(w)] \in Contents
    BY Zenon DEF IInv, WorkerInv, Reading
  <2>2. source_len[w] = buf_size[w] /\ buf_size[w] \in Nat
    BY <2>1, ReadFacts, Zenon
  <2> QED BY <2>2, SMT DEF compressed_len, snappy_max_compressed_length
<1> QED BY <1>1, FilesInvariant, PTL
=============================================================================
