---------------------------- MODULE SnappyProofs ----------------------------
(* The compressor's properties for every file, block size and hash function: *)
(* facts about arithmetic, sequences and the format, an inductive invariant, *)
(* and the theorems that follow from it.                                     *)
EXTENDS Snappy, TLAPS, WellFoundedInduction

-----------------------------------------------------------------------------
(* Arithmetic. *)

(* Every non-empty set of natural numbers has a least element. *)
LEMMA LeastNat ==
  ASSUME NEW T, T \subseteq Nat, T # {}
  PROVE  \E x \in T : \A y \in T : x <= y
<1>1. \E x \in T : \A y \in T : ~(<<y, x>> \in OpToRel(<, Nat))
  BY WFMin, NatLessThanWellFounded, ZenonT(60)
<1>2. PICK x \in T : \A y \in T : ~(<<y, x>> \in OpToRel(<, Nat))
  BY <1>1, ZenonT(60)
<1>3. ASSUME NEW y \in T PROVE x <= y
  <2>1. ~(y < x)
    BY <1>2, ZenonT(60) DEF OpToRel
  <2> QED BY <2>1
<1> QED BY <1>3

(* Quotient and remainder. *)
LEMMA DivMod ==
  ASSUME NEW a \in Nat, NEW b \in Nat, b > 0
  PROVE  a = b * (a \div b) + (a % b) /\ a \div b \in Nat /\ a % b \in 0..(b - 1)
OBVIOUS

LEMMA MulMonotone ==
  ASSUME NEW b \in Nat, NEW x \in Int, NEW y \in Int, x >= y + 1
  PROVE  b * x >= b * y + b
<1>1. b * (x - (y + 1)) >= 0
  OBVIOUS
<1>2. b * (x - (y + 1)) = b * x - (b * y + b)
  OBVIOUS
<1> QED BY <1>1, <1>2

(* The remainder is determined by the number it is the remainder of. *)
LEMMA RemainderUnique ==
  ASSUME NEW b \in Nat, b > 0, NEW q \in Int, NEW r \in 0..(b - 1),
         NEW s \in Int, NEW t \in 0..(b - 1), b * q + r = b * s + t
  PROVE  r = t
<1>1. b * q \in Int /\ b * s \in Int
  OBVIOUS
<1>2. ~(q >= s + 1)
  BY <1>1, MulMonotone
<1>3. ~(s >= q + 1)
  BY <1>1, MulMonotone
<1>4. q = s
  BY <1>2, <1>3
<1> QED BY <1>1, <1>4

LEMMA ModShift ==
  ASSUME NEW a \in Nat, NEW b \in Nat, b > 0, a >= b
  PROVE  (a - b) % b = a % b
<1>1. a = b * (a \div b) + (a % b) /\ a \div b \in Int /\ a % b \in 0..(b - 1)
  BY DivMod
<1>2. a - b \in Nat
  OBVIOUS
<1>3. /\ a - b = b * ((a - b) \div b) + ((a - b) % b)
      /\ (a - b) \div b \in Int /\ (a - b) % b \in 0..(b - 1)
  BY DivMod, <1>2
<1>4. b * ((a - b) \div b + 1) = b * ((a - b) \div b) + b
  BY <1>3
<1>5. b * ((a - b) \div b + 1) + ((a - b) % b) = b * (a \div b) + (a % b)
  BY <1>1, <1>3, <1>4
<1>6. (a - b) \div b + 1 \in Int
  BY <1>3
<1> QED BY RemainderUnique, <1>1, <1>3, <1>5, <1>6, ZenonT(60)

(* Bytes that agree with those at distance offset repeat with period offset. *)
Periodic(f, n, offset, len) == \A j \in (n + 1)..(n + len) : f[j] = f[j - offset]

LEMMA PeriodicBytes ==
  ASSUME NEW f, NEW n \in Nat, NEW offset \in 1..n, NEW len \in Nat,
         Periodic(f, n, offset, len)
  PROVE  \A i \in 1..len : f[n + i] = f[n - offset + 1 + ((i - 1) % offset)]
<1> DEFINE Wrong == {i \in 1..len : f[n + i] # f[n - offset + 1 + ((i - 1) % offset)]}
<1>1. SUFFICES ASSUME Wrong # {} PROVE FALSE
  BY Zenon
<1> HIDE DEF Wrong
<1>2. PICK i \in Wrong : \A j \in Wrong : i <= j
  <2>1. Wrong \subseteq Nat
    BY DEF Wrong
  <2> QED BY <1>1, <2>1, LeastNat, ZenonT(60)
<1>3. i \in 1..len /\ f[n + i] = f[n + i - offset]
  BY <1>2 DEF Wrong, Periodic
<1>4. CASE i <= offset
  <2>1. (i - 1) % offset = i - 1
    BY <1>3, <1>4
  <2> QED BY <1>2, <1>3, <2>1 DEF Wrong
<1>5. CASE i > offset
  <2>1. i - offset \in 1..len /\ i - offset \notin Wrong
    <3>1. i - offset \in 1..len /\ ~(i <= i - offset)
      BY <1>3, <1>5
    <3> QED BY <1>2, <3>1
  <2>2. f[n + (i - offset)] = f[n - offset + 1 + (((i - offset) - 1) % offset)]
    BY <2>1 DEF Wrong
  <2>3. ((i - 1) - offset) % offset = (i - 1) % offset
    <3>1. i - 1 \in Nat /\ offset \in Nat /\ offset > 0 /\ i - 1 >= offset
      BY <1>3, <1>5
    <3> QED BY <3>1, ModShift, ZenonT(60)
  <2>4. (i - offset) - 1 = (i - 1) - offset /\ n + (i - offset) = n + i - offset
    BY <1>3
  <2> QED BY <1>2, <1>3, <2>2, <2>3, <2>4 DEF Wrong
<1> QED BY <1>3, <1>4, <1>5

-----------------------------------------------------------------------------
(* Sequences. *)

LEMMA Concat ==
  ASSUME NEW S, NEW s \in Seq(S), NEW t \in Seq(S)
  PROVE  /\ s \o t \in Seq(S)
         /\ Len(s \o t) = Len(s) + Len(t)
         /\ \A i \in 1..Len(s) : (s \o t)[i] = s[i]
         /\ \A i \in 1..Len(t) : (s \o t)[Len(s) + i] = t[i]
OBVIOUS

LEMMA Element == ASSUME NEW S, NEW s \in Seq(S), NEW j \in 1..Len(s) PROVE s[j] \in S
OBVIOUS

LEMMA Slice ==
  ASSUME NEW S, NEW s \in Seq(S), NEW m \in Nat, NEW n \in Nat, m <= n, n <= Len(s)
  PROVE  /\ SubSeq(s, m + 1, n) \in Seq(S)
         /\ Len(SubSeq(s, m + 1, n)) = n - m
         /\ \A i \in 1..(n - m) : SubSeq(s, m + 1, n)[i] = s[m + i]
OBVIOUS

-----------------------------------------------------------------------------
(* The format. *)

Byte == 0..255

(* The prefix with the length takes at most five bytes. *)
LEMMA VarintSize ==
  ASSUME NEW v \in Nat, v <= INT_MAX
  PROVE  varint_encode32(v) \in Seq(Byte) /\ Len(varint_encode32(v)) \in 1..5
<1> DEFINE low(n) == 128 + ((v \div n) % 128)
<1>0. low(1) \in Byte /\ low(128) \in Byte /\ low(16384) \in Byte /\ low(2097152) \in Byte
  BY SMT DEF Byte
<1>1. CASE v < 128
  <2>1. varint_encode32(v) = <<v>>
    BY <1>1, SMT DEF varint_encode32
  <2> QED BY <1>1, <2>1, SMT DEF Byte
<1>2. CASE v >= 128 /\ v < 16384
  <2>1. varint_encode32(v) = <<low(1), v \div 128>>
    BY <1>2, SMT DEF varint_encode32
  <2>2. v \div 128 \in Byte
    BY <1>2, SMT DEF Byte
  <2> QED BY <1>0, <2>1, <2>2, SMT
<1>3. CASE v >= 16384 /\ v < 2097152
  <2>1. varint_encode32(v) = <<low(1), low(128), v \div 16384>>
    BY <1>3, SMT DEF varint_encode32
  <2>2. v \div 16384 \in Byte
    BY <1>3, SMT DEF Byte
  <2> QED BY <1>0, <2>1, <2>2, SMT
<1>4. CASE v >= 2097152 /\ v < 268435456
  <2>1. varint_encode32(v) = <<low(1), low(128), low(16384), v \div 2097152>>
    BY <1>4, SMT DEF varint_encode32
  <2>2. v \div 2097152 \in Byte
    BY <1>4, SMT DEF Byte
  <2> QED BY <1>0, <2>1, <2>2, SMT
<1>5. CASE v >= 268435456
  <2>1. varint_encode32(v) = <<low(1), low(128), low(16384), low(2097152), v \div 268435456>>
    BY <1>5, SMT DEF varint_encode32
  <2>2. v \div 268435456 \in Byte
    BY <1>5, SMT DEF Byte, INT_MAX
  <2> QED BY <1>0, <2>1, <2>2, SMT
<1> HIDE DEF low
<1> QED BY <1>1, <1>2, <1>3, <1>4, <1>5, SMT

(* A literal's header is paid for by the literal's length, all but five      *)
(* sixths of a byte.                                                         *)
LEMMA HeaderSize ==
  ASSUME NEW len \in Nat, len >= 1, len <= kmax_block
  PROVE  /\ LiteralHeader(len) \in Seq(Byte)
         /\ \E h \in 1..3 : /\ Len(LiteralHeader(len)) = h
                            /\ len <= 60 => h = 1
                            /\ 6 * h <= len + 5
                            /\ len >= 6 => 6 * h <= len
<1>1. CASE len - 1 < 60
  <2>1. LiteralHeader(len) = <<4 * (len - 1)>> /\ 4 * (len - 1) \in Byte
    BY <1>1, SMT DEF LiteralHeader, LITERAL, Byte
  <2>2. LiteralHeader(len) \in Seq(Byte) /\ Len(LiteralHeader(len)) = 1
    BY <2>1, SMT
  <2> QED BY <1>1, <2>2, SMT
<1>2. CASE len - 1 \in 60..255
  <2>1. LiteralHeader(len) = <<240, len - 1>> /\ 240 \in Byte /\ len - 1 \in Byte
    BY <1>2, SMT DEF LiteralHeader, LITERAL, Byte
  <2>2. LiteralHeader(len) \in Seq(Byte) /\ Len(LiteralHeader(len)) = 2
    BY <2>1, SMT
  <2> QED BY <1>2, <2>2, SMT
<1>3. CASE len - 1 >= 256
  <2>1. /\ LiteralHeader(len) = <<244, (len - 1) % 256, (len - 1) \div 256>>
        /\ 244 \in Byte /\ (len - 1) % 256 \in Byte /\ (len - 1) \div 256 \in Byte
    BY <1>3, SMTT(60) DEF LiteralHeader, LITERAL, Byte, kmax_block
  <2>2. LiteralHeader(len) \in Seq(Byte) /\ Len(LiteralHeader(len)) = 3
    BY <2>1, SMT
  <2> QED BY <1>3, <2>2, SMTT(60)
<1> QED BY <1>1, <1>2, <1>3, SMT

(* A copy of up to 64 bytes takes two or three bytes. *)
LEMMA ShortCopySize ==
  ASSUME NEW offset \in Nat, offset >= 1, offset < kmax_block, NEW len \in 4..64
  PROVE  /\ emit_copy_less_than64(offset, len) \in Seq(Byte)
         /\ Len(emit_copy_less_than64(offset, len)) \in 2..3
         /\ len = 64 => Len(emit_copy_less_than64(offset, len)) = 3
<1>1. CASE len < 12 /\ offset < 2048
  <2> DEFINE tag == 1 + 4 * (len - 4) + 32 * (offset \div 256)
  <2>1. emit_copy_less_than64(offset, len) = <<tag, offset % 256>>
    BY <1>1, SMT DEF emit_copy_less_than64, COPY_1_BYTE_OFFSET
  <2>2. tag \in Byte /\ offset % 256 \in Byte
    BY <1>1, SMT DEF Byte
  <2> QED BY <1>1, <2>1, <2>2, SMT
<1>2. CASE ~(len < 12 /\ offset < 2048)
  <2> DEFINE tag == 2 + 4 * (len - 1)
  <2>1. emit_copy_less_than64(offset, len) = <<tag, offset % 256, offset \div 256>>
    BY <1>2, SMT DEF emit_copy_less_than64, COPY_2_BYTE_OFFSET
  <2>2. tag \in Byte /\ offset % 256 \in Byte /\ offset \div 256 \in Byte
    BY SMT DEF Byte, kmax_block
  <2> QED BY <2>1, <2>2, SMT
<1> QED BY <1>1, <1>2, SMT

(* A copy takes at least one byte and two thirds less than seven sixths of   *)
(* what it stands for.                                                       *)
LEMMA CopySize ==
  ASSUME NEW offset \in Nat, offset >= 1, offset < kmax_block, NEW len \in Nat, len >= 4
  PROVE  /\ emit_copy(offset, len) \in Seq(Byte)
         /\ 6 * Len(emit_copy(offset, len)) + 10 <= 7 * len
<1> DEFINE k == Copies64(len)
           r == len - 64 * k
           c == emit_copy_less_than64(offset, 64)
           a == [i \in 1..(3 * k) |-> c[((i - 1) % 3) + 1]]
           z == IF r > 64 THEN emit_copy_less_than64(offset, 60)
                                 \o emit_copy_less_than64(offset, r - 60)
                ELSE emit_copy_less_than64(offset, r)
<1>1. k \in Nat /\ r \in 4..67
  BY DEF Copies64
<1>2. c \in Seq(Byte) /\ Len(c) = 3
  BY ShortCopySize
<1> HIDE DEF k, c
<1>3. a \in Seq(Byte) /\ Len(a) = 3 * k
  <2>1. ASSUME NEW i \in 1..(3 * k) PROVE c[((i - 1) % 3) + 1] \in Byte
    <3>1. ((i - 1) % 3) + 1 \in 1..3
      BY <1>1
    <3> QED BY <1>2, <3>1, Element, ZenonT(60)
  <2> QED BY <2>1, <1>1
<1>4. \E n \in 2..6 : z \in Seq(Byte) /\ Len(z) = n /\ (r <= 64 => n <= 3)
  <2>1. CASE r > 64
    <3>1. r - 60 \in 4..64 /\ 60 \in 4..64 /\ ~(r <= 64)
      BY <1>1, <2>1
    <3> DEFINE x == emit_copy_less_than64(offset, 60)
               y == emit_copy_less_than64(offset, r - 60)
    <3> HIDE DEF r
    <3>2. z = x \o y
      BY <2>1
    <3>3. x \in Seq(Byte) /\ Len(x) \in 2..3
      BY <3>1, ShortCopySize
    <3>4. y \in Seq(Byte) /\ Len(y) \in 2..3
      BY <3>1, ShortCopySize, ZenonT(60)
    <3> HIDE DEF x, y, z
    <3>5. PICK m \in 2..3, n \in 2..3 : Len(x) = m /\ Len(y) = n
      BY <3>3, <3>4, Zenon
    <3>6. z \in Seq(Byte) /\ Len(z) = m + n
      BY <3>2, <3>3, <3>4, <3>5, Concat
    <3>7. m + n \in 2..6
      OBVIOUS
    <3> QED BY <3>1, <3>6, <3>7, Zenon
  <2>2. CASE r <= 64
    <3>1. r \in 4..64
      BY <1>1, <2>2
    <3> HIDE DEF r
    <3>2. z = emit_copy_less_than64(offset, r)
      BY <2>2, <3>1
    <3> HIDE DEF z
    <3>3. z \in Seq(Byte) /\ Len(z) \in 2..3
      BY <3>1, <3>2, ShortCopySize, ZenonT(60)
    <3>4. PICK n \in 2..3 : Len(z) = n
      BY <3>3, Zenon
    <3>5. n \in 2..6 /\ n <= 3
      OBVIOUS
    <3> QED BY <3>3, <3>4, <3>5, Zenon
  <2> QED BY <2>1, <2>2, <1>1
<1>5. emit_copy(offset, len) = a \o z
  BY DEF emit_copy, k, c
<1>6. 64 * k + r = len
  BY <1>1
<1> HIDE DEF a, z, r
<1>7. PICK n \in 2..6 : z \in Seq(Byte) /\ Len(z) = n /\ (r <= 64 => n <= 3)
  BY <1>4
<1>8. a \o z \in Seq(Byte) /\ Len(a \o z) = 3 * k + n
  BY <1>3, <1>7, Concat
<1>9. 6 * (3 * k + n) + 10 <= 7 * len
  BY <1>1, <1>6, <1>7
<1> QED BY <1>5, <1>8, <1>9

-----------------------------------------------------------------------------
(* The inductive invariant. *)

TypeInv ==
  /\ cpc \in {"length", "block", "scan", "match", "remainder", "written"}
  /\ input \in Seq(Bytes) /\ Len(input) <= INT_MAX
  /\ base \in Nat /\ size \in Nat
  /\ ip \in Nat /\ next_ip \in Nat /\ next_emit \in Nat /\ candidate \in Nat
  /\ skip_bytes \in Nat /\ skip_bytes >= 32
  /\ out \in Seq(Byte) /\ decoded \in Seq(Bytes)
  /\ read_end \in Nat /\ write_end \in Nat

(* A block lies in the input; only the last one may be short. *)
BlockInv ==
  /\ base + size <= Len(input) /\ size <= kblock_size
  /\ next_emit <= size
  /\ read_end <= size
  /\ cpc = "length" => base = 0 /\ size = 0 /\ next_emit = 0 /\ out = << >> /\ write_end = 0
  /\ cpc \in {"scan", "match"} => size >= 15
  /\ cpc = "remainder" => size >= 1
  /\ cpc \in {"scan", "match", "remainder"} => base + size = Len(input) \/ size = kblock_size

(* What the table holds lies before position p. *)
TableBelow(t, p) == \A h \in DOMAIN t : t[h] \in Nat /\ t[h] < p

ScanInv ==
  cpc = "scan" => /\ next_emit < next_ip /\ next_ip + 14 <= size
                  /\ next_hash = HashAt(next_ip)
                  /\ TableBelow(table, next_ip)

MatchInv ==
  cpc = "match" => /\ next_emit <= ip /\ ip + 16 <= size
                   /\ candidate < ip
                   /\ Word(ip) = Word(candidate)
                   /\ TableBelow(table, ip + 1)

(* Sixths of a byte by which the output may exceed seven sixths of the input. *)
Slack ==
  CASE cpc = "block" -> IF base + size < Len(input) THEN 30 ELSE 35
    [] cpc \in {"scan", "remainder"} -> IF next_emit = 0 THEN 30 ELSE 25
    [] OTHER -> 35

SizeInv ==
  /\ 6 * Len(out) <= 7 * Emitted + Slack
  /\ 6 * write_end <= 7 * Len(input) + 150

SInv == TypeInv /\ BlockInv /\ ScanInv /\ MatchInv /\ SizeInv /\ ElementsFaithful

(* The block size and the bytes, from the assumption on the constants. *)
LEMMA BlockSize == kblock_size \in Nat /\ kblock_size >= 6 /\ kblock_size <= kmax_block
<1> HIDE DEF kmax_block
<1>1. kmax_block \in Nat
  BY SMT DEF kmax_block
<1> QED BY <1>1, BlockAssumption, SMT

LEMMA BytesAreBytes == Bytes \subseteq Byte
BY InputAssumption, Zenon DEF Byte

LEMMA InputType == \A s \in Inputs : s \in Seq(Bytes) /\ Len(s) <= INT_MAX
BY InputAssumption, Zenon

(* What the invariant says of the properties. *)
LEMMA LookupBelow ==
  ASSUME NEW t, NEW p \in Nat, p > 0, TableBelow(t, p), NEW h
  PROVE  Lookup(t, h) \in Nat /\ Lookup(t, h) < p
BY DEF TableBelow, Lookup

LEMMA InsertBelow ==
  ASSUME NEW t, NEW p \in Nat, NEW q \in Nat, TableBelow(t, p), p <= q,
         NEW h, NEW x \in Nat, x < q
  PROVE  TableBelow(Insert(t, h, x), q)
BY DEF TableBelow, Insert

LEMMA SafeAsserts == SInv => CompressAsserts
<1> SUFFICES ASSUME SInv PROVE CompressAsserts
  OBVIOUS
<1>1. read_end <= size
  BY DEF SInv, BlockInv
<1>2. ASSUME cpc = "scan" PROVE Lookup(table, next_hash) < next_ip
  BY <1>2, LookupBelow DEF SInv, ScanInv, TypeInv
<1>3. ASSUME cpc = "match" PROVE ip + 4 <= size /\ ip - candidate < kmax_block
  <2>1. size \in Nat /\ ip \in Nat /\ candidate \in Nat /\ ip + 16 <= size /\ size <= kblock_size
    BY <1>3 DEF SInv, MatchInv, BlockInv, TypeInv
  <2> QED BY <2>1, BlockSize, SMT DEF kmax_block
<1> QED BY <1>1, <1>2, <1>3 DEF CompressAsserts, SInv, ScanInv, MatchInv

LEMMA SafeSize == SInv => OutputFits
BY DEF SInv, SizeInv, TypeInv, OutputFits, snappy_max_compressed_length

LEMMA InitSafe == CompressInit => SInv
<1> SUFFICES ASSUME CompressInit PROVE SInv
  OBVIOUS
<1>1. TypeInv
  <2>1. input \in Seq(Bytes) /\ Len(input) <= INT_MAX
    BY InputType DEF CompressInit
  <2>2. << >> \in Seq(Byte) /\ << >> \in Seq(Bytes)
    OBVIOUS
  <2> QED BY <2>1, <2>2 DEF CompressInit, TypeInv
<1>2. BlockInv
  <2>1. Len(input) \in Nat
    BY <1>1 DEF TypeInv
  <2> QED BY <2>1, BlockSize DEF CompressInit, BlockInv
<1>3. Emitted = 0
  BY DEF CompressInit, Emitted
<1>4. SizeInv
  BY <1>1, <1>3 DEF CompressInit, SizeInv, Slack, TypeInv
<1>5. ElementsFaithful
  BY <1>3 DEF CompressInit, ElementsFaithful
<1> QED BY <1>1, <1>2, <1>4, <1>5 DEF SInv, ScanInv, MatchInv, CompressInit

-----------------------------------------------------------------------------
(* What find_match_length returns. *)
LEMMA MatchLength ==
  ASSUME TypeInv, BlockInv, NEW s1 \in Nat, NEW s2 \in Nat, s2 <= size
  PROVE  /\ find_match_length(s1, s2) \in 0..(size - s2)
         /\ \A k \in 1..find_match_length(s1, s2) : input[base + s1 + k] = input[base + s2 + k]
<1> DEFINE M == Mismatches(s1, s2)
<1>1. size \in Nat /\ base \in Nat
  BY DEF TypeInv
<1>2. M \subseteq 0..(size - s2 - 1)
  BY DEF Mismatches
<1>3. \A k \in 0..(size - s2 - 1) :
        k \notin M => input[base + s1 + k + 1] = input[base + s2 + k + 1]
  BY DEF Mismatches
<1> HIDE DEF M
<1>4. CASE M = {}
  <2>1. find_match_length(s1, s2) = size - s2
    BY <1>4 DEF find_match_length, M
  <2>2. ASSUME NEW k \in 1..(size - s2) PROVE input[base + s1 + k] = input[base + s2 + k]
    <3>1. k - 1 \in 0..(size - s2 - 1)
      BY <1>1
    <3>2. base + s1 + (k - 1) + 1 = base + s1 + k /\ base + s2 + (k - 1) + 1 = base + s2 + k
      BY <1>1
    <3> QED BY <1>3, <1>4, <3>1, <3>2
  <2> QED BY <1>1, <2>1, <2>2
<1>5. CASE M # {}
  <2>1. \E x \in M : \A y \in M : x <= y
    <3>1. M \subseteq Nat
      BY <1>1, <1>2
    <3> QED BY <1>5, <3>1, LeastNat, ZenonT(60)
  <2> DEFINE n == find_match_length(s1, s2)
  <2>2. n \in M /\ \A y \in M : n <= y
    BY <1>5, <2>1 DEF find_match_length, M
  <2>3. n \in 0..(size - s2 - 1)
    BY <1>2, <2>2, ZenonT(60)
  <2> HIDE DEF n
  <2>4. ASSUME NEW k \in 1..n PROVE input[base + s1 + k] = input[base + s2 + k]
    <3>1. k - 1 \in 0..(size - s2 - 1) /\ k - 1 < n
      BY <1>1, <2>3
    <3>2. k - 1 \notin M
      BY <2>2, <2>3, <3>1
    <3>3. base + s1 + (k - 1) + 1 = base + s1 + k /\ base + s2 + (k - 1) + 1 = base + s2 + k
      BY <1>1, <3>1
    <3> QED BY <1>3, <3>1, <3>2, <3>3
  <2> QED BY <1>1, <2>3, <2>4 DEF n
<1> QED BY <1>4, <1>5

(* emit_literal: what it does to the output and to what the output stands    *)
(* for.                                                                      *)
LEMMA LiteralEffect ==
  ASSUME TypeInv, BlockInv, NEW end \in Nat, next_emit < end, end <= size,
         NEW fast \in BOOLEAN, EmitLiteral(end, fast),
         Len(decoded) = base + next_emit,
         \A i \in 1..(base + next_emit) : decoded[i] = input[i]
  PROVE  /\ out' \in Seq(Byte) /\ decoded' \in Seq(Bytes)
         /\ write_end' \in Nat /\ read_end' \in Nat
         /\ \E m \in Nat : Len(out) = m /\
              \E g \in 1..3 :
                /\ 6 * g <= (end - next_emit) + 5
                /\ end - next_emit >= 6 => 6 * g <= end - next_emit
                /\ Len(out') = m + g + (end - next_emit)
                /\ write_end' <= write_end \/ write_end' = m + g + (end - next_emit)
                     \/ (fast /\ write_end' = m + 17)
         /\ read_end' <= read_end \/ read_end' = end \/ (fast /\ read_end' = next_emit + 16)
         /\ Len(decoded') = base + end
         /\ \A i \in 1..(base + end) : decoded'[i] = input[i]
<1> DEFINE len == end - next_emit
           head == LiteralHeader(len)
           lit == SubSeq(input, base + next_emit + 1, base + end)
           short == fast /\ len <= 16
<1>1. /\ base \in Nat /\ size \in Nat /\ next_emit \in Nat /\ size <= kblock_size
      /\ read_end \in Nat /\ write_end \in Nat
  BY DEF TypeInv, BlockInv
<1>2. input \in Seq(Bytes) /\ out \in Seq(Byte) /\ decoded \in Seq(Bytes)
  BY DEF TypeInv
<1>3. len \in Nat /\ len >= 1 /\ len <= kmax_block
  <2>1. len \in Nat /\ len >= 1 /\ len <= size
    BY <1>1
  <2>2. kmax_block \in Nat /\ size <= kmax_block
    BY <1>1, BlockSize, SMT DEF kmax_block
  <2> HIDE DEF len
  <2> QED BY <1>1, <2>1, <2>2, SMT
<1>4. head \in Seq(Byte)
  BY <1>3, HeaderSize
<1>5. PICK h \in 1..3 : /\ Len(head) = h /\ (len <= 60 => h = 1)
                        /\ 6 * h <= len + 5 /\ (len >= 6 => 6 * h <= len)
  BY <1>3, HeaderSize
<1>6. /\ lit \in Seq(Bytes) /\ Len(lit) = len
      /\ \A i \in 1..len : lit[i] = input[base + next_emit + i]
  <2> DEFINE a == base + next_emit
             z == base + end
  <2>1. a \in Nat /\ z \in Nat /\ a <= z /\ z - a = len
    BY <1>1
  <2>2. z <= Len(input)
    <3>1. base + size <= Len(input) /\ Len(input) \in Nat
      BY <1>2 DEF BlockInv
    <3> QED BY <1>1, <3>1
  <2>3. lit = SubSeq(input, a + 1, z)
    OBVIOUS
  <2> HIDE DEF a, z, lit
  <2>4. /\ SubSeq(input, a + 1, z) \in Seq(Bytes)
        /\ Len(SubSeq(input, a + 1, z)) = z - a
        /\ \A i \in 1..(z - a) : SubSeq(input, a + 1, z)[i] = input[a + i]
    BY <1>2, <2>1, <2>2, Slice, SMTT(60)
  <2> HIDE DEF len
  <2> QED BY <2>1, <2>3, <2>4, Zenon DEF a
<1>7. /\ out' = out \o head \o lit
      /\ decoded' = decoded \o lit
      /\ write_end' = Max2(write_end, Len(out) + Len(head) + (IF short THEN 16 ELSE len))
      /\ read_end' = Max2(read_end, next_emit + (IF short THEN 16 ELSE len))
  BY DEF EmitLiteral
<1> HIDE DEF head, lit
<1>8. lit \in Seq(Byte)
  BY <1>6, BytesAreBytes
<1>9. PICK n \in Nat : Len(out) = n
  BY <1>2
<1>10. out' \in Seq(Byte) /\ Len(out') = n + h + len
  <2>1. out \o head \in Seq(Byte) /\ Len(out \o head) = Len(out) + Len(head)
    BY <1>2, <1>4, Concat, Zenon
  <2>2. /\ (out \o head) \o lit \in Seq(Byte)
        /\ Len((out \o head) \o lit) = Len(out \o head) + Len(lit)
    BY <1>8, <2>1, Concat, Zenon
  <2> HIDE DEF len
  <2> QED BY <1>5, <1>6, <1>7, <1>9, <2>1, <2>2, Zenon
<1>11. /\ decoded' \in Seq(Bytes) /\ Len(decoded') = base + end
       /\ \A i \in 1..(base + end) : decoded'[i] = input[i]
  <2>1. /\ decoded' \in Seq(Bytes) /\ Len(decoded') = base + next_emit + len
        /\ \A i \in 1..(base + next_emit) : decoded'[i] = decoded[i]
        /\ \A i \in 1..len : decoded'[base + next_emit + i] = lit[i]
    <3>1. /\ decoded \o lit \in Seq(Bytes)
          /\ Len(decoded \o lit) = Len(decoded) + Len(lit)
          /\ \A i \in 1..Len(decoded) : (decoded \o lit)[i] = decoded[i]
          /\ \A i \in 1..Len(lit) : (decoded \o lit)[Len(decoded) + i] = lit[i]
      <4>1. lit \in Seq(Bytes) /\ decoded \in Seq(Bytes)
        BY <1>2, <1>6
      <4>2. \A s, t \in Seq(Bytes) :
              /\ s \o t \in Seq(Bytes)
              /\ Len(s \o t) = Len(s) + Len(t)
              /\ \A i \in 1..Len(s) : (s \o t)[i] = s[i]
              /\ \A i \in 1..Len(t) : (s \o t)[Len(s) + i] = t[i]
        OBVIOUS
      <4> QED BY <4>1, <4>2, Zenon
    <3> HIDE DEF len
    <3> QED BY <1>6, <1>7, <3>1, Zenon
  <2>2. ASSUME NEW i \in 1..(base + end) PROVE decoded'[i] = input[i]
    <3>1. CASE i <= base + next_emit
      BY <1>1, <2>1, <3>1
    <3>2. CASE i > base + next_emit
      <4>1. i - (base + next_emit) \in 1..len
        BY <1>1, <3>2
      <4>2. base + next_emit + (i - (base + next_emit)) = i
        BY <1>1
      <4> HIDE DEF len
      <4> QED BY <1>6, <2>1, <4>1, <4>2, SMTT(60)
    <3> QED BY <1>1, <3>1, <3>2
  <2>3. base + next_emit + len = base + end
    BY <1>1
  <2> HIDE DEF len
  <2> QED BY <2>1, <2>2, <2>3
<1>12. write_end' = Max2(write_end, n + h + (IF short THEN 16 ELSE len))
  BY <1>5, <1>7, <1>9
<1>13. /\ write_end' \in Nat
       /\ write_end' <= write_end \/ write_end' = n + h + len \/ (fast /\ write_end' = n + 17)
  BY <1>1, <1>3, <1>5, <1>12 DEF Max2
<1>14. /\ read_end' \in Nat
       /\ read_end' <= read_end \/ read_end' = end \/ (fast /\ read_end' = next_emit + 16)
  BY <1>1, <1>3, <1>7 DEF Max2
<1> QED
  <2>1. \E m \in Nat : Len(out) = m /\
          \E g \in 1..3 : /\ 6 * g <= len + 5 /\ (len >= 6 => 6 * g <= len)
                          /\ Len(out') = m + g + len
                          /\ write_end' <= write_end \/ write_end' = m + g + len
                               \/ (fast /\ write_end' = m + 17)
    BY <1>5, <1>9, <1>10, <1>13, Zenon
  <2> QED BY <1>10, <1>11, <1>13, <1>14, <2>1, ZenonT(60)

-----------------------------------------------------------------------------
(* Each action preserves the invariant. *)

LEMMA AppendLengthSafe == SInv /\ AppendLength => SInv'
<1> SUFFICES ASSUME SInv, AppendLength PROVE SInv'
  OBVIOUS
<1>1. PICK L \in Nat : Len(input) = L /\ L <= INT_MAX
  BY DEF SInv, TypeInv
<1>2. out' \in Seq(Byte) /\ Len(out') \in 1..5
  BY <1>1, VarintSize, Zenon DEF AppendLength
<1>3. PICK k \in 1..5 : Len(out') = k
  BY <1>2
<1>4. base = 0 /\ size = 0 /\ next_emit = 0 /\ cpc' = "block" /\ write_end' = k
  BY <1>3 DEF SInv, BlockInv, AppendLength
<1>5. TypeInv'
  <2>1. write_end' \in Nat
    BY <1>4
  <2> QED BY <1>2, <2>1 DEF SInv, TypeInv, AppendLength, block_vars, scan_vars
<1>6. BlockInv'
  BY <1>1, <1>4 DEF SInv, BlockInv, TypeInv, AppendLength, block_vars, scan_vars
<1>7. Emitted = 0 /\ Emitted' = 0
  BY <1>4 DEF Emitted, AppendLength, block_vars, scan_vars
<1>8. SizeInv'
  <2>1. Slack' \in {30, 35} /\ Len(input') = L
    BY <1>1, <1>4 DEF Slack, AppendLength
  <2>2. PICK s \in Nat : Slack' = s /\ s >= 30
    BY <2>1
  <2>3. 6 * k <= 7 * 0 + s /\ 6 * k <= 7 * L + 150
    BY <2>2
  <2> QED BY <1>3, <1>4, <1>7, <2>1, <2>2, <2>3, Zenon DEF SizeInv
<1>9. ElementsFaithful'
  BY <1>7 DEF SInv, ElementsFaithful, AppendLength
<1> QED BY <1>4, <1>5, <1>6, <1>8, <1>9 DEF SInv, ScanInv, MatchInv

LEMMA NextBlockSafe == SInv /\ NextBlock => SInv'
<1> SUFFICES ASSUME SInv, NextBlock PROVE SInv'
  OBVIOUS
<1>1. PICK L \in Nat : Len(input) = L /\ L <= INT_MAX
  BY DEF SInv, TypeInv
<1>2. base \in Nat /\ size \in Nat /\ base + size < L
  BY <1>1 DEF SInv, TypeInv, NextBlock
<1>3. /\ input' = input /\ out' = out /\ decoded' = decoded /\ write_end' = write_end
      /\ base' = base + size /\ next_emit' = 0 /\ skip_bytes' = 32 /\ candidate' = 0
      /\ table' = << >> /\ cpc = "block"
      /\ size' = IF L - (base + size) < kblock_size THEN L - (base + size) ELSE kblock_size
  BY <1>1 DEF NextBlock
<1>4. /\ base' \in Nat /\ size' \in Nat /\ size' >= 1 /\ size' <= kblock_size
      /\ base' + size' <= L
      /\ base' + size' = L \/ size' = kblock_size
  BY <1>2, <1>3, BlockSize, SMT
<1>5. \/ /\ cpc' = "scan" /\ ip' = 1 /\ next_ip' = 1 /\ read_end' = 5 /\ size' >= 15
         /\ next_hash' = HashIn(base', size', 1)
      \/ cpc' = "remainder" /\ ip' = 0 /\ next_ip' = 0 /\ read_end' = 0
  BY DEF NextBlock, kinput_margin_bytes
<1>6. TypeInv'
  BY <1>3, <1>4, <1>5 DEF SInv, TypeInv
<1>7. BlockInv'
  BY <1>1, <1>3, <1>4, <1>5, SMTT(60) DEF BlockInv
<1>8. Emitted = base + size /\ Emitted' = base + size
  BY <1>2, <1>3, <1>5 DEF Emitted
<1>9. SizeInv'
  <2>1. Slack = 30 /\ Slack' = 30
    BY <1>1, <1>2, <1>3, <1>5 DEF Slack
  <2> QED BY <1>3, <1>8, <2>1 DEF SInv, SizeInv
<1>10. ElementsFaithful'
  BY <1>3, <1>8 DEF SInv, ElementsFaithful
<1>11. ScanInv'
  <2> SUFFICES ASSUME cpc' = "scan" PROVE ScanInv'
    BY DEF ScanInv
  <2>1. next_ip' = 1 /\ size' >= 15 /\ next_hash' = HashIn(base', size', 1)
    BY <1>5
  <2>2. HashAt(next_ip)' = HashIn(base', size', 1)
    BY <1>3, <2>1 DEF HashAt, HashIn, WordIn
  <2>3. TableBelow(table', next_ip')
    BY <1>3 DEF TableBelow
  <2> QED BY <1>3, <1>4, <2>1, <2>2, <2>3 DEF ScanInv
<1> QED BY <1>5, <1>6, <1>7, <1>9, <1>10, <1>11 DEF SInv, MatchInv

LEMMA CompressDoneSafe == SInv /\ CompressDone => SInv'
<1> SUFFICES ASSUME SInv, CompressDone PROVE SInv'
  OBVIOUS
<1>1. /\ cpc = "block" /\ cpc' = "written"
      /\ UNCHANGED <<input, base, size, ip, next_ip, next_emit, skip_bytes, next_hash,
                     candidate, table, out, decoded, read_end, write_end>>
  BY DEF CompressDone, block_vars, scan_vars
<1>2. TypeInv'
  BY <1>1 DEF SInv, TypeInv
<1>3. BlockInv'
  BY <1>1 DEF SInv, BlockInv
<1>4. Emitted' = Emitted
  BY <1>1 DEF Emitted
<1>5. SizeInv'
  <2>1. Slack = 35 /\ Slack' = 35
    <3>1. base + size = Len(input) /\ Len(input) \in Nat
      BY DEF CompressDone, SInv, TypeInv
    <3> QED BY <1>1, <3>1 DEF Slack
  <2> QED BY <1>1, <1>4, <2>1 DEF SInv, SizeInv
<1>6. ElementsFaithful'
  BY <1>1, <1>4 DEF SInv, ElementsFaithful
<1> QED BY <1>1, <1>2, <1>3, <1>5, <1>6 DEF SInv, ScanInv, MatchInv

LEMMA ScanStopSafe == SInv /\ ScanStop => SInv'
<1> SUFFICES ASSUME SInv, ScanStop PROVE SInv'
  OBVIOUS
<1>1. /\ cpc = "scan" /\ cpc' = "remainder"
      /\ ip' = next_ip /\ next_ip' = next_ip + skip_bytes \div 32 /\ skip_bytes' = skip_bytes + 1
      /\ UNCHANGED <<input, base, size, next_emit, next_hash, candidate, table, out, decoded,
                     read_end, write_end>>
  BY DEF ScanStop, block_vars
<1>2. TypeInv'
  <2>1. next_ip' \in Nat /\ skip_bytes' \in Nat /\ skip_bytes' >= 32
    BY <1>1 DEF SInv, TypeInv
  <2> QED BY <1>1, <2>1 DEF SInv, TypeInv
<1>3. BlockInv'
  <2>1. size \in Nat /\ size >= 15
    BY <1>1 DEF SInv, BlockInv, TypeInv
  <2> QED BY <1>1, <2>1 DEF SInv, BlockInv
<1>4. Emitted' = Emitted
  BY <1>1 DEF Emitted
<1>5. SizeInv'
  <2>1. Slack' = Slack
    BY <1>1 DEF Slack
  <2> QED BY <1>1, <1>4, <2>1 DEF SInv, SizeInv
<1>6. ElementsFaithful'
  BY <1>1, <1>4 DEF SInv, ElementsFaithful
<1> QED BY <1>1, <1>2, <1>3, <1>5, <1>6 DEF SInv, ScanInv, MatchInv

(* What one turn of the scanning loop does, whether or not it finds a match. *)
LEMMA ScanEffect ==
  ASSUME SInv, NEW found \in BOOLEAN, Scan(found)
  PROVE  /\ cpc = "scan"
         /\ ip' = next_ip /\ next_ip' \in Nat /\ next_ip' > next_ip /\ next_ip' + 15 <= size
         /\ skip_bytes' \in Nat /\ skip_bytes' >= 32
         /\ next_hash' = HashAt(next_ip')
         /\ candidate' \in Nat /\ candidate' < next_ip
         /\ TableBelow(table', next_ip + 1)
         /\ found <=> Word(next_ip) = Word(candidate')
<1>1. /\ cpc = "scan" /\ ip' = next_ip /\ next_ip' = next_ip + skip_bytes \div 32
      /\ next_ip' <= size - 15 /\ skip_bytes' = skip_bytes + 1
      /\ next_hash' = HashAt(next_ip')
      /\ candidate' = Lookup(table, next_hash)
      /\ table' = Insert(table, next_hash, next_ip)
      /\ found <=> Word(next_ip) = Word(candidate')
  BY DEF Scan, ip_limit, kinput_margin_bytes
<1>2. /\ next_ip \in Nat /\ skip_bytes \in Nat /\ skip_bytes >= 32 /\ size \in Nat
      /\ next_ip > 0 /\ TableBelow(table, next_ip)
  BY <1>1 DEF SInv, TypeInv, ScanInv
<1>3. next_ip' \in Nat /\ next_ip' > next_ip /\ next_ip' + 15 <= size
      /\ skip_bytes' \in Nat /\ skip_bytes' >= 32
  BY <1>1, <1>2
<1>4. candidate' \in Nat /\ candidate' < next_ip
  BY <1>1, <1>2, LookupBelow
<1>5. TableBelow(table', next_ip + 1)
  BY <1>1, <1>2, InsertBelow
<1> QED BY <1>1, <1>3, <1>4, <1>5

LEMMA BelowMonotone ==
  ASSUME NEW t, NEW p \in Nat, NEW q \in Nat, TableBelow(t, p), p <= q
  PROVE  TableBelow(t, q)
BY DEF TableBelow

LEMMA ScanMissSafe == SInv /\ ScanMiss => SInv'
<1> SUFFICES ASSUME SInv, ScanMiss PROVE SInv'
  OBVIOUS
<1>1. Scan(FALSE)
  BY ZenonT(60) DEF ScanMiss
<1>2. /\ cpc = "scan"
      /\ ip' = next_ip /\ next_ip' \in Nat /\ next_ip' > next_ip /\ next_ip' + 15 <= size
      /\ skip_bytes' \in Nat /\ skip_bytes' >= 32
      /\ next_hash' = HashAt(next_ip')
      /\ candidate' \in Nat
      /\ TableBelow(table', next_ip + 1)
  BY <1>1, ScanEffect, ZenonT(60)
<1>3. /\ UNCHANGED <<cpc, input, base, size, next_emit, out, decoded, write_end>>
      /\ read_end' = Max2(read_end, next_ip' + 4)
  BY DEF ScanMiss, block_vars
<1>4. /\ size \in Nat /\ next_ip \in Nat /\ read_end \in Nat /\ read_end <= size
      /\ next_emit \in Nat /\ next_emit < next_ip
  BY <1>2 DEF SInv, TypeInv, BlockInv, ScanInv
<1> PICK n \in Nat : next_ip' = n
  BY <1>2
<1>5. n > next_ip /\ n + 15 <= size
  BY <1>2
<1>a. read_end' \in Nat /\ read_end' <= size
  <2>1. read_end' = Max2(read_end, n + 4)
    BY <1>3
  <2> QED BY <1>4, <1>5, <2>1 DEF Max2
<1>6. TypeInv'
  BY <1>2, <1>3, <1>4, <1>a DEF SInv, TypeInv
<1>7. BlockInv'
  BY <1>3, <1>a DEF SInv, BlockInv
<1>8. Emitted' = Emitted /\ Slack' = Slack
  BY <1>2, <1>3 DEF Emitted, Slack
<1>9. SizeInv' /\ ElementsFaithful'
  BY <1>3, <1>8 DEF SInv, SizeInv, ElementsFaithful
<1>10. ScanInv'
  <2>1. TableBelow(table', next_ip')
    BY <1>2, <1>4, BelowMonotone
  <2>2. HashAt(next_ip)' = HashAt(next_ip')
    BY <1>3 DEF HashAt, HashIn, WordIn
  <2>3. next_emit' < next_ip' /\ next_ip' + 14 <= size'
    <3>1. next_emit < n /\ n + 14 <= size
      BY <1>4, <1>5
    <3> QED BY <1>3, <3>1, Zenon
  <2> QED BY <1>2, <2>1, <2>2, <2>3 DEF ScanInv
<1> QED BY <1>2, <1>3, <1>6, <1>7, <1>9, <1>10 DEF SInv, MatchInv

LEMMA ScanHitSafe == SInv /\ ScanHit => SInv'
<1> SUFFICES ASSUME SInv, ScanHit PROVE SInv'
  OBVIOUS
<1>1. Scan(TRUE)
  BY ZenonT(60) DEF ScanHit
<1>2. /\ cpc = "scan"
      /\ ip' = next_ip /\ next_ip' \in Nat /\ next_ip' > next_ip /\ next_ip' + 15 <= size
      /\ skip_bytes' \in Nat /\ skip_bytes' >= 32
      /\ candidate' \in Nat /\ candidate' < next_ip
      /\ TableBelow(table', next_ip + 1)
      /\ Word(next_ip) = Word(candidate')
  BY <1>1, ScanEffect, ZenonT(60)
<1>3. /\ UNCHANGED <<input, base, size, next_emit>> /\ cpc' = "match"
      /\ EmitLiteral(next_ip, TRUE)
  BY ZenonT(60) DEF ScanHit, block_vars
<1>4. /\ base \in Nat /\ size \in Nat /\ next_ip \in Nat /\ next_emit \in Nat
      /\ read_end \in Nat /\ read_end <= size /\ write_end \in Nat
      /\ next_emit < next_ip
  BY <1>2 DEF SInv, TypeInv, BlockInv, ScanInv
<1>5. next_ip + 16 <= size
  <2> PICK n \in Nat : next_ip' = n
    BY <1>2
  <2>1. n > next_ip /\ n + 15 <= size
    BY <1>2
  <2> QED BY <1>4, <2>1
<1>6. next_ip <= size
  BY <1>4, <1>5
<1>7. Emitted = base + next_emit /\ Emitted' = base + next_ip
  BY <1>2, <1>3 DEF Emitted
<1>8. /\ out' \in Seq(Byte) /\ decoded' \in Seq(Bytes)
      /\ write_end' \in Nat /\ read_end' \in Nat
      /\ \E m \in Nat : Len(out) = m /\
           \E g \in 1..3 :
             /\ 6 * g <= (next_ip - next_emit) + 5
             /\ next_ip - next_emit >= 6 => 6 * g <= next_ip - next_emit
             /\ Len(out') = m + g + (next_ip - next_emit)
             /\ write_end' <= write_end \/ write_end' = m + g + (next_ip - next_emit)
                  \/ (TRUE /\ write_end' = m + 17)
      /\ read_end' <= read_end \/ read_end' = next_ip \/ (TRUE /\ read_end' = next_emit + 16)
      /\ Len(decoded') = base + next_ip
      /\ \A i \in 1..(base + next_ip) : decoded'[i] = input[i]
  <2>1. TypeInv /\ BlockInv
    BY DEF SInv
  <2>2. /\ Len(decoded) = base + next_emit
        /\ \A i \in 1..(base + next_emit) : decoded[i] = input[i]
    BY <1>7 DEF SInv, ElementsFaithful
  <2> QED BY <1>3, <1>4, <1>6, <2>1, <2>2, LiteralEffect, ZenonT(60)
<1>9. PICK m \in Nat, g \in 1..3 :
        /\ Len(out) = m
        /\ 6 * g <= (next_ip - next_emit) + 5
        /\ Len(out') = m + g + (next_ip - next_emit)
        /\ write_end' <= write_end \/ write_end' = m + g + (next_ip - next_emit)
             \/ write_end' = m + 17
  BY <1>8, Zenon
<1>10. PICK r \in Nat : read_end' = r
  BY <1>8
<1>11. r <= size
  <2>1. r <= read_end \/ r = next_ip \/ r = next_emit + 16
    BY <1>8, <1>10
  <2> QED BY <1>4, <1>5, <1>6, <2>1
<1>12. TypeInv'
  BY <1>2, <1>3, <1>4, <1>8 DEF SInv, TypeInv
<1>13. BlockInv'
  BY <1>2, <1>3, <1>4, <1>10, <1>11, SMTT(60) DEF SInv, BlockInv
<1>14. MatchInv'
  <2>1. Word(ip)' = Word(next_ip) /\ Word(candidate)' = Word(candidate')
    BY <1>2, <1>3 DEF Word, WordIn
  <2>2. next_emit <= next_ip
    BY <1>4
  <2> QED BY <1>2, <1>3, <1>5, <2>1, <2>2 DEF MatchInv
<1>15. SizeInv'
  <2>1. PICK L \in Nat : Len(input) = L /\ base + size <= L
    BY DEF SInv, TypeInv, BlockInv
  <2>2. PICK w \in Nat : write_end' = w
    BY <1>8
  <2>3. w <= write_end \/ w = m + g + (next_ip - next_emit) \/ w = m + 17
    BY <1>9, <2>2
  <2>4. Slack' = 35 /\ Slack \in {25, 30}
    BY <1>2, <1>3 DEF Slack
  <2>5. PICK s \in Nat : s = Slack /\ s <= 30
    BY <2>4
  <2>6. 6 * m <= 7 * (base + next_emit) + s /\ 6 * write_end <= 7 * L + 150
    BY <1>7, <1>9, <2>1, <2>5 DEF SInv, SizeInv
  <2>7. 6 * (m + g + (next_ip - next_emit)) <= 7 * (base + next_ip) + 35
    BY <1>4, <1>9, <2>5, <2>6
  <2>8. 6 * w <= 7 * L + 150
    BY <1>4, <1>6, <2>1, <2>3, <2>5, <2>6, <2>7, SMTT(60)
  <2> QED BY <1>3, <1>7, <1>9, <2>1, <2>2, <2>4, <2>7, <2>8, ZenonT(60) DEF SizeInv
<1>16. ElementsFaithful'
  BY <1>3, <1>7, <1>8, Zenon DEF ElementsFaithful
<1> QED BY <1>3, <1>12, <1>13, <1>14, <1>15, <1>16 DEF SInv, ScanInv

LEMMA RemainderSafe == SInv /\ Remainder => SInv'
<1> SUFFICES ASSUME SInv, Remainder PROVE SInv'
  OBVIOUS
<1>1. /\ UNCHANGED <<input, base, size, ip, next_ip, next_emit, skip_bytes, next_hash,
                     candidate, table>>
      /\ cpc = "remainder" /\ cpc' = "block"
      /\ IF next_emit < size THEN EmitLiteral(size, FALSE)
                             ELSE UNCHANGED <<out, decoded, write_end, read_end>>
  BY ZenonT(60) DEF Remainder, block_vars, scan_vars
<1>2. /\ base \in Nat /\ size \in Nat /\ next_emit \in Nat /\ next_emit <= size /\ size >= 1
      /\ read_end \in Nat /\ read_end <= size /\ write_end \in Nat
  BY <1>1 DEF SInv, TypeInv, BlockInv
<1>3. PICK L \in Nat : /\ Len(input) = L /\ base + size <= L
                       /\ base + size = L \/ size = kblock_size
  BY <1>1 DEF SInv, TypeInv, BlockInv
<1>4. Emitted = base + next_emit /\ Emitted' = base + size
  BY <1>1 DEF Emitted
<1>5. Slack = IF next_emit = 0 THEN 30 ELSE 25
  BY <1>1 DEF Slack
<1>6. PICK s \in Nat : /\ Slack' = s /\ s >= 30
                       /\ s = 35 \/ (base + size < L)
                       /\ s <= 35
  BY <1>1, <1>3 DEF Slack
<1>7. CASE next_emit < size
  <2>1. EmitLiteral(size, FALSE)
    BY <1>1, <1>7, ZenonT(60)
  <2>2. /\ out' \in Seq(Byte) /\ decoded' \in Seq(Bytes)
        /\ write_end' \in Nat /\ read_end' \in Nat
        /\ \E m \in Nat : Len(out) = m /\
             \E g \in 1..3 :
               /\ 6 * g <= (size - next_emit) + 5
               /\ size - next_emit >= 6 => 6 * g <= size - next_emit
               /\ Len(out') = m + g + (size - next_emit)
               /\ write_end' <= write_end \/ write_end' = m + g + (size - next_emit)
                    \/ (FALSE /\ write_end' = m + 17)
        /\ read_end' <= read_end \/ read_end' = size \/ (FALSE /\ read_end' = next_emit + 16)
        /\ Len(decoded') = base + size
        /\ \A i \in 1..(base + size) : decoded'[i] = input[i]
    <3>1. TypeInv /\ BlockInv /\ size <= size
      BY <1>2 DEF SInv
    <3>2. /\ Len(decoded) = base + next_emit
          /\ \A i \in 1..(base + next_emit) : decoded[i] = input[i]
      BY <1>4 DEF SInv, ElementsFaithful
    <3> QED BY <1>2, <1>7, <2>1, <3>1, <3>2, LiteralEffect, ZenonT(60)
  <2>3. PICK m \in Nat, g \in 1..3 :
          /\ Len(out) = m
          /\ 6 * g <= (size - next_emit) + 5
          /\ size - next_emit >= 6 => 6 * g <= size - next_emit
          /\ Len(out') = m + g + (size - next_emit)
          /\ write_end' <= write_end \/ write_end' = m + g + (size - next_emit)
    BY <2>2, ZenonT(60)
  <2>4. PICK r \in Nat : read_end' = r
    BY <2>2
  <2>5. r <= size
    <3>1. r <= read_end \/ r = size
      BY <2>2, <2>4
    <3> QED BY <1>2, <3>1
  <2>6. TypeInv'
    BY <1>1, <2>2, SMTT(60) DEF SInv, TypeInv
  <2>7. BlockInv'
    BY <1>1, <2>4, <2>5 DEF SInv, BlockInv
  <2>8. SizeInv'
    <3>1. PICK w \in Nat : write_end' = w
      BY <2>2
    <3>2. w <= write_end \/ w = m + g + (size - next_emit)
      BY <2>3, <3>1
    <3>3. /\ 6 * m <= 7 * (base + next_emit) + (IF next_emit = 0 THEN 30 ELSE 25)
          /\ 6 * write_end <= 7 * L + 150
      BY <1>3, <1>4, <1>5, <2>3, SMTT(60) DEF SInv, SizeInv
    <3>4. 6 * (m + g + (size - next_emit)) <= 7 * (base + size) + s
      <4>1. CASE s = 35
        BY <1>2, <2>3, <3>3, <4>1, SMTT(60)
      <4>2. CASE base + size < L
        <5>1. size >= 6
          BY <1>2, <1>3, <4>2, BlockSize, SMTT(60)
        <5>2. CASE next_emit = 0
          BY <1>2, <1>6, <2>3, <3>3, <5>1, <5>2, SMTT(60)
        <5>3. CASE next_emit # 0
          BY <1>2, <1>6, <2>3, <3>3, <5>3, SMTT(60)
        <5> QED BY <5>2, <5>3
      <4> QED BY <1>6, <4>1, <4>2
    <3>5. 6 * w <= 7 * L + 150
      BY <1>2, <1>3, <1>6, <3>2, <3>3, <3>4, SMTT(60)
    <3>6. Len(input') = L
      BY <1>1, <1>3
    <3> QED BY <1>4, <1>6, <2>3, <3>1, <3>4, <3>5, <3>6, ZenonT(60) DEF SizeInv
  <2>9. ElementsFaithful'
    <3>1. input' = input
      BY <1>1
    <3> QED BY <1>4, <2>2, <3>1, Zenon DEF ElementsFaithful
  <2> QED BY <1>1, <2>6, <2>7, <2>8, <2>9 DEF SInv, ScanInv, MatchInv
<1>8. CASE next_emit = size
  <2>1. UNCHANGED <<out, decoded, write_end, read_end>>
    <3>1. ~(next_emit < size)
      BY <1>2, <1>8
    <3> QED BY <1>1, <3>1, Zenon
  <2>2. TypeInv'
    BY <1>1, <2>1 DEF SInv, TypeInv
  <2>3. BlockInv'
    BY <1>1, <2>1 DEF SInv, BlockInv
  <2>4. Emitted' = Emitted
    BY <1>4, <1>8
  <2>5. SizeInv'
    <3>1. PICK m \in Nat : Len(out) = m
      BY DEF SInv, TypeInv
    <3>2. Slack = 25
      BY <1>2, <1>5, <1>8
    <3>3. 6 * m <= 7 * (base + size) + 25 /\ 6 * write_end <= 7 * L + 150
      BY <1>3, <1>4, <1>8, <3>1, <3>2 DEF SInv, SizeInv
    <3>4. 6 * m <= 7 * (base + size) + s
      BY <1>2, <1>6, <3>3
    <3>5. Len(input') = L /\ Len(out') = m /\ write_end' = write_end
      BY <1>1, <1>3, <2>1, <3>1, SMTT(60)
    <3> QED BY <1>4, <1>6, <3>3, <3>4, <3>5, ZenonT(60) DEF SizeInv
  <2>6. ElementsFaithful'
    BY <1>1, <2>1, <2>4 DEF SInv, ElementsFaithful
  <2> QED BY <1>1, <2>2, <2>3, <2>5, <2>6 DEF SInv, ScanInv, MatchInv
<1> QED BY <1>2, <1>7, <1>8

(* A match found by its first four bytes and extended by find_match_length   *)
(* repeats bytes of the block; so the copy that is emitted stands for them.  *)
LEMMA MatchBytes ==
  ASSUME SInv, cpc = "match", NEW matched \in Nat,
         matched = 4 + find_match_length(candidate + 4, ip + 4)
  PROVE  /\ matched >= 4 /\ ip + matched <= size
         /\ \A i \in 1..matched : input[base + ip + i] = input[base + candidate + i]
<1>1. /\ base \in Nat /\ size \in Nat /\ ip \in Nat /\ candidate \in Nat
      /\ ip + 16 <= size /\ Word(ip) = Word(candidate) /\ TypeInv /\ BlockInv
  BY DEF SInv, TypeInv, MatchInv
<1>2. PICK f \in Nat : /\ f = find_match_length(candidate + 4, ip + 4)
                       /\ f <= size - (ip + 4)
                       /\ \A k \in 1..f : input[base + (candidate + 4) + k]
                                           = input[base + (ip + 4) + k]
  <2> DEFINE c4 == candidate + 4
             i4 == ip + 4
  <2>1. c4 \in Nat /\ i4 \in Nat /\ i4 <= size
    BY <1>1
  <2> HIDE DEF c4, i4
  <2>2. /\ find_match_length(c4, i4) \in 0..(size - i4)
        /\ \A k \in 1..find_match_length(c4, i4) : input[base + c4 + k] = input[base + i4 + k]
    BY <1>1, <2>1, MatchLength, ZenonT(60)
  <2>3. PICK f \in Nat : /\ f = find_match_length(c4, i4) /\ f <= size - i4
                         /\ \A k \in 1..f : input[base + c4 + k] = input[base + i4 + k]
    <3>1. find_match_length(c4, i4) \in Nat /\ find_match_length(c4, i4) <= size - i4
      BY <1>1, <2>1, <2>2
    <3> QED BY <2>2, <3>1, Zenon
  <2> QED BY <2>3, Zenon DEF c4, i4
<1>3. matched = 4 + f
  BY <1>2
<1>4. ASSUME NEW i \in 1..matched
      PROVE  input[base + ip + i] = input[base + candidate + i]
  <2>1. CASE i \in 1..4
    <3>1. Word(ip)[i] = input[base + ip + i] /\ Word(candidate)[i] = input[base + candidate + i]
      BY <2>1, Zenon DEF Word, WordIn
    <3> QED BY <1>1, <3>1, Zenon
  <2>2. CASE i > 4
    <3>1. i - 4 \in 1..f
      BY <1>3, <2>2
    <3>2. /\ base + (candidate + 4) + (i - 4) = base + candidate + i
          /\ base + (ip + 4) + (i - 4) = base + ip + i
      BY <1>1
    <3>3. input[base + (candidate + 4) + (i - 4)] = input[base + (ip + 4) + (i - 4)]
      BY <1>2, <3>1, Zenon
    <3> QED BY <3>2, <3>3, Zenon
  <2> QED BY <2>1, <2>2
<1> QED BY <1>1, <1>2, <1>3, <1>4

Agree(d, x, n) == \A i \in 1..n : d[i] = x[i]
Repeats(x, n, offset, len) == \A i \in 1..len : x[n + i] = x[n - offset + i]

LEMMA CopyEffect ==
  ASSUME NEW n \in Nat, NEW d \in Seq(Bytes), Len(d) = n,
         NEW x, Agree(d, x, n),
         NEW offset \in Nat, offset >= 1, offset <= n, NEW len \in Nat,
         Repeats(x, n, offset, len)
  PROVE  /\ CopyOf(d, offset, len) \in Seq(Bytes)
         /\ Len(CopyOf(d, offset, len)) = n + len
         /\ Agree(CopyOf(d, offset, len), x, n + len)
<1> USE DEF Agree, Repeats
<1> DEFINE src(i) == n - offset + 1 + ((i - 1) % offset)
           t == [i \in 1..len |-> d[src(i)]]
<1>1. CopyOf(d, offset, len) = d \o t
  BY DEF CopyOf
<1>2. ASSUME NEW i \in 1..len PROVE src(i) \in 1..n
  <2>1. i - 1 \in Nat /\ (i - 1) % offset \in 0..(offset - 1)
    BY DivMod
  <2> QED BY <2>1, SMTT(60)
<1>3. \A i \in 1..len : x[n + i] = x[src(i)]
  <2>1. Periodic(x, n, offset, len)
    <3> USE DEF Periodic
    <3> TAKE j \in (n + 1)..(n + len)
    <3>1. j - n \in 1..len /\ n + (j - n) = j /\ n - offset + (j - n) = j - offset
      OBVIOUS
    <3>2. x[n + (j - n)] = x[n - offset + (j - n)]
      BY <3>1, Zenon
    <3> QED BY <3>1, <3>2
  <2>2. offset \in 1..n
    OBVIOUS
  <2>3. \A i \in 1..len : x[n + i] = x[n - offset + 1 + ((i - 1) % offset)]
    <3> HIDE DEF t, src
    <3> QED BY <2>1, <2>2, PeriodicBytes, SMT
  <2> QED BY <2>3, Zenon DEF src
<1>4. \A i \in 1..len : t[i] = x[n + i] /\ t[i] \in Bytes
  <2> TAKE i \in 1..len
  <2>1. t[i] = d[src(i)]
    OBVIOUS
  <2>2. src(i) \in 1..n
    BY <1>2
  <2> HIDE DEF src, t
  <2>3. d[src(i)] = x[src(i)] /\ d[src(i)] \in Bytes
    BY <2>2, Element
  <2> QED BY <1>3, <2>1, <2>3
<1>5. t \in Seq(Bytes) /\ Len(t) = len
  <2>1. t \in [1..len -> Bytes]
    <3> HIDE DEF src
    <3>1. \A i \in 1..len : d[src(i)] \in Bytes
      BY <1>4
    <3> QED BY <3>1
  <2> HIDE DEF t
  <2> QED BY <2>1
<1> HIDE DEF t, src
<1>6. /\ d \o t \in Seq(Bytes) /\ Len(d \o t) = n + len
      /\ \A i \in 1..n : (d \o t)[i] = d[i]
      /\ \A i \in 1..len : (d \o t)[n + i] = t[i]
  <2>1. \A s, u \in Seq(Bytes) :
          /\ s \o u \in Seq(Bytes)
          /\ Len(s \o u) = Len(s) + Len(u)
          /\ \A i \in 1..Len(s) : (s \o u)[i] = s[i]
          /\ \A i \in 1..Len(u) : (s \o u)[Len(s) + i] = u[i]
    OBVIOUS
  <2> QED BY <1>5, <2>1, ZenonT(60)
<1>7. ASSUME NEW i \in 1..(n + len) PROVE (d \o t)[i] = x[i]
  <2>1. CASE i <= n
    BY <1>6, <2>1
  <2>2. CASE i > n
    <3>1. i - n \in 1..len /\ n + (i - n) = i
      BY <2>2
    <3>2. (d \o t)[n + (i - n)] = t[i - n] /\ t[i - n] = x[n + (i - n)]
      BY <1>4, <1>6, <3>1, Zenon
    <3> QED BY <3>1, <3>2, Zenon
  <2>3. i <= n \/ i > n
    OBVIOUS
  <2> QED BY <2>1, <2>2, <2>3, Zenon
<1> QED BY <1>1, <1>6, <1>7, Zenon

LEMMA MatchSafe == SInv /\ Match => SInv'
<1> SUFFICES ASSUME SInv, Match PROVE SInv'
  OBVIOUS
<1> DEFINE matched == 4 + find_match_length(candidate + 4, ip + 4)
           end == ip + matched
           t1 == Insert(table, HashAt(end - 1), end - 1)
           cand == Lookup(t1, HashAt(end))
<1>1. /\ cpc = "match" /\ UNCHANGED <<input, base, size>>
      /\ out' = out \o emit_copy(ip - candidate, matched)
      /\ write_end' = Max2(write_end, Len(out'))
      /\ decoded' = CopyOf(decoded, ip - candidate, matched)
      /\ next_emit' = end
  BY DEF Match, block_vars
<1>2. \/ /\ cpc' = "remainder" /\ ip' = end /\ read_end' = Max2(read_end, end)
         /\ UNCHANGED <<next_ip, skip_bytes, next_hash, candidate, table>>
      \/ /\ ~(end >= ip_limit)
         /\ table' = Insert(t1, HashAt(end), end)
         /\ candidate' = cand
         /\ read_end' = Max2(read_end, end + 7)
         /\ \/ /\ Word(end) = Word(cand) /\ cpc' = "match" /\ ip' = end
               /\ UNCHANGED <<next_ip, skip_bytes, next_hash>>
            \/ /\ cpc' = "scan" /\ ip' = end + 1 /\ next_ip' = end + 1
               /\ skip_bytes' = 32 /\ next_hash' = HashAt(end + 1)
  BY ZenonT(60) DEF Match
<1>3. /\ base \in Nat /\ size \in Nat /\ ip \in Nat /\ candidate \in Nat /\ next_ip \in Nat
      /\ next_emit \in Nat /\ skip_bytes \in Nat /\ skip_bytes >= 32
      /\ read_end \in Nat /\ read_end <= size /\ write_end \in Nat
      /\ candidate < ip /\ ip + 16 <= size /\ size <= kblock_size
      /\ TableBelow(table, ip + 1) /\ TypeInv /\ BlockInv
  BY <1>1 DEF SInv, TypeInv, BlockInv, MatchInv
<1>4. matched \in Nat
  <2> DEFINE c4 == candidate + 4
             i4 == ip + 4
  <2>1. c4 \in Nat /\ i4 \in Nat /\ i4 <= size
    BY <1>3
  <2> HIDE DEF c4, i4
  <2>2. find_match_length(c4, i4) \in 0..(size - i4)
    BY <1>3, <2>1, MatchLength, ZenonT(60)
  <2>3. find_match_length(c4, i4) \in Nat
    BY <1>3, <2>1, <2>2
  <2>4. find_match_length(candidate + 4, ip + 4) \in Nat
    BY <2>3, Zenon DEF c4, i4
  <2> QED BY <2>4
<1>5. /\ matched >= 4 /\ end <= size
      /\ \A i \in 1..matched : input[base + ip + i] = input[base + candidate + i]
  BY <1>1, <1>4, MatchBytes
<1> HIDE DEF matched
<1>6. end \in Nat /\ end > ip /\ end >= 4
  BY <1>3, <1>4, <1>5
<1> HIDE DEF end
<1>7. /\ Emitted = base + ip /\ Emitted' = base + end
      /\ Slack = 35 /\ Slack' \in {25, 35}
  <2>1. cpc' \in {"remainder", "match", "scan"} /\ (cpc' = "match" => ip' = end)
    BY <1>2
  <2>2. end # 0
    BY <1>6
  <2> QED BY <1>1, <2>1, <2>2, ZenonT(60) DEF Emitted, Slack
<1>8. PICK o \in Nat : o = ip - candidate /\ o >= 1 /\ o <= base + ip /\ o < kmax_block
  <2>1. kmax_block \in Nat /\ size <= kmax_block
    BY <1>3, BlockSize, SMT DEF kmax_block
  <2> HIDE DEF kmax_block
  <2> QED BY <1>3, <2>1, SMT
<1>9. /\ decoded' \in Seq(Bytes) /\ Len(decoded') = base + end
      /\ \A i \in 1..(base + end) : decoded'[i] = input[i]
  <2>1. PICK n \in Nat : n = base + ip
    BY <1>3
  <2>2. decoded \in Seq(Bytes) /\ Len(decoded) = n /\ \A i \in 1..n : decoded[i] = input[i]
    BY <1>7, <2>1, Zenon DEF SInv, TypeInv, ElementsFaithful
  <2>3. ASSUME NEW i \in 1..matched PROVE input[n + i] = input[n - o + i]
    <3>1. n + i = base + ip + i /\ n - o + i = base + candidate + i
      BY <1>3, <1>4, <1>8, <2>1, SMTT(60)
    <3> QED BY <1>5, <3>1, ZenonT(60)
  <2>4. /\ CopyOf(decoded, o, matched) \in Seq(Bytes)
        /\ Len(CopyOf(decoded, o, matched)) = n + matched
        /\ Agree(CopyOf(decoded, o, matched), input, n + matched)
    <3>1. o >= 1 /\ o <= n
      BY <1>8, <2>1
    <3>2. Repeats(input, n, o, matched) /\ Agree(decoded, input, n)
      BY <2>2, <2>3, Zenon DEF Repeats, Agree
    <3> QED BY <1>4, <1>8, <2>1, <2>2, <3>1, <3>2, CopyEffect, SMTT(60)
  <2>5. n + matched = base + end
    BY <1>3, <1>4, <2>1, SMTT(60) DEF end
  <2> QED BY <1>1, <1>8, <2>4, <2>5, ZenonT(60) DEF Agree
<1>10. PICK m \in Nat : Len(out) = m
  BY <1>3 DEF TypeInv
<1>11. PICK c \in Nat : /\ Len(emit_copy(o, matched)) = c /\ 6 * c + 10 <= 7 * matched
                        /\ emit_copy(o, matched) \in Seq(Byte)
  <2>1. /\ emit_copy(o, matched) \in Seq(Byte)
        /\ 6 * Len(emit_copy(o, matched)) + 10 <= 7 * matched
    BY <1>4, <1>5, <1>8, CopySize, SMTT(60)
  <2>2. Len(emit_copy(o, matched)) \in Nat
    BY <2>1
  <2> QED BY <2>1, <2>2, ZenonT(60)
<1>12. out' \in Seq(Byte) /\ Len(out') = m + c
  <2>1. out' = out \o emit_copy(o, matched) /\ out \in Seq(Byte)
    BY <1>1, <1>3, <1>8 DEF TypeInv
  <2>2. /\ out \o emit_copy(o, matched) \in Seq(Byte)
        /\ Len(out \o emit_copy(o, matched)) = Len(out) + Len(emit_copy(o, matched))
    BY <1>11, <2>1, Concat, ZenonT(60)
  <2> QED BY <1>10, <1>11, <2>1, <2>2, ZenonT(60)
<1>13. PICK w \in Nat : write_end' = w /\ (w = write_end \/ w = m + c)
  <2>1. write_end' = Max2(write_end, m + c)
    BY <1>1, <1>12, Zenon
  <2> QED BY <1>3, <2>1 DEF Max2
<1>14. SizeInv'
  <2>1. PICK L \in Nat : Len(input) = L /\ base + size <= L
    BY <1>3 DEF TypeInv, BlockInv
  <2>2. PICK s \in Nat : Slack' = s /\ s >= 25 /\ s <= 35
    BY <1>7, SMTT(60)
  <2>3. 6 * m <= 7 * (base + ip) + 35 /\ 6 * write_end <= 7 * L + 150
    BY <1>7, <1>10, <2>1, SMTT(60) DEF SInv, SizeInv
  <2>4. 6 * (m + c) <= 7 * (base + end) + s
    BY <1>3, <1>4, <1>11, <2>2, <2>3, SMTT(60) DEF end
  <2>5. 6 * w <= 7 * L + 150
    BY <1>3, <1>5, <1>6, <1>13, <2>1, <2>2, <2>3, <2>4, SMTT(60)
  <2>6. Len(input') = L
    BY <1>1, <2>1
  <2> QED BY <1>7, <1>12, <1>13, <2>2, <2>4, <2>5, <2>6, ZenonT(60) DEF SizeInv
<1>15. ElementsFaithful'
  <2>1. input' = input
    BY <1>1, SMTT(60)
  <2> QED BY <1>7, <1>9, <2>1, ZenonT(60) DEF ElementsFaithful
<1>16. CASE /\ cpc' = "remainder" /\ ip' = end /\ read_end' = Max2(read_end, end)
            /\ UNCHANGED <<next_ip, skip_bytes, next_hash, candidate, table>>
  <2>1. read_end' \in Nat /\ read_end' <= size
    BY <1>3, <1>5, <1>6, <1>16, Zenon DEF Max2
  <2>2. TypeInv'
    BY <1>1, <1>3, <1>6, <1>9, <1>12, <1>13, <1>16, <2>1, ZenonT(60) DEF TypeInv
  <2>3. BlockInv'
    BY <1>1, <1>3, <1>5, <1>16, <2>1 DEF BlockInv
  <2> QED BY <1>14, <1>15, <1>16, <2>2, <2>3, SMTT(60) DEF SInv, ScanInv, MatchInv
<1>17. CASE /\ ~(end >= ip_limit)
            /\ table' = Insert(t1, HashAt(end), end)
            /\ candidate' = cand
            /\ read_end' = Max2(read_end, end + 7)
            /\ \/ /\ Word(end) = Word(cand) /\ cpc' = "match" /\ ip' = end
                  /\ UNCHANGED <<next_ip, skip_bytes, next_hash>>
               \/ /\ cpc' = "scan" /\ ip' = end + 1 /\ next_ip' = end + 1
                  /\ skip_bytes' = 32 /\ next_hash' = HashAt(end + 1)
  <2>1. end + 16 <= size
    BY <1>3, <1>6, <1>17, SMTT(60) DEF ip_limit, kinput_margin_bytes
  <2>2. read_end' \in Nat /\ read_end' <= size
    BY <1>3, <1>6, <1>17, <2>1, SMTT(60) DEF Max2
  <2>3. TableBelow(t1, end)
    <3>1. /\ ip + 1 \in Nat /\ ip + 1 <= end /\ end - 1 \in Nat /\ end - 1 < end
      BY <1>3, <1>6
    <3> QED BY <1>3, <1>6, <3>1, InsertBelow, SMTT(60)
  <2> HIDE DEF t1
  <2>4. cand \in Nat /\ cand < end
    <3>1. end > 0
      BY <1>6, SMTT(60)
    <3> QED BY <1>6, <2>3, <3>1, LookupBelow, SMTT(60)
  <2>5. TableBelow(table', end + 1)
    <3>1. end + 1 \in Nat /\ end <= end + 1 /\ end < end + 1
      BY <1>6, SMTT(60)
    <3> QED BY <1>6, <1>17, <2>3, <3>1, InsertBelow, SMTT(60)
  <2> HIDE DEF cand
  <2>6. TypeInv'
    <3>1. ip' \in Nat /\ next_ip' \in Nat /\ skip_bytes' \in Nat /\ skip_bytes' >= 32
          /\ cpc' \in {"match", "scan"}
      BY <1>3, <1>6, <1>17
    <3> QED BY <1>1, <1>3, <1>6, <1>9, <1>12, <1>13, <1>17, <2>2, <2>4, <3>1, ZenonT(60) DEF TypeInv
  <2>7. BlockInv'
    <3>1. cpc' \in {"match", "scan"}
      BY <1>17
    <3> QED BY <1>1, <1>3, <1>5, <2>2, <3>1, SMTT(60) DEF BlockInv
  <2>8. ScanInv'
    <3> SUFFICES ASSUME cpc' = "scan" PROVE ScanInv'
      BY SMTT(60) DEF ScanInv
    <3>1. next_ip' = end + 1 /\ next_hash' = HashAt(end + 1)
      BY <1>17, SMTT(60)
    <3>2. HashAt(next_ip)' = HashAt(end + 1)
      BY <1>1, <3>1, SMTT(60) DEF HashAt, HashIn, WordIn
    <3>3. end < end + 1 /\ (end + 1) + 14 <= size
      BY <1>3, <1>6, <2>1
    <3> QED BY <1>1, <2>5, <3>1, <3>2, <3>3, ZenonT(60) DEF ScanInv
  <2>9. MatchInv'
    <3> SUFFICES ASSUME cpc' = "match" PROVE MatchInv'
      BY DEF MatchInv
    <3>1. ip' = end /\ candidate' = cand /\ Word(end) = Word(cand)
      BY <1>17, SMTT(60)
    <3>2. Word(ip)' = Word(end) /\ Word(candidate)' = Word(cand)
      BY <1>1, <3>1 DEF Word, WordIn
    <3>3. end <= end
      BY <1>6
    <3> QED BY <1>1, <2>1, <2>4, <2>5, <3>1, <3>2, <3>3, ZenonT(60) DEF MatchInv
  <2> QED BY <1>14, <1>15, <2>6, <2>7, <2>8, <2>9 DEF SInv
<1> HIDE DEF t1, cand
<1> QED BY <1>2, <1>16, <1>17, ZenonT(60)

LEMMA StutterSafe == SInv /\ UNCHANGED compress_vars => SInv'
<1> SUFFICES ASSUME SInv, UNCHANGED compress_vars PROVE SInv'
  OBVIOUS
<1>1. UNCHANGED <<cpc, input, base, size, ip, next_ip, next_emit, skip_bytes, next_hash,
                  candidate, table, out, decoded, read_end, write_end>>
  BY SMTT(60) DEF compress_vars, block_vars, scan_vars
<1>2. TypeInv' /\ BlockInv'
  BY <1>1 DEF SInv, TypeInv, BlockInv
<1>3. HashAt(next_ip)' = HashAt(next_ip) /\ Word(ip)' = Word(ip) /\ Word(candidate)' = Word(candidate)
  BY <1>1, SMTT(60) DEF HashAt, HashIn, Word, WordIn
<1>4. ScanInv' /\ MatchInv'
  BY <1>1, <1>3 DEF SInv, ScanInv, MatchInv
<1>5. Emitted' = Emitted /\ Slack' = Slack
  BY <1>1, Zenon DEF Emitted, Slack
<1>6. SizeInv' /\ ElementsFaithful'
  BY <1>1, <1>5 DEF SInv, SizeInv, ElementsFaithful
<1> QED BY <1>2, <1>4, <1>6 DEF SInv

LEMMA CompressSafe == CompressSpec => []SInv
<1>1. SInv /\ [CompressNext]_compress_vars => SInv'
  BY AppendLengthSafe, NextBlockSafe, CompressDoneSafe, ScanStopSafe, ScanMissSafe, ScanHitSafe,
     MatchSafe, RemainderSafe, StutterSafe, Zenon DEF CompressNext
<1> QED BY InitSafe, <1>1, PTL DEF CompressSpec

(* The elements that compress_fragment emits always stand for exactly the    *)
(* bytes of the file it has passed, whatever the file, the block size and    *)
(* the hash function (the comment on hash_bytes: any hash function will do). *)
THEOREM ElementsAreFaithful == CompressSpec => []ElementsFaithful
<1>1. SInv => ElementsFaithful
  BY DEF SInv
<1> QED BY CompressSafe, <1>1, PTL

(* compress() never writes past snappy_max_compressed_length bytes of the    *)
(* buffer that compress_service allocated, the sixteen bytes that the fast   *)
(* path of emit_literal stores included.                                     *)
THEOREM OutputAlwaysFits == CompressSpec => []OutputFits
BY CompressSafe, SafeSize, PTL

(* The assertions of compress_fragment hold, and it reads nothing beyond the *)
(* block: neither a hash, nor the eight bytes after a match, nor the sixteen *)
(* bytes of a short literal.                                                 *)
THEOREM AssertionsHold == CompressSpec => []CompressAsserts
BY CompressSafe, SafeAsserts, PTL
=============================================================================
