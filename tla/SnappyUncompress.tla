--------------------------- MODULE SnappyUncompress ---------------------------
(* snappy_uncompress and snappy_uncompress_iov (include/snappy-c/snappy.c).  *)
(* The source is a sequence of non-empty fragments. The build of TinyFile    *)
(* has one fragment; the library's own build (SG) takes an iovec.            *)
EXTENDS Snappy

VARIABLES
  upc,        \* "idle", "length", "refill", "head", "tag", "literal", "exit", "returned"
  rest,       \* the source: what skip has not passed, fragment by fragment
  buffered,   \* the bytes from d->ip to d->ip_limit, in the source or in scratch
  peeked,     \* bytes of the source that are buffered and not skipped yet
  eof,
  shift, uncompressed_len,  \* of read_uncompressed_length
  literal_length,           \* what is missing of a literal
  mem,        \* the caller's buffer and what follows it: byte i is mem[i + 1]
  op,         \* w->op; w->base is 0
  op_limit,   \* w->op_limit
  err         \* what the call returned: 0 or -EIO (5)

source_vars == <<rest, buffered, peeked, eof>>
writer_vars == <<mem, op, op_limit>>
uncompress_vars == <<upc, source_vars, shift, uncompressed_len, literal_length, writer_vars, err>>

EIO == 5
kmax_increment_copy_overflow_none == 0
kmax_increment_copy_overflow == 10

-----------------------------------------------------------------------------
(* The source. *)

peek(r) == IF r = << >> THEN << >> ELSE Head(r)

skip(r, n) ==
  CASE n = 0 -> r
    [] n > 0 /\ n < Len(Head(r)) -> <<SubSeq(Head(r), n + 1, Len(Head(r)))>> \o Tail(r)
    [] OTHER -> Tail(r)

(* The inner loop of refill_tag: up to n bytes, from as many fragments as it *)
(* takes.                                                                    *)
RECURSIVE Gather(_, _)
Gather(r, n) ==
  IF n = 0 \/ peek(r) = << >> THEN [bytes |-> << >>, rest |-> r]
  ELSE LET to_add == IF n <= Len(peek(r)) THEN n ELSE Len(peek(r))
           more   == Gather(skip(r, to_add), n - to_add)
       IN  [bytes |-> SubSeq(peek(r), 1, to_add) \o more.bytes, rest |-> more.rest]

(* varint_parse32_with_limit on the stream s, as snappy_uncompressed_length  *)
(* calls it; -1 for false. (The 28 high bits are kept apart from the low     *)
(* ones only by the width of the last byte.)                                 *)
snappy_uncompressed_length(s) ==
  LET ends == {i \in 1..5 : /\ i <= Len(s)
                            /\ s[i] < (IF i = 5 THEN 16 ELSE 128)
                            /\ \A j \in 1..(i - 1) : s[j] >= 128}
      term(i) == IF i > Len(s) THEN 0 ELSE (s[i] % 128) * 128^(i - 1)
  IN  CASE ends = {} -> -1
        [] 1 \in ends -> term(1)
        [] 2 \in ends -> term(1) + term(2)
        [] 3 \in ends -> term(1) + term(2) + term(3)
        [] 4 \in ends -> term(1) + term(2) + term(3) + term(4)
        [] OTHER -> term(1) + term(2) + term(3) + term(4) + term(5)

-----------------------------------------------------------------------------
(* The writer. A byte of memory that was never written is Unwritten; what a  *)
(* copy reads there is Garbage.                                              *)

Unwritten == 257
Garbage == 256

Load(m, i) == IF i < Len(m) /\ m[i + 1] # Unwritten THEN m[i + 1] ELSE Garbage
Store(m, at, bytes) ==
  SubSeq(m, 1, at) \o bytes \o SubSeq(m, at + Len(bytes) + 1, Len(m))
unaligned_copy64(m, src, dst) == Store(m, dst, [k \in 1..8 |-> Load(m, src + k - 1)])

(* A byte at a time: where the regions overlap, what was just written is     *)
(* read again.                                                               *)
incremental_copy_memcpy(m, src, dst, len) ==
  Store(m, dst, [k \in 1..len |-> Load(m, src + k - 1)])
incremental_copy(m, src, dst, len) ==
  Store(m, dst, [k \in 1..len |-> Load(m, src + ((k - 1) % (dst - src)))])

RECURSIVE incremental_copy_fast_path(_, _, _, _)
incremental_copy_fast_path(m, src, dst, len) ==
  LET d == dst - src IN
  CASE d < 8 -> incremental_copy_fast_path(unaligned_copy64(m, src, dst), src, dst + d, len - d)
    [] d >= 8 /\ len > 0 ->
         incremental_copy_fast_path(unaligned_copy64(m, src, dst), src + 8, dst + 8, len - 8)
    [] OTHER -> m

space_left == op_limit - op

(* What writer_append_from_self leaves in memory when it succeeds. *)
AppendedFromSelf(offset, len) ==
  CASE len <= 16 /\ offset >= 8 /\ space_left >= 16 ->
         unaligned_copy64(unaligned_copy64(mem, op - offset, op), op - offset + 8, op + 8)
    [] ~(len <= 16 /\ offset >= 8 /\ space_left >= 16)
         /\ space_left >= len + kmax_increment_copy_overflow ->
         incremental_copy_fast_path(mem, op - offset, op, len)
    [] OTHER -> incremental_copy(mem, op - offset, op, len)

-----------------------------------------------------------------------------
(* The decompressor. *)

UncompressIdle ==
  /\ upc = "idle"
  /\ rest = << >> /\ buffered = << >> /\ peeked = 0 /\ eof = FALSE
  /\ shift = 0 /\ uncompressed_len = 0 /\ literal_length = 0
  /\ mem = << >> /\ op = 0 /\ op_limit = 0 /\ err = 0

(* snappy_uncompress_iov on the fragments f, with a buffer of n bytes. *)
UncompressCall(f, n) ==
  /\ upc = "idle"
  /\ rest' = f
  /\ mem' = [i \in 1..(n + 16) |-> Unwritten]
  /\ upc' = "length"
  /\ UNCHANGED <<buffered, peeked, eof, shift, uncompressed_len, literal_length, op, op_limit, err>>

(* One byte of read_uncompressed_length; the last one is followed by         *)
(* writer_set_expected_length.                                               *)
ReadLengthByte ==
  /\ upc = "length"
  /\ shift < 32 /\ rest # << >>
  /\ LET c == Head(peek(rest)) IN
       /\ rest' = skip(rest, 1)
       /\ uncompressed_len' = uncompressed_len + (c % 128) * 2^shift
       /\ IF c < 128 THEN /\ upc' = "refill"
                          /\ op_limit' = op + uncompressed_len'
                          /\ UNCHANGED shift
                     ELSE /\ shift' = shift + 7
                          /\ UNCHANGED <<upc, op_limit>>
  /\ UNCHANGED <<buffered, peeked, eof, literal_length, mem, op, err>>

ReadLengthFails ==
  /\ upc = "length"
  /\ shift >= 32 \/ rest = << >>
  /\ upc' = "returned" /\ err' = EIO
  /\ UNCHANGED <<source_vars, shift, uncompressed_len, literal_length, writer_vars>>

(* How many bytes the element with tag c needs before it is looked at. *)
needed_untagged(c) == char_table(c).extra
needed(c) == char_table(c).extra + 1

(* refill_tag, called where fewer than five bytes are buffered: when an      *)
(* element is done (MAYBE_REFILL) and at the head of the loop.               *)
refill_tag ==
  LET r == IF buffered = << >> THEN skip(rest, peeked) ELSE rest
      b == IF buffered = << >> THEN peek(r) ELSE buffered
      p == IF buffered = << >> THEN Len(b) ELSE peeked
  IN  IF b = << >>
      THEN /\ eof' = TRUE /\ peeked' = 0 /\ rest' = r
           /\ upc' = "exit"
           /\ UNCHANGED buffered
      ELSE LET n    == needed(b[1])
               more == Gather(skip(r, p), n - Len(b))
           IN  /\ UNCHANGED eof
               /\ CASE Len(b) < n ->
                         /\ rest' = more.rest /\ peeked' = 0
                         /\ buffered' = b \o more.bytes
                         /\ upc' = IF Len(buffered') < n THEN "exit"
                                   ELSE IF upc = "refill" THEN "head" ELSE "tag"
                    [] Len(b) >= n /\ Len(b) < 5 ->
                         /\ rest' = skip(r, p) /\ peeked' = 0
                         /\ buffered' = b
                         /\ upc' = IF upc = "refill" THEN "head" ELSE "tag"
                    [] OTHER ->
                         /\ rest' = r /\ peeked' = p
                         /\ buffered' = b
                         /\ upc' = IF upc = "refill" THEN "head" ELSE "tag"

Refill ==
  /\ upc \in {"refill", "head"}
  /\ Len(buffered) < 5
  /\ refill_tag
  /\ UNCHANGED <<shift, uncompressed_len, literal_length, writer_vars, err>>

NoRefill ==
  /\ upc \in {"refill", "head"}
  /\ Len(buffered) >= 5
  /\ upc' = IF upc = "refill" THEN "head" ELSE "tag"
  /\ UNCHANGED <<source_vars, shift, uncompressed_len, literal_length, writer_vars, err>>

Dropped(n) == SubSeq(buffered, n + 1, Len(buffered))

(* The n bytes after the tag, as a little-endian number. Numbers from 2^30   *)
(* on exceed every buffer and are not told apart.                            *)
trailer(n) ==
  LET byte(i) == IF i <= n THEN buffered[i + 1] * 256^(i - 1) ELSE 0
  IN  IF n = 4 /\ buffered[5] >= 64 THEN 2^30 ELSE byte(1) + byte(2) + byte(3) + byte(4)

(* get_unaligned_le32(ip) & wordmask[ll], plus one, in 32 bits. *)
LongLiteral(ll) ==
  IF ll = 4 /\ \A i \in 2..5 : buffered[i] = 255 THEN 0 ELSE trailer(ll) + 1

(* writer_try_fast_append: sixteen bytes at once. *)
CanFastAppend(len) == len <= 16 /\ Len(buffered) - 1 >= 16 /\ space_left >= 16

FastLiteral ==
  /\ upc = "tag" /\ buffered[1] % 4 = LITERAL
  /\ LET len == buffered[1] \div 4 + 1 IN
       /\ CanFastAppend(len)
       /\ mem' = Store(mem, op, SubSeq(buffered, 2, 17))
       /\ op' = op + len
       /\ buffered' = Dropped(1 + len)
  /\ upc' = "refill"
  /\ UNCHANGED <<rest, peeked, eof, shift, uncompressed_len, literal_length, op_limit, err>>

SlowLiteral ==
  /\ upc = "tag" /\ buffered[1] % 4 = LITERAL
  /\ LET len == buffered[1] \div 4 + 1
         ll  == IF len >= 61 THEN len - 60 ELSE 0 IN
       /\ ~CanFastAppend(len)
       /\ literal_length' = IF len >= 61 THEN LongLiteral(ll) ELSE len
       /\ buffered' = Dropped(1 + ll)
  /\ upc' = "literal"
  /\ UNCHANGED <<rest, peeked, eof, shift, uncompressed_len, writer_vars, err>>

(* A turn of the loop over the fragments that a literal spans. *)
LiteralPart ==
  /\ upc = "literal"
  /\ Len(buffered) < literal_length
  /\ IF space_left < Len(buffered)
     THEN upc' = "exit" /\ UNCHANGED <<rest, buffered, peeked, literal_length, mem, op>>
     ELSE /\ mem' = Store(mem, op, buffered)
          /\ op' = op + Len(buffered)
          /\ literal_length' = literal_length - Len(buffered)
          /\ rest' = skip(rest, peeked)
          /\ buffered' = peek(rest') /\ peeked' = Len(peek(rest'))
          /\ upc' = IF buffered' = << >> THEN "exit" ELSE upc
  /\ UNCHANGED <<eof, shift, uncompressed_len, op_limit, err>>

LiteralEnd ==
  /\ upc = "literal"
  /\ Len(buffered) >= literal_length
  /\ IF space_left < literal_length
     THEN upc' = "exit" /\ UNCHANGED <<buffered, mem, op>>
     ELSE /\ mem' = Store(mem, op, SubSeq(buffered, 1, literal_length))
          /\ op' = op + literal_length
          /\ buffered' = Dropped(literal_length)
          /\ upc' = "refill"
  /\ UNCHANGED <<rest, peeked, eof, shift, uncompressed_len, literal_length, op_limit, err>>

Copy ==
  /\ upc = "tag" /\ buffered[1] % 4 # LITERAL
  /\ LET entry  == char_table(buffered[1])
         offset == entry.offset + trailer(entry.extra)
         len    == entry.length
     IN  /\ buffered' = Dropped(1 + entry.extra)
         /\ IF offset = 0 \/ op < offset \/ space_left < len
            THEN upc' = "exit" /\ UNCHANGED <<mem, op>>
            ELSE /\ mem' = AppendedFromSelf(offset, len)
                 /\ op' = op + len
                 /\ upc' = "refill"
  /\ UNCHANGED <<rest, peeked, eof, shift, uncompressed_len, literal_length, op_limit, err>>

(* exit_snappy_decompressor and writer_check_length. *)
UncompressResult_unchecked == IF eof THEN 0 ELSE EIO
UncompressResult == IF eof /\ op = op_limit THEN 0 ELSE EIO
Exit ==
  /\ upc = "exit"
  /\ rest' = skip(rest, peeked)
  /\ err' = UncompressResult
  /\ upc' = "returned"
  /\ UNCHANGED <<buffered, peeked, eof, shift, uncompressed_len, literal_length, writer_vars>>

UncompressNext ==
  ReadLengthByte \/ ReadLengthFails \/ Refill \/ NoRefill \/ FastLiteral \/ SlowLiteral
    \/ LiteralPart \/ LiteralEnd \/ Copy \/ Exit
=============================================================================
