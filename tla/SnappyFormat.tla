----------------------------- MODULE SnappyFormat -----------------------------
(* The compressed stream: its length prefix, its elements and the bound on   *)
(* its size (include/snappy-c/snappy.c).                                     *)
(*                                                                           *)
(* An operator X_y is X with the plausible mistake y; nothing uses it.       *)
EXTENDS Integers, Sequences

snappy_max_compressed_length_exact(n) == n + n \div 6
snappy_max_compressed_length(n) == 32 + n + n \div 6

varint_encode32(v) ==
  LET low(n) == 128 + ((v \div n) % 128) IN
  IF v < 128 THEN <<v>>
  ELSE IF v < 16384 THEN <<low(1), v \div 128>>
  ELSE IF v < 2097152 THEN <<low(1), low(128), v \div 16384>>
  ELSE IF v < 268435456 THEN <<low(1), low(128), low(16384), v \div 2097152>>
  ELSE <<low(1), low(128), low(16384), low(2097152), v \div 268435456>>

LITERAL == 0
COPY_1_BYTE_OFFSET == 1
COPY_2_BYTE_OFFSET == 2
COPY_4_BYTE_OFFSET == 3

(* char_table[c]: the length in the tag, the copy offset's high bits, and     *)
(* the number of bytes after the tag.                                         *)
char_table(c) ==
  LET kind == c % 4  high == c \div 4 IN
  CASE kind = LITERAL /\ high < 60  -> [length |-> high + 1, offset |-> 0, extra |-> 0]
    [] kind = LITERAL /\ high >= 60 -> [length |-> 1, offset |-> 0, extra |-> high - 59]
    [] kind = COPY_1_BYTE_OFFSET -> [length |-> 4 + (high % 8),
                                     offset |-> 256 * (high \div 8), extra |-> 1]
    [] kind = COPY_2_BYTE_OFFSET -> [length |-> high + 1, offset |-> 0, extra |-> 2]
    [] kind = COPY_4_BYTE_OFFSET -> [length |-> high + 1, offset |-> 0, extra |-> 4]

(* What precedes the bytes of a literal of length len. A block has at most *)
(* 65536 bytes, so the length takes at most two bytes.                     *)
LiteralHeader(len) ==
  LET n == len - 1 IN
  CASE n < 60    -> <<LITERAL + 4 * n>>
    [] n \in 60..255 -> <<LITERAL + 4 * 60, n>>
    [] OTHER     -> <<LITERAL + 4 * 61, n % 256, n \div 256>>

emit_copy_less_than64(offset, len) ==
  IF len < 12 /\ offset < 2048
  THEN <<COPY_1_BYTE_OFFSET + 4 * (len - 4) + 32 * (offset \div 256), offset % 256>>
  ELSE <<COPY_2_BYTE_OFFSET + 4 * (len - 1), offset % 256, offset \div 256>>

(* How many copies of 64 bytes emit_copy starts with. *)
Copies64(len) == IF len < 68 THEN 0 ELSE (len - 68) \div 64 + 1

emit_copy(offset, len) ==
  LET k == Copies64(len)
      r == len - 64 * k
      c == emit_copy_less_than64(offset, 64)
  IN  [i \in 1..(3 * k) |-> c[((i - 1) % 3) + 1]]
        \o (IF r > 64 THEN emit_copy_less_than64(offset, 60)
                             \o emit_copy_less_than64(offset, r - 60)
                      ELSE emit_copy_less_than64(offset, r))

(* The bytes d followed by the len bytes that a copy at distance offset      *)
(* denotes: the last offset bytes of d, over and over.                       *)
CopyOf(d, offset, len) ==
  d \o [i \in 1..len |-> d[Len(d) - offset + 1 + ((i - 1) % offset)]]
=============================================================================
