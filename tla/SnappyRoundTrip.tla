--------------------------- MODULE SnappyRoundTrip ---------------------------
(* A file is compressed; what was written, a proper prefix of it (an output  *)
(* file that was not written to the end) or the same with one byte changed   *)
(* (a storage error) is later uncompressed from fragments, into a buffer of  *)
(* snappy_uncompressed_length bytes.                                         *)
EXTENDS SnappyUncompress

CONSTANTS
  Chunks,       \* sizes of the fragments that the stream is read in
  Cuts,         \* how many bytes may be missing at the end of the stream
  DamagedAt,    \* which byte of the stream may have changed
  DamagedBytes  \* ... and to what

VARIABLES
  stream,   \* what is uncompressed
  fault     \* how it differs from what was written: "none", "cut", "damaged"

vars == <<compress_vars, uncompress_vars, stream, fault>>

Init == CompressInit /\ UncompressIdle /\ stream = << >> /\ fault = "none"

(* The fragments of s: the first has k - 1 bytes, if k > 1, the others k. *)
Fragments(s, k) ==
  LET first == IF k > 1 THEN k - 1 ELSE 1
      count == IF Len(s) <= first THEN IF Len(s) = 0 THEN 0 ELSE 1
               ELSE 1 + (Len(s) - first + k - 1) \div k
      least(a, b) == IF a <= b THEN a ELSE b
  IN  [i \in 1..count |->
         IF i = 1 THEN SubSeq(s, 1, least(first, Len(s)))
         ELSE SubSeq(s, first + (i - 2) * k + 1, least(first + (i - 1) * k, Len(s)))]

(* The caller allocates what snappy_uncompressed_length says, nothing if it  *)
(* fails, and calls snappy_uncompress_iov.                                   *)
Read(s, k, f) ==
  LET n == snappy_uncompressed_length(s) IN
  /\ UncompressCall(Fragments(s, k), IF n = -1 THEN 0 ELSE n)
  /\ stream' = s /\ fault' = f

ReadBack ==
  /\ cpc = "written"
  /\ \E k \in Chunks :
       \/ \E c \in Cuts :
            /\ c <= Len(out)
            /\ Read(SubSeq(out, 1, Len(out) - c), k, IF c = 0 THEN "none" ELSE "cut")
       \/ \E i \in DamagedAt, b \in DamagedBytes :
            /\ i <= Len(out) /\ out[i] # b
            /\ Read([out EXCEPT ![i] = b], k, "damaged")
  /\ UNCHANGED compress_vars

Compress == CompressNext /\ UNCHANGED <<uncompress_vars, stream, fault>>
Uncompress == UncompressNext /\ UNCHANGED <<compress_vars, stream, fault>>

Finished == upc = "returned" /\ UNCHANGED vars

Next == Compress \/ ReadBack \/ Uncompress \/ Finished

Spec == Init /\ [][Next]_vars

-----------------------------------------------------------------------------
(* The decompressor looks at a tag only when the bytes that belong to it are *)
(* buffered, however the stream is divided and whatever it contains.         *)
TagBuffered == upc = "tag" => Len(buffered) > char_table(buffered[1]).extra

(* The decompressor never writes past the buffer that the caller allocated   *)
(* from snappy_uncompressed_length, its fast paths included, not even when   *)
(* the stream is damaged.                                                    *)
WritesInside ==
  /\ op <= op_limit
  /\ \A i \in DOMAIN mem : i > snappy_uncompressed_length(stream) => mem[i] = Unwritten

(* What was compressed is what comes back, and the call succeeds, however    *)
(* the stream is divided into fragments.                                     *)
RoundTrip ==
  upc = "returned" /\ fault = "none"
    => err = 0 /\ SubSeq(mem, 1, Len(input)) = input

(* A stream that lacks its end is refused.                                   *)
TruncationRefused == upc = "returned" /\ fault = "cut" => err = EIO
=============================================================================
