-------------------------------- MODULE Snappy --------------------------------
(* snappy_compress (include/snappy-c/snappy.c) as the server's Makefile      *)
(* builds it: without SG, so the source is one buffer and the sink another,  *)
(* on a 64-bit little-endian machine, with the assertions compiled in.       *)
(*                                                                           *)
(* An operator X_y is X with the plausible mistake y; no action uses it.     *)
(*                                                                           *)
(* Positions in a block count from 0, as in the code; byte p of the block    *)
(* that starts after base bytes of the input is input[base + p + 1].         *)
EXTENDS Integers, Sequences, SnappyFormat

CONSTANTS
  Bytes,        \* the byte values that occur in files
  Inputs,       \* the files to compress
  kblock_size,  \* bytes compressed with one hash table
  Hash(_, _)    \* hash of a four-byte word, for a table of 2^bits entries

INT_MAX == 2147483647
kmax_block == 65536  \* kblock_size in the code: table entries have 16 bits

(* Blocks of fewer than six bytes would break snappy_max_compressed_length. *)
ASSUME BlockAssumption == kblock_size \in 6..kmax_block

(* The length of the input is an int in compress(). *)
ASSUME InputAssumption ==
  /\ Bytes \subseteq 0..255
  /\ \A s \in Inputs : s \in Seq(Bytes) /\ Len(s) <= INT_MAX

VARIABLES
  cpc,         \* "length", "block", "scan", "match", "remainder", "written"
  input,       \* the source buffer
  base, size,  \* the block: it has size bytes and base bytes precede it
  ip, next_ip, next_emit, skip_bytes, next_hash, candidate,  \* locals
  table,       \* what the hash table holds besides the zeros of memset
  out,         \* the bytes appended to the sink
  decoded,     \* history: what the elements emitted so far stand for
  read_end,    \* history: end of what was read of the block
  write_end    \* history: end of what was written to the output buffer

block_vars == <<base, size>>
scan_vars == <<ip, next_ip, next_emit, skip_bytes, next_hash, candidate, table>>
compress_vars == <<cpc, input, block_vars, scan_vars, out, decoded, read_end, write_end>>

Max2(a, b) == IF a >= b THEN a ELSE b

-----------------------------------------------------------------------------
(* The compressor. *)

CompressInit ==
  /\ cpc = "length"
  /\ input \in Inputs
  /\ base = 0 /\ size = 0
  /\ ip = 0 /\ next_ip = 0 /\ next_emit = 0
  /\ skip_bytes = 32 /\ next_hash = 0 /\ candidate = 0
  /\ table = << >> /\ out = << >> /\ decoded = << >>
  /\ read_end = 0 /\ write_end = 0

(* get_hash_table: 256 entries, or the power of two that holds n, up to 2^14. *)
TableBits(n) == CHOOSE b \in 8..14 : /\ b = 14 \/ 2^b >= n
                                     /\ b = 8 \/ 2^(b - 1) < n

(* The top bits of the low word of bytes * 0x1e35a7bd, multiplied digit by   *)
(* digit in base 256.                                                        *)
hash_bytes(word, bits) ==
  LET k  == <<189, 167, 53, 30>>
      d1 == word[1] * k[1]
      d2 == word[1] * k[2] + word[2] * k[1] + d1 \div 256
      d3 == word[1] * k[3] + word[2] * k[2] + word[3] * k[1] + d2 \div 256
      d4 == word[1] * k[4] + word[2] * k[3] + word[3] * k[2] + word[4] * k[1] + d3 \div 256
  IN  (256 * (d4 % 256) + (d3 % 256)) \div 2^(16 - bits)

WordIn(b, p) == [k \in 1..4 |-> input[b + p + k]]
Word(p) == WordIn(base, p)
HashIn(b, n, p) == Hash(WordIn(b, p), TableBits(n))
HashAt(p) == HashIn(base, size, p)

Lookup(t, h) == IF h \in DOMAIN t THEN t[h] ELSE 0
Insert(t, h, p) == [x \in DOMAIN t \cup {h} |-> IF x = h THEN p ELSE t[x]]

(* Where the block first differs from what follows s1, seen from s2. *)
Mismatches(s1, s2) ==
  {k \in 0..(size - s2 - 1) : input[base + s1 + k + 1] # input[base + s2 + k + 1]}
find_match_length_rest(s1, s2) == size - s2
find_match_length(s1, s2) ==
  IF Mismatches(s1, s2) = {} THEN size - s2
  ELSE CHOOSE k \in Mismatches(s1, s2) : \A j \in Mismatches(s1, s2) : k <= j

kinput_margin_bytes_word == 4
kinput_margin_bytes == 15
ip_limit == size - kinput_margin_bytes

(* emit_literal for the bytes from next_emit to end. The fast path copies    *)
(* sixteen bytes whatever the length.                                        *)
EmitLiteral(end, allow_fast_path) ==
  LET len  == end - next_emit
      head == LiteralHeader(len)
      lit  == SubSeq(input, base + next_emit + 1, base + end)
      fast == allow_fast_path /\ len <= 16
  IN  /\ out' = out \o head \o lit
      /\ decoded' = decoded \o lit
      /\ write_end' = Max2(write_end, Len(out) + Len(head) + (IF fast THEN 16 ELSE len))
      /\ read_end' = Max2(read_end, next_emit + (IF fast THEN 16 ELSE len))

(* compress() appends the length of the input. *)
AppendLength ==
  /\ cpc = "length"
  /\ out' = varint_encode32(Len(input))
  /\ write_end' = Len(out')
  /\ cpc' = "block"
  /\ UNCHANGED <<input, block_vars, scan_vars, decoded, read_end>>

(* The loop of compress() takes the next block and clears the table;         *)
(* compress_fragment looks for matches if the block is long enough. The     *)
(* source is one buffer here, so a block is never gathered from several.     *)
NextBlock ==
  /\ cpc = "block"
  /\ base + size < Len(input)
  /\ LET rest == Len(input) - (base + size) IN
       /\ base' = base + size
       /\ size' = IF rest < kblock_size THEN rest ELSE kblock_size
  /\ table' = << >>
  /\ next_emit' = 0 /\ skip_bytes' = 32 /\ candidate' = 0
  /\ IF size' >= kinput_margin_bytes
     THEN /\ cpc' = "scan"
          /\ ip' = 1 /\ next_ip' = 1
          /\ next_hash' = HashIn(base', size', 1)
          /\ read_end' = 5
     ELSE /\ cpc' = "remainder"
          /\ ip' = 0 /\ next_ip' = 0 /\ read_end' = 0
          /\ UNCHANGED next_hash
  /\ UNCHANGED <<input, out, decoded, write_end>>

CompressDone ==
  /\ cpc = "block"
  /\ base + size = Len(input)
  /\ cpc' = "written"
  /\ UNCHANGED <<input, block_vars, scan_vars, out, decoded, read_end, write_end>>

(* One turn of the loop that looks for a match of four bytes. *)
ScanStop ==
  /\ cpc = "scan"
  /\ LET next == next_ip + skip_bytes \div 32 IN
       /\ next > ip_limit
       /\ ip' = next_ip /\ next_ip' = next
       /\ skip_bytes' = skip_bytes + 1
  /\ cpc' = "remainder"
  /\ UNCHANGED <<input, block_vars, next_emit, next_hash, candidate, table, out, decoded,
                 read_end, write_end>>

Scan(found) ==
  /\ cpc = "scan"
  /\ LET next == next_ip + skip_bytes \div 32
         cand == Lookup(table, next_hash) IN
       /\ next <= ip_limit
       /\ found <=> Word(next_ip) = Word(cand)
       /\ ip' = next_ip /\ next_ip' = next
       /\ skip_bytes' = skip_bytes + 1
       /\ next_hash' = HashAt(next)
       /\ candidate' = cand
       /\ table' = Insert(table, next_hash, next_ip)

ScanMiss ==
  /\ Scan(FALSE)
  /\ read_end' = Max2(read_end, next_ip' + 4)
  /\ UNCHANGED <<cpc, input, block_vars, next_emit, out, decoded, write_end>>

ScanHit ==
  /\ Scan(TRUE)
  /\ cpc' = "match"
  /\ EmitLiteral(next_ip, TRUE)
  /\ UNCHANGED <<input, block_vars, next_emit>>

(* One turn of the loop that emits copies: extend the match, emit it, and    *)
(* see whether another one starts right behind it.                           *)
Match ==
  /\ cpc = "match"
  /\ LET matched == 4 + find_match_length(candidate + 4, ip + 4)
         end     == ip + matched
         t1      == Insert(table, HashAt(end - 1), end - 1)
         cand    == Lookup(t1, HashAt(end))
     IN  /\ out' = out \o emit_copy(ip - candidate, matched)
         /\ write_end' = Max2(write_end, Len(out'))
         /\ decoded' = CopyOf(decoded, ip - candidate, matched)
         /\ next_emit' = end
         /\ IF end >= ip_limit
            THEN /\ cpc' = "remainder"
                 /\ ip' = end
                 /\ read_end' = Max2(read_end, end)
                 /\ UNCHANGED <<next_ip, skip_bytes, next_hash, candidate, table>>
            ELSE /\ table' = Insert(t1, HashAt(end), end)
                 /\ candidate' = cand
                 /\ read_end' = Max2(read_end, end + 7)
                 /\ IF Word(end) = Word(cand)
                    THEN /\ ip' = end
                         /\ UNCHANGED <<cpc, next_ip, skip_bytes, next_hash>>
                    ELSE /\ cpc' = "scan"
                         /\ ip' = end + 1 /\ next_ip' = end + 1
                         /\ skip_bytes' = 32
                         /\ next_hash' = HashAt(end + 1)
  /\ UNCHANGED <<input, block_vars>>

(* emit_remainder *)
Remainder ==
  /\ cpc = "remainder"
  /\ IF next_emit < size THEN EmitLiteral(size, FALSE)
                         ELSE UNCHANGED <<out, decoded, write_end, read_end>>
  /\ cpc' = "block"
  /\ UNCHANGED <<input, block_vars, scan_vars>>

CompressNext ==
  AppendLength \/ NextBlock \/ CompressDone \/ ScanStop \/ ScanMiss \/ ScanHit \/ Match
    \/ Remainder

CompressSpec == CompressInit /\ [][CompressNext]_compress_vars

-----------------------------------------------------------------------------
(* How much of the input the emitted elements account for. *)
Emitted == CASE cpc \in {"block", "written"} -> base + size
             [] cpc = "match" -> base + ip
             [] OTHER -> base + next_emit

(* The elements that compress_fragment has emitted stand for exactly the     *)
(* bytes of the input that it has passed.                                    *)
ElementsFaithful ==
  /\ Len(decoded) = Emitted
  /\ \A i \in 1..Emitted : decoded[i] = input[i]

(* snappy_compress never writes past a buffer of                             *)
(* snappy_max_compressed_length bytes, the eight-byte copies of its fast     *)
(* path included.                                                            *)
OutputFits == write_end <= snappy_max_compressed_length(Len(input))

(* The assertions of compress_fragment hold, and neither the hash of four    *)
(* bytes, nor the eight bytes loaded after a match, nor the sixteen bytes    *)
(* that a short literal copies lie beyond the block.                         *)
CompressAsserts ==
  /\ read_end <= size
  /\ cpc = "scan"  => /\ next_emit < next_ip
                      /\ next_hash = HashAt(next_ip)
                      /\ Lookup(table, next_hash) < next_ip
  /\ cpc = "match" => /\ candidate < ip /\ ip + 4 <= size
                      /\ ip - candidate < kmax_block
                      /\ Word(ip) = Word(candidate)
=============================================================================
