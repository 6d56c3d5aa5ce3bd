------------------------------ MODULE MCSnappy ------------------------------
(* SnappyRoundTrip for TLC: files with the patterns that the compressor      *)
(* tells apart, blocks of a few dozen bytes.                                 *)
EXTENDS SnappyRoundTrip

MCBytes == 0..255

(* n bytes that repeat with period p, starting at byte value v. *)
Periodic(v, p, n) == [i \in 1..n |-> v + ((i - 1) % p)]

(* n bytes in which repeats of four bytes are rare. *)
Noise(n) == [i \in 1..n |-> (i * i * i + 7 * i + 11 * (i \div 251)) % 253]

MCInputs ==
  {<< >>}
    \cup {Noise(n) : n \in {1, 14, 15, 60, 61, 256, 257, 275}}
    \cup {Periodic(3, p, n) : p \in {1, 2, 3, 5, 7, 8, 9}, n \in {15, 17, 70, 132}}
    \cup {Noise(a) \o Periodic(3, p, n) \o Noise(z) :
            a \in {1, 17}, p \in {3, 10}, n \in {5, 19}, z \in {0, 17}}
    \cup {Noise(20) \o Periodic(9, 2, 6) \o Noise(20) \o Periodic(9, 2, 30),
          Periodic(5, 1, 280), Noise(250) \o Periodic(5, 4, 40)}
=============================================================================
