------------------------------- MODULE Base64 -------------------------------
(***************************************************************************)
(* base64.hpp, which the handshake's key, its answer and a proxy's         *)
(* credentials are written with.  A character is its place in the alphabet *)
(* base64_chars; Pad is "=" and any greater number is no character of it.  *)
(***************************************************************************)
EXTENDS Integers, Sequences, SequencesExt

Pad == 64
NotFound == 255    \* find() of the zero byte, cast to unsigned char

is_base64(x) == x \in 0..63

\* The kth group of n in s, filled up with fill.
Group(s, n, k, fill) ==
  [i \in 1..n |-> IF (k - 1) * n + i <= Len(s) THEN s[(k - 1) * n + i] ELSE fill]
Left(s, n, k) == IF Len(s) >= k * n THEN n ELSE Len(s) - (k - 1) * n
Groups(s, n) == (Len(s) + n - 1) \div n

\* Three bytes are four characters, and back.
Sextets(b) == <<b[1] \div 4, (b[1] % 4) * 16 + (b[2] \div 16),
                (b[2] % 16) * 4 + (b[3] \div 64), b[3] % 64>>
Octets(q) == <<(q[1] * 4 + ((q[2] \div 16) % 4)) % 256,
               ((q[2] % 16) * 16 + ((q[3] \div 4) % 16)) % 256,
               ((q[3] % 4) * 64 + q[4]) % 256>>

\* A group of i bytes is i + 1 characters, then padding.
base64_encode(bytes) ==
  LET Written(k) ==
        LET i == Left(bytes, 3, k) IN
        SubSeq(Sextets(Group(bytes, 3, k, 0)), 1, i + 1) \o [j \in 1..(3 - i) |-> Pad]
  IN FlattenSeq([k \in 1..Groups(bytes, 3) |-> Written(k)])

\* Read up to the first "=" or stranger; i characters of a last group are
\* i - 1 bytes.
base64_decode(input) ==
  LET stop == SelectInSeq(input, LAMBDA x : ~is_base64(x))
      s == IF stop = 0 THEN input ELSE SubSeq(input, 1, stop - 1)
      Kept(k) == LET i == Left(s, 4, k) IN
                 SubSeq(Octets(Group(s, 4, k, NotFound)), 1, i - 1)
  IN FlattenSeq([k \in 1..Groups(s, 4) |-> Kept(k)])
=============================================================================
