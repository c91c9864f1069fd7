----------------------------- MODULE FrameCodec -----------------------------
(***************************************************************************)
(* frame.hpp: the two header bytes and the extended header of a WebSocket  *)
(* frame, written and read back, and the masking of a payload that comes   *)
(* in pieces, by bytes or by words.                                        *)
(***************************************************************************)
EXTENDS Integers, Sequences, SequencesExt

CONSTANTS
  PayloadSizes,   \* the payload sizes a header is written for
  MaskedLength    \* bound: bytes masked

ASSUME CodecAssumption == PayloadSizes \subseteq 0..2147483647 /\ MaskedLength \in Nat

-----------------------------------------------------------------------------
(* opcode and limits.                                                      *)

continuation == 0
text   == 1
binary == 2
close  == 8
ping   == 9
pong   == 10

reserved(op)   == op \in 3..7 \/ op \in 11..15
is_control(op) == op >= 8

payload_size_basic    == 125
payload_size_extended == 65535
payload_size_code_16bit == 126
payload_size_code_64bit == 127

-----------------------------------------------------------------------------
(* basic_header: what its constructor packs and the getters unpack.        *)

Bit(flag, weight) == IF flag THEN weight ELSE 0
HasBit(byte, weight) == (byte \div weight) % 2 = 1

\* Mutant: a payload of exactly 65535 bytes takes the 64-bit form.
SizeCodeOffByOne(size) ==
  CASE size <= payload_size_basic    -> size
    [] size > payload_size_basic /\ size < payload_size_extended -> payload_size_code_16bit
    [] size >= payload_size_extended  -> payload_size_code_64bit

SizeCode(size) ==
  CASE size <= payload_size_basic    -> size
    [] size > payload_size_basic /\ size <= payload_size_extended -> payload_size_code_16bit
    [] size > payload_size_extended  -> payload_size_code_64bit

basic_header(op, size, fin, mask, rsv1) ==
  [b0 |-> Bit(fin, 128) + Bit(rsv1, 64) + (op % 16),
   b1 |-> Bit(mask, 128) + SizeCode(size)]

get_fin(h)        == HasBit(h.b0, 128)
get_rsv1(h)       == HasBit(h.b0, 64)
get_rsv2(h)       == HasBit(h.b0, 32)
get_rsv3(h)       == HasBit(h.b0, 16)
get_opcode(h)     == h.b0 % 16
get_masked(h)     == HasBit(h.b1, 128)
get_basic_size(h) == h.b1 % 128

set_bit(byte, weight, value) ==
  (byte - Bit(HasBit(byte, weight), weight)) + Bit(value, weight)
set_fin(h, value)    == [h EXCEPT !.b0 = set_bit(@, 128, value)]
set_rsv1(h, value)   == [h EXCEPT !.b0 = set_bit(@, 64, value)]
set_rsv2(h, value)   == [h EXCEPT !.b0 = set_bit(@, 32, value)]
set_rsv3(h, value)   == [h EXCEPT !.b0 = set_bit(@, 16, value)]
set_masked(h, value) == [h EXCEPT !.b1 = set_bit(@, 128, value)]

get_masking_key_offset(h) ==
  CASE get_basic_size(h) = payload_size_code_16bit -> 2
    [] get_basic_size(h) = payload_size_code_64bit -> 8
    [] OTHER -> 0

get_header_len(h) == 2 + get_masking_key_offset(h) + (IF get_masked(h) THEN 4 ELSE 0)

-----------------------------------------------------------------------------
(* extended_header: 12 bytes that hold the size in network order, when the *)
(* basic header does not, and then the masking key.                        *)

\* Bound: sizes below 2^31, whose four high bytes are 0.
BigEndian(size, n) ==
  [i \in 1..n |-> IF n - i < 4 THEN (size \div (256 ^ (n - i))) % 256 ELSE 0]
FromBigEndian(bytes) ==
  LET value[i \in 0..Len(bytes)] ==
        IF i = 0 THEN 0 ELSE value[i - 1] * 256 + bytes[i]
  IN value[Len(bytes)]

copy_payload(size) == CASE SizeCode(size) = payload_size_code_16bit -> BigEndian(size, 2)
                        [] SizeCode(size) = payload_size_code_64bit -> BigEndian(size, 8)
                        [] OTHER -> <<>>

extended_header(size, key) ==
  LET used == copy_payload(size) \o key IN
  [i \in 1..12 |-> IF i <= Len(used) THEN used[i] ELSE 0]

prepare_header(h, e) == <<h.b0, h.b1>> \o SubSeq(e, 1, get_header_len(h) - 2)

get_extended_size(e) == FromBigEndian(SubSeq(e, 1, 2))
get_jumbo_size(e)    == FromBigEndian(SubSeq(e, 1, 8))
get_payload_size(h, e) ==
  CASE get_basic_size(h) <= payload_size_basic      -> get_basic_size(h)
    [] get_basic_size(h) = payload_size_code_16bit  -> get_extended_size(e)
    [] get_basic_size(h) = payload_size_code_64bit  -> get_jumbo_size(e)

get_masking_key(h, e) ==
  IF get_masked(h) THEN SubSeq(e, get_masking_key_offset(h) + 1,
                               get_masking_key_offset(h) + 4)
  ELSE <<0, 0, 0, 0>>

\* The headers hybi13's validation turns away as not minimal.
NonMinimal(h, e) ==
  \/ get_basic_size(h) = payload_size_code_16bit /\ get_payload_size(h, e) <= payload_size_basic
  \/ get_basic_size(h) = payload_size_code_64bit /\ get_payload_size(h, e) <= payload_size_extended

-----------------------------------------------------------------------------
(* Masking: the byte of the key that each payload byte is XORed with.  A   *)
(* prepared key is a word of the platform, 8 bytes, the key twice.         *)

Key == <<0, 1, 2, 3>>
prepare_masking_key(key) == key \o key

circshift_prepared_key(k, n) == [i \in 1..8 |-> k[((i - 1 + n) % 8) + 1]]

\* byte_mask and byte_mask_circ restart at the key's first byte each call.
byte_mask(n, k) == [i \in 1..n |-> k[((i - 1) % 4) + 1]]

\* word_mask_exact and word_mask_circ: whole words, then what remains.
word_mask(n, k) == [i \in 1..n |-> k[((i - 1) % 8) + 1]]

\* Mutant: the key is not rotated past what a call has used.
UnshiftedKey(k, n, word) == k

\* The key word_mask_circ or byte_mask_circ returns for the next call.
NextKey(k, n, word) == circshift_prepared_key(k, IF word THEN n % 8 ELSE n % 4)

VARIABLE codec   \* the header last written, and the bytes masked so far

CodecInit == codec = [header |-> <<>>, applied |-> <<>>,
                      prepared_key |-> prepare_masking_key(Key)]

WriteHeader ==
  /\ codec.applied = <<>> /\ codec.header = <<>>
  /\ \E op \in {continuation, text, close, pong}, size \in PayloadSizes,
        fin \in BOOLEAN, mask \in BOOLEAN, rsv1 \in BOOLEAN :
       codec' = [codec EXCEPT !.header =
         <<[op |-> op, size |-> size, fin |-> fin, mask |-> mask, rsv1 |-> rsv1,
            bytes |-> prepare_header(
              basic_header(op, size, fin, mask, rsv1),
              extended_header(size, IF mask THEN <<9, 8, 7, 6>> ELSE <<>>))]>>]

Flip(value) ==
  /\ codec.header # <<>>
  /\ LET r == codec.header[1]
         h == [b0 |-> r.bytes[1], b1 |-> r.bytes[2]]
         g == set_rsv3(set_rsv2(set_rsv1(set_fin(h, value), value), FALSE), FALSE) IN
     codec' = [codec EXCEPT !.header =
       <<[r EXCEPT !.fin = value, !.rsv1 = value,
                   !.bytes = <<g.b0, set_masked(g, r.mask).b1>> \o SubSeq(r.bytes, 3, Len(r.bytes))]>>]

MaskPiece(n, word) ==
  /\ codec.header = <<>> /\ Len(codec.applied) + n <= MaskedLength
  /\ codec' = [codec EXCEPT
       !.applied = @ \o (IF word THEN word_mask(n, codec.prepared_key)
                                 ELSE byte_mask(n, codec.prepared_key)),
       !.prepared_key = NextKey(@, n, word)]

CodecNext ==
  \/ WriteHeader
  \/ \E value \in BOOLEAN : Flip(value)
  \/ \E n \in 1..MaskedLength, word \in BOOLEAN : MaskPiece(n, word)

-----------------------------------------------------------------------------
\* Whoever reads a header that was written finds the size, the flags and the
\* key that went into it, in the shortest form, at every edge of the sizes.
\* However a payload is cut, and whichever routine masks each piece, byte i
\* meets byte i modulo 4 of the key.
CodecExact ==
  /\ \A r \in Range(codec.header) :
       LET h == [b0 |-> r.bytes[1], b1 |-> r.bytes[2]]
           e == SubSeq(r.bytes, 3, Len(r.bytes)) IN
       /\ Len(r.bytes) = get_header_len(h)
       /\ get_opcode(h) = r.op /\ get_fin(h) = r.fin /\ get_masked(h) = r.mask
       /\ get_rsv1(h) = r.rsv1 /\ ~get_rsv2(h) /\ ~get_rsv3(h)
       /\ get_payload_size(h, e) = r.size /\ ~NonMinimal(h, e)
       /\ get_masking_key(h, e) = IF r.mask THEN <<9, 8, 7, 6>> ELSE <<0, 0, 0, 0>>
  /\ \A i \in DOMAIN codec.applied : codec.applied[i] = Key[((i - 1) % 4) + 1]
=============================================================================
