---------------------------- MODULE Utf8Validator ----------------------------
(***************************************************************************)
(* The streaming UTF-8 validator: the byte classes and transitions of its  *)
(* lookup table, fed one byte at a time, against the definition of a       *)
(* well-formed sequence.                                                   *)
(***************************************************************************)
EXTENDS Integers, Sequences

CONSTANTS
  Utf8Bytes,    \* the bytes fed; they should meet every class and edge
  MaxUtf8       \* bound: bytes fed

ASSUME Utf8Assumption == Utf8Bytes \subseteq 0..255 /\ MaxUtf8 \in Nat

utf8_accept == 0
utf8_reject == 1

\* utf8d[0..255]: the first and the last byte of a range, and its class.
ByteClasses ==
  {<<0, 127, 0>>, <<128, 143, 1>>, <<144, 159, 9>>, <<160, 191, 7>>, <<192, 193, 8>>,
   <<194, 223, 2>>, <<224, 224, 10>>, <<225, 236, 3>>, <<237, 237, 4>>, <<238, 239, 3>>,
   <<240, 240, 11>>, <<241, 243, 6>>, <<244, 244, 5>>, <<245, 255, 8>>}

ByteClass(b) == (CHOOSE r \in ByteClasses : r[1] <= b /\ b <= r[2])[3]

\* utf8d[256..]: the next state by class; every other pair rejects.
Transitions ==
  [s \in 0..8 |->
     CASE s = 0 -> [c \in {0, 2, 3, 4, 5, 6, 10, 11} |->
                      CASE c = 0 -> 0 [] c = 2 -> 2 [] c = 3 -> 3 [] c = 4 -> 5
                        [] c = 5 -> 8 [] c = 6 -> 7 [] c = 10 -> 4 [] c = 11 -> 6]
       [] s = 1 -> [c \in {} |-> utf8_reject]
       [] s = 2 -> [c \in {1, 7, 9} |-> 0]
       [] s = 3 -> [c \in {1, 7, 9} |-> 2]
       [] s = 4 -> [c \in {7} |-> 2]
       [] s = 5 -> [c \in {1, 9} |-> 2]
       [] s = 6 -> [c \in {7, 9} |-> 3]
       [] s = 7 -> [c \in {1, 7, 9} |-> 3]
       [] s = 8 -> [c \in {1} |-> 3]]

\* Mutant: surrogates are let through, 237 being like any other lead byte.
DecodeSurrogates(state, b) ==
  LET class == IF b = 237 THEN 3 ELSE ByteClass(b) IN
  IF class \in DOMAIN Transitions[state] THEN Transitions[state][class]
                                         ELSE utf8_reject

\* decode(): the code point it also computes is read by nobody.
Decode(state, b) ==
  IF ByteClass(b) \in DOMAIN Transitions[state]
  THEN Transitions[state][ByteClass(b)] ELSE utf8_reject

-----------------------------------------------------------------------------
VARIABLE utf8      \* the bytes fed and the validator's state

Utf8Init == utf8 = [fed |-> <<>>, m_state |-> utf8_accept]

\* validator::consume, and each step of validator::decode and validate().
Feed == /\ utf8.m_state # utf8_reject /\ Len(utf8.fed) < MaxUtf8
        /\ \E b \in Utf8Bytes :
             utf8' = [fed |-> Append(utf8.fed, b), m_state |-> Decode(utf8.m_state, b)]

-----------------------------------------------------------------------------
(* The reference: a code point is the shortest encoding of a scalar value. *)

Trail(b) == b \in 128..191
IsCodePoint(s) ==
  /\ \A i \in 2..Len(s) : Trail(s[i])
  /\ \/ Len(s) = 1 /\ s[1] < 128
     \/ Len(s) = 2 /\ s[1] \in 192..223 /\ (s[1] - 192) * 64 + (s[2] - 128) >= 128
     \/ /\ Len(s) = 3 /\ s[1] \in 224..239
        /\ LET scalar == (s[1] - 224) * 4096 + (s[2] - 128) * 64 + (s[3] - 128) IN
           scalar >= 2048 /\ (scalar < 55296 \/ scalar > 57343)
     \/ /\ Len(s) = 4 /\ s[1] \in 240..247
        /\ LET scalar == (s[1] - 240) * 262144 + (s[2] - 128) * 4096
                            + (s[3] - 128) * 64 + (s[4] - 128) IN
           scalar >= 65536 /\ scalar <= 1114111

\* Where code points end in s, the first of which begins at its beginning.
CodePointEnds(s) ==
  LET upTo[i \in 0..Len(s)] ==
        IF i = 0 THEN {0}
        ELSE upTo[i - 1] \cup
               {j \in {i} : \E k \in upTo[i - 1] :
                              j - k <= 4 /\ IsCodePoint(SubSeq(s, k + 1, j))}
  IN upTo[Len(s)]

WellFormed(s) == Len(s) \in CodePointEnds(s)

\* The edges of the trailing ranges are enough to complete a code point.
Completions8 == UNION {[1..k -> {128, 143, 144, 159, 160, 191}] : k \in 1..3}
Extendable(s) ==
  \E k \in CodePointEnds(s) :
    \/ k = Len(s)
    \/ /\ Len(s) - k <= 3
       /\ \E t \in Completions8 : IsCodePoint(SubSeq(s, k + 1, Len(s)) \o t)

\* The validator accepts exactly the well-formed sequences, and rejects at the
\* first byte after which no continuation could be one, wherever a message's
\* bytes are split between calls.
Utf8Exact == /\ (utf8.m_state = utf8_accept) = WellFormed(utf8.fed)
             /\ (utf8.m_state = utf8_reject) = ~Extendable(utf8.fed)

Utf8Spec == Utf8Init /\ [][Feed]_utf8
=============================================================================
