--------------------------- MODULE Framing_proofs ---------------------------
(***************************************************************************)
(* What is proved of the framing: that the UTF-8 validator's table is      *)
(* exact, whatever the bytes and however many; and of the hybi13 processor *)
(* that it delivers each message of a row of frames once, whole and in     *)
(* order, accepts what a processor prepares, and keeps its limits, however *)
(* reads cut the stream.                                                   *)
(***************************************************************************)
EXTENDS Hybi13, NatSets, SequenceTheorems, TLAPS

-----------------------------------------------------------------------------
(* The UTF-8 validator.                                                    *)

Byte == 0..255

\* The trailing bytes are 128 to 191, as bounds.
LEMMA TrailRange == \A b \in Nat : Trail(b) <=> 128 <= b /\ b <= 191
BY DEF Trail

\* The bytes are 0 to 255, as bounds.
LEMMA ByteRange == \A b : b \in Byte <=> b \in Nat /\ b <= 255
BY DEF Byte

\* The table of well-formed sequences: the lead byte tells the length, and
\* which second bytes there may be.
Pair(a, b) == 194 <= a /\ a <= 223 /\ Trail(b)
Triple(a, b) == /\ 224 <= a /\ a <= 239 /\ Trail(b)
                /\ a = 224 => b >= 160
                /\ a = 237 => b < 160
Quadruple(a, b) == /\ 240 <= a /\ a <= 244 /\ Trail(b)
                   /\ a = 240 => b >= 144
                   /\ a = 244 => b < 144

WellFormedBytes(z) ==
  \/ Len(z) = 1 /\ z[1] < 128
  \/ Len(z) = 2 /\ Pair(z[1], z[2])
  \/ Len(z) = 3 /\ Triple(z[1], z[2]) /\ Trail(z[3])
  \/ Len(z) = 4 /\ Quadruple(z[1], z[2]) /\ Trail(z[3]) /\ Trail(z[4])

Two(a, b) == a \in 192..223 /\ (a - 192) * 64 + (b - 128) >= 128
Three(a, b, c) ==
  /\ a \in 224..239
  /\ LET scalar == (a - 224) * 4096 + (b - 128) * 64 + (c - 128) IN
     scalar >= 2048 /\ (scalar < 55296 \/ scalar > 57343)
Four(a, b, c, d) ==
  /\ a \in 240..247
  /\ LET scalar == (a - 240) * 262144 + (b - 128) * 4096 + (c - 128) * 64 + (d - 128) IN
     scalar >= 65536 /\ scalar <= 1114111

\* Two bytes decode to a scalar value that needs them when the lead byte is
\* 194 to 223.
LEMMA PairExact ==
  ASSUME NEW a \in Nat, NEW b \in Nat, Trail(b)
  PROVE  Two(a, b) <=> Pair(a, b)
BY TrailRange, SMT DEF Pair, Two

\* Three bytes decode to a scalar value that needs them, no surrogate, when the
\* second is in the range its lead byte leaves it.
LEMMA TripleExact ==
  ASSUME NEW a \in Nat, NEW b \in Nat, NEW c \in Nat, Trail(b), Trail(c)
  PROVE  Three(a, b, c) <=> Triple(a, b)
BY TrailRange, SMT DEF Triple, Three

\* Four bytes decode to a scalar value that needs them and is none past the last
\* when the second is in the range its lead byte leaves it.
LEMMA QuadrupleExact ==
  ASSUME NEW a \in Nat, NEW b \in Nat, NEW c \in Nat, NEW d \in Nat,
         Trail(b), Trail(c), Trail(d)
  PROVE  Four(a, b, c, d) <=> Quadruple(a, b)
BY TrailRange, SMT DEF Quadruple, Four

\* The definition by scalar values and the table of well-formed bytes agree.
LEMMA CodePointTable ==
  ASSUME NEW z \in Seq(Byte)
  PROVE  IsCodePoint(z) <=> WellFormedBytes(z)
<1> DEFINE trails == \A i \in 2..Len(z) : Trail(z[i])
           a == z[1]
           b == z[2]
           c == z[3]
           d == z[4]
<1>0. Len(z) \in Nat /\ \A i \in 1..Len(z) : z[i] \in Nat
  BY ByteRange
<1>6. IsCodePoint(z) <=>
        /\ trails
        /\ \/ Len(z) = 1 /\ a < 128
           \/ Len(z) = 2 /\ Two(a, b)
           \/ Len(z) = 3 /\ Three(a, b, c)
           \/ Len(z) = 4 /\ Four(a, b, c, d)
  BY SMT DEF IsCodePoint, Two, Three, Four
<1>1. CASE Len(z) = 1
  <2>1. trails
    BY <1>1
  <2> HIDE DEF trails
  <2> QED BY ONLY <1>1, <2>1, <1>6, SMT DEF WellFormedBytes
<1>2. CASE Len(z) = 2
  <2>1. a \in Nat /\ b \in Nat
    BY <1>0, <1>2
  <2>2. trails <=> Trail(b)
    BY <1>2
  <2>3. Pair(a, b) => Trail(b)
    BY DEF Pair
  <2>4. Trail(b) => (Two(a, b) <=> Pair(a, b))
    BY <2>1, PairExact
  <2> HIDE DEF trails
  <2> QED BY ONLY <1>2, <2>2, <2>3, <2>4, <1>6, SMT DEF WellFormedBytes
<1>3. CASE Len(z) = 3
  <2>1. a \in Nat /\ b \in Nat /\ c \in Nat
    BY <1>0, <1>3
  <2>2. trails <=> Trail(b) /\ Trail(c)
    BY <1>3
  <2>3. Triple(a, b) => Trail(b)
    BY DEF Triple
  <2>4. Trail(b) /\ Trail(c) => (Three(a, b, c) <=> Triple(a, b))
    BY <2>1, TripleExact
  <2> HIDE DEF trails
  <2> QED BY ONLY <1>3, <2>2, <2>3, <2>4, <1>6, SMT DEF WellFormedBytes
<1>4. CASE Len(z) = 4
  <2>1. a \in Nat /\ b \in Nat /\ c \in Nat /\ d \in Nat
    BY <1>0, <1>4
  <2>2. trails <=> Trail(b) /\ Trail(c) /\ Trail(d)
    BY <1>4
  <2>3. Quadruple(a, b) => Trail(b)
    BY DEF Quadruple
  <2>4. Trail(b) /\ Trail(c) /\ Trail(d) =>
          (Four(a, b, c, d) <=> Quadruple(a, b))
    BY <2>1, QuadrupleExact
  <2> HIDE DEF trails
  <2> QED BY ONLY <1>4, <2>2, <2>3, <2>4, <1>6, SMT DEF WellFormedBytes
<1>5. CASE Len(z) \notin {1, 2, 3, 4}
  BY ONLY <1>5, <1>6, SMT DEF WellFormedBytes
<1> QED BY <1>1, <1>2, <1>3, <1>4, <1>5

\* No byte is in two ranges of the lookup table.
LEMMA ClassesApart ==
  ASSUME NEW b \in Nat, NEW q \in ByteClasses, NEW r \in ByteClasses,
         q[1] <= b, b <= q[2], r[1] <= b, b <= r[2]
  PROVE  q = r
BY SMT DEF ByteClasses

\* A byte's class is that of the range it is in.
LEMMA ClassOf ==
  ASSUME NEW b \in Nat, NEW r \in ByteClasses, r[1] <= b, b <= r[2]
  PROVE  ByteClass(b) = r[3]
BY ClassesApart, Zenon DEF ByteClass

\* The class of each byte.
LEMMA ClassTable ==
  ASSUME NEW b \in Nat, b <= 255
  PROVE  /\ b < 128 => ByteClass(b) = 0
         /\ 128 <= b /\ b < 144 => ByteClass(b) = 1
         /\ 144 <= b /\ b < 160 => ByteClass(b) = 9
         /\ 160 <= b /\ b < 192 => ByteClass(b) = 7
         /\ 192 <= b /\ b < 194 => ByteClass(b) = 8
         /\ 194 <= b /\ b < 224 => ByteClass(b) = 2
         /\ b = 224 => ByteClass(b) = 10
         /\ 225 <= b /\ b < 240 /\ b # 237 => ByteClass(b) = 3
         /\ b = 237 => ByteClass(b) = 4
         /\ b = 240 => ByteClass(b) = 11
         /\ 241 <= b /\ b < 244 => ByteClass(b) = 6
         /\ b = 244 => ByteClass(b) = 5
         /\ 245 <= b => ByteClass(b) = 8
<1>1. \A r \in ByteClasses : r[1] <= b /\ b <= r[2] => ByteClass(b) = r[3]
  BY ClassOf
<1>2. /\ <<0, 127, 0>> \in ByteClasses /\ <<128, 143, 1>> \in ByteClasses
      /\ <<144, 159, 9>> \in ByteClasses /\ <<160, 191, 7>> \in ByteClasses
      /\ <<192, 193, 8>> \in ByteClasses /\ <<194, 223, 2>> \in ByteClasses
      /\ <<224, 224, 10>> \in ByteClasses /\ <<225, 236, 3>> \in ByteClasses
      /\ <<237, 237, 4>> \in ByteClasses /\ <<238, 239, 3>> \in ByteClasses
      /\ <<240, 240, 11>> \in ByteClasses /\ <<241, 243, 6>> \in ByteClasses
      /\ <<244, 244, 5>> \in ByteClasses /\ <<245, 255, 8>> \in ByteClasses
  BY SMT DEF ByteClasses
<1>3. \A x, y, z : <<x, y, z>> \in ByteClasses => (x <= b /\ b <= y => ByteClass(b) = z)
  BY <1>1
<1>4. /\ 0 <= b /\ b <= 127 => ByteClass(b) = 0
      /\ 128 <= b /\ b <= 143 => ByteClass(b) = 1
      /\ 144 <= b /\ b <= 159 => ByteClass(b) = 9
      /\ 160 <= b /\ b <= 191 => ByteClass(b) = 7
      /\ 192 <= b /\ b <= 193 => ByteClass(b) = 8
      /\ 194 <= b /\ b <= 223 => ByteClass(b) = 2
      /\ 224 <= b /\ b <= 224 => ByteClass(b) = 10
      /\ 225 <= b /\ b <= 236 => ByteClass(b) = 3
      /\ 237 <= b /\ b <= 237 => ByteClass(b) = 4
      /\ 238 <= b /\ b <= 239 => ByteClass(b) = 3
      /\ 240 <= b /\ b <= 240 => ByteClass(b) = 11
      /\ 241 <= b /\ b <= 243 => ByteClass(b) = 6
      /\ 244 <= b /\ b <= 244 => ByteClass(b) = 5
      /\ 245 <= b /\ b <= 255 => ByteClass(b) = 8
  BY <1>2, <1>3, SMT
<1> QED BY <1>4, SMT

\* The transitions of each state.
LEMMA TransitionRows ==
      /\ Transitions[0] = [k \in {0, 2, 3, 4, 5, 6, 10, 11} |->
                      CASE k = 0 -> 0 [] k = 2 -> 2 [] k = 3 -> 3 [] k = 4 -> 5
                        [] k = 5 -> 8 [] k = 6 -> 7 [] k = 10 -> 4 [] k = 11 -> 6]
      /\ Transitions[1] = [k \in {} |-> 1]
      /\ Transitions[2] = [k \in {1, 7, 9} |-> 0]
      /\ Transitions[3] = [k \in {1, 7, 9} |-> 2]
      /\ Transitions[4] = [k \in {7} |-> 2]
      /\ Transitions[5] = [k \in {1, 9} |-> 2]
      /\ Transitions[6] = [k \in {7, 9} |-> 3]
      /\ Transitions[7] = [k \in {1, 7, 9} |-> 3]
      /\ Transitions[8] = [k \in {1} |-> 3]
  BY DEF Transitions, utf8_reject

\* The next state, by the byte itself.
LEMMA DecodeTable ==
  ASSUME NEW b \in Nat, b <= 255
  PROVE  /\ Decode(0, b) = IF b < 128 THEN 0 ELSE IF b < 194 THEN 1
                           ELSE IF b < 224 THEN 2 ELSE IF b = 224 THEN 4
                           ELSE IF b = 237 THEN 5 ELSE IF b < 240 THEN 3
                           ELSE IF b = 240 THEN 6 ELSE IF b < 244 THEN 7
                           ELSE IF b = 244 THEN 8 ELSE 1
         /\ Decode(1, b) = 1
         /\ Decode(2, b) = IF Trail(b) THEN 0 ELSE 1
         /\ Decode(3, b) = IF Trail(b) THEN 2 ELSE 1
         /\ Decode(4, b) = IF Trail(b) /\ b >= 160 THEN 2 ELSE 1
         /\ Decode(5, b) = IF Trail(b) /\ b < 160 THEN 2 ELSE 1
         /\ Decode(6, b) = IF Trail(b) /\ b >= 144 THEN 3 ELSE 1
         /\ Decode(7, b) = IF Trail(b) THEN 3 ELSE 1
         /\ Decode(8, b) = IF Trail(b) /\ b < 144 THEN 3 ELSE 1
<1> DEFINE c == ByteClass(b)
<1>1. \A s \in 0..8 : Decode(s, b) = IF c \in DOMAIN Transitions[s] THEN Transitions[s][c]
                                                                  ELSE 1
  BY DEF Decode, utf8_reject
<1> HIDE DEF c
<1>2. c \in {0, 1, 2, 3, 4, 5, 6, 7, 8, 9, 10, 11}
  BY ClassTable, SMT DEF c
<1>3. /\ c = 0 => Transitions[0][c] = 0
      /\ c = 2 => Transitions[0][c] = 2
      /\ c = 3 => Transitions[0][c] = 3
      /\ c = 4 => Transitions[0][c] = 5
      /\ c = 5 => Transitions[0][c] = 8
      /\ c = 6 => Transitions[0][c] = 7
      /\ c = 10 => Transitions[0][c] = 4
      /\ c = 11 => Transitions[0][c] = 6
      /\ DOMAIN Transitions[0] = {0, 2, 3, 4, 5, 6, 10, 11}
  BY TransitionRows
<1>4. /\ Decode(1, b) = 1
      /\ Decode(2, b) = IF c \in {1, 7, 9} THEN 0 ELSE 1
      /\ Decode(3, b) = IF c \in {1, 7, 9} THEN 2 ELSE 1
      /\ Decode(4, b) = IF c = 7 THEN 2 ELSE 1
      /\ Decode(5, b) = IF c \in {1, 9} THEN 2 ELSE 1
  BY <1>1, TransitionRows
<1>5. /\ Decode(6, b) = IF c \in {7, 9} THEN 3 ELSE 1
      /\ Decode(7, b) = IF c \in {1, 7, 9} THEN 3 ELSE 1
      /\ Decode(8, b) = IF c = 1 THEN 3 ELSE 1
  BY <1>1, TransitionRows
<1>6. Decode(0, b) = IF c = 0 THEN 0 ELSE IF c = 2 THEN 2 ELSE IF c = 3 THEN 3
                     ELSE IF c = 4 THEN 5 ELSE IF c = 5 THEN 8 ELSE IF c = 6 THEN 7
                     ELSE IF c = 10 THEN 4 ELSE IF c = 11 THEN 6 ELSE 1
  BY <1>1, <1>2, <1>3
<1>7. /\ c \in {1, 7, 9} <=> Trail(b)
      /\ c \in {7, 9} <=> Trail(b) /\ b >= 144
      /\ c \in {1, 9} <=> Trail(b) /\ b < 160
      /\ c = 7 <=> Trail(b) /\ b >= 160
      /\ c = 1 <=> Trail(b) /\ b < 144
  BY ClassTable, TrailRange, SMT DEF c
<1>8. Decode(0, b) = IF b < 128 THEN 0 ELSE IF b < 194 THEN 1
                           ELSE IF b < 224 THEN 2 ELSE IF b = 224 THEN 4
                           ELSE IF b = 237 THEN 5 ELSE IF b < 240 THEN 3
                           ELSE IF b = 240 THEN 6 ELSE IF b < 244 THEN 7
                           ELSE IF b = 244 THEN 8 ELSE 1
  BY <1>6, ClassTable, SMT DEF c
<1> QED BY <1>4, <1>5, <1>7, <1>8

\* The begun code point w, as the validator's state tells it.
Lead3(a) == 225 <= a /\ a <= 239 /\ a # 237
Lead4(a) == 241 <= a /\ a <= 243
Shape(st, w) ==
  \/ st = 0 /\ Len(w) = 0
  \/ st = 2 /\ Len(w) = 1 /\ 194 <= w[1] /\ w[1] <= 223
  \/ st = 2 /\ Len(w) = 2 /\ Triple(w[1], w[2])
  \/ st = 2 /\ Len(w) = 3 /\ Quadruple(w[1], w[2]) /\ Trail(w[3])
  \/ st = 3 /\ Len(w) = 1 /\ Lead3(w[1])
  \/ st = 3 /\ Len(w) = 2 /\ Quadruple(w[1], w[2])
  \/ st = 4 /\ Len(w) = 1 /\ w[1] = 224
  \/ st = 5 /\ Len(w) = 1 /\ w[1] = 237
  \/ st = 6 /\ Len(w) = 1 /\ w[1] = 240
  \/ st = 7 /\ Len(w) = 1 /\ Lead4(w[1])
  \/ st = 8 /\ Len(w) = 1 /\ w[1] = 244

\* After one more byte, as the next state tells: the code point is complete, or
\* still begun, or there is none that begins so.
LEMMA ShapeNext ==
  ASSUME NEW st \in 0..8, NEW w \in Seq(Byte), Shape(st, w), NEW b \in Byte
  PROVE  LET d == Decode(st, b)  v == Append(w, b) IN
         /\ d \in 0..8
         /\ d = 0 => WellFormedBytes(v)
         /\ d > 1 => Shape(d, v) /\ ~WellFormedBytes(v)
         /\ d = 1 => \A z \in Seq(Byte) :
                       Len(z) >= Len(v) /\ (\A i \in 1..Len(v) : z[i] = v[i])
                         => ~WellFormedBytes(z)
<1> DEFINE v == Append(w, b)
           d == Decode(st, b)
<1>0. /\ b \in Nat /\ b <= 255 /\ v \in Seq(Byte) /\ Len(v) = Len(w) + 1 /\ v[Len(v)] = b
      /\ \A i \in 1..Len(w) : v[i] = w[i] /\ w[i] \in Nat /\ w[i] <= 255
      /\ Len(w) \in Nat
  BY ByteRange
<1>00. d \in 0..8
  BY <1>0, DecodeTable DEF Shape
<1>z. ASSUME NEW z \in Seq(Byte), Len(z) >= Len(v), \A i \in 1..Len(v) : z[i] = v[i]
      PROVE  /\ Len(v) >= 1 => z[1] = v[1]
             /\ Len(v) >= 2 => z[2] = v[2]
             /\ Len(v) >= 3 => z[3] = v[3]
             /\ Len(v) >= 4 => z[4] = v[4]
             /\ Len(z) \in Nat /\ \A i \in 1..Len(z) : z[i] \in Nat
  <2>1. Len(v) \in Nat /\ Len(z) \in Nat /\ \A i \in 1..Len(z) : z[i] \in Nat
    BY <1>0, ByteRange
  <2> HIDE DEF v
  <2> QED BY <2>1, <1>z
<1>1. CASE st = 0 /\ Len(w) = 0
  <2>1. /\ Len(w) = 0 /\ Len(v) = 1 /\ v[1] = b
    BY <1>0, <1>1
  <2>2. d = Decode(0, b)
    BY <1>1
  <2> HIDE DEF v, d
  <2>3. d = 0 => WellFormedBytes(v)
    BY ONLY <1>1, <1>0, <2>1, <2>2, DecodeTable, TrailRange, SMT
       DEF WellFormedBytes, Pair, Triple, Quadruple, Lead3, Lead4
  <2>4. d > 1 => Shape(d, v) /\ ~WellFormedBytes(v)
    BY ONLY <1>1, <1>0, <2>1, <2>2, DecodeTable, TrailRange, SMT
       DEF WellFormedBytes, Shape, Pair, Triple, Quadruple, Lead3, Lead4
  <2>5. ASSUME d = 1, NEW z \in Seq(Byte), Len(z) >= Len(v),
               \A i \in 1..Len(v) : z[i] = v[i]
        PROVE  ~WellFormedBytes(z)
    <3>1. /\ Len(z) \in Nat /\ Len(z) >= 1 /\ z[1] = b
      BY <1>z, <2>5, <2>1
    <3> QED BY ONLY <3>1, <1>1, <1>0, <2>1, <2>2, <2>5, DecodeTable, TrailRange, SMT
            DEF WellFormedBytes, Pair, Triple, Quadruple, Lead3, Lead4
  <2> QED BY <2>3, <2>4, <2>5, <1>00 DEF v, d
<1>2. CASE st = 2 /\ Len(w) = 1 /\ 194 <= w[1] /\ w[1] <= 223
  <2>1. /\ Len(w) = 1 /\ Len(v) = 2 /\ v[2] = b
        /\ v[1] = w[1] /\ w[1] \in Nat /\ w[1] <= 255
    BY <1>0, <1>2
  <2>2. d = Decode(2, b)
    BY <1>2
  <2> HIDE DEF v, d
  <2>3. d = 0 => WellFormedBytes(v)
    BY ONLY <1>2, <1>0, <2>1, <2>2, DecodeTable, TrailRange, SMT
       DEF WellFormedBytes, Pair, Triple, Quadruple, Lead3, Lead4
  <2>4. d > 1 => Shape(d, v) /\ ~WellFormedBytes(v)
    BY ONLY <1>2, <1>0, <2>1, <2>2, DecodeTable, TrailRange, SMT
       DEF WellFormedBytes, Shape, Pair, Triple, Quadruple, Lead3, Lead4
  <2>5. ASSUME d = 1, NEW z \in Seq(Byte), Len(z) >= Len(v),
               \A i \in 1..Len(v) : z[i] = v[i]
        PROVE  ~WellFormedBytes(z)
    <3>1. /\ Len(z) \in Nat /\ Len(z) >= 2 /\ z[2] = b
          /\ z[1] = w[1]
      BY <1>z, <2>5, <2>1
    <3> QED BY ONLY <3>1, <1>2, <1>0, <2>1, <2>2, <2>5, DecodeTable, TrailRange, SMT
            DEF WellFormedBytes, Pair, Triple, Quadruple, Lead3, Lead4
  <2> QED BY <2>3, <2>4, <2>5, <1>00 DEF v, d
<1>3. CASE st = 2 /\ Len(w) = 2 /\ Triple(w[1], w[2])
  <2>1. /\ Len(w) = 2 /\ Len(v) = 3 /\ v[3] = b
        /\ v[1] = w[1] /\ w[1] \in Nat /\ w[1] <= 255
        /\ v[2] = w[2] /\ w[2] \in Nat /\ w[2] <= 255
    BY <1>0, <1>3
  <2>2. d = Decode(2, b)
    BY <1>3
  <2> HIDE DEF v, d
  <2>3. d = 0 => WellFormedBytes(v)
    BY ONLY <1>3, <1>0, <2>1, <2>2, DecodeTable, TrailRange, SMT
       DEF WellFormedBytes, Pair, Triple, Quadruple, Lead3, Lead4
  <2>4. d > 1 => Shape(d, v) /\ ~WellFormedBytes(v)
    BY ONLY <1>3, <1>0, <2>1, <2>2, DecodeTable, TrailRange, SMT
       DEF WellFormedBytes, Shape, Pair, Triple, Quadruple, Lead3, Lead4
  <2>5. ASSUME d = 1, NEW z \in Seq(Byte), Len(z) >= Len(v),
               \A i \in 1..Len(v) : z[i] = v[i]
        PROVE  ~WellFormedBytes(z)
    <3>1. /\ Len(z) \in Nat /\ Len(z) >= 3 /\ z[3] = b
          /\ z[1] = w[1]
          /\ z[2] = w[2]
      BY <1>z, <2>5, <2>1
    <3> QED BY ONLY <3>1, <1>3, <1>0, <2>1, <2>2, <2>5, DecodeTable, TrailRange, SMT
            DEF WellFormedBytes, Pair, Triple, Quadruple, Lead3, Lead4
  <2> QED BY <2>3, <2>4, <2>5, <1>00 DEF v, d
<1>4. CASE st = 2 /\ Len(w) = 3 /\ Quadruple(w[1], w[2]) /\ Trail(w[3])
  <2>1. /\ Len(w) = 3 /\ Len(v) = 4 /\ v[4] = b
        /\ v[1] = w[1] /\ w[1] \in Nat /\ w[1] <= 255
        /\ v[2] = w[2] /\ w[2] \in Nat /\ w[2] <= 255
        /\ v[3] = w[3] /\ w[3] \in Nat /\ w[3] <= 255
    BY <1>0, <1>4
  <2>2. d = Decode(2, b)
    BY <1>4
  <2> HIDE DEF v, d
  <2>3. d = 0 => WellFormedBytes(v)
    BY ONLY <1>4, <1>0, <2>1, <2>2, DecodeTable, TrailRange, SMT
       DEF WellFormedBytes, Pair, Triple, Quadruple, Lead3, Lead4
  <2>4. d > 1 => Shape(d, v) /\ ~WellFormedBytes(v)
    BY ONLY <1>4, <1>0, <2>1, <2>2, DecodeTable, TrailRange, SMT
       DEF WellFormedBytes, Shape, Pair, Triple, Quadruple, Lead3, Lead4
  <2>5. ASSUME d = 1, NEW z \in Seq(Byte), Len(z) >= Len(v),
               \A i \in 1..Len(v) : z[i] = v[i]
        PROVE  ~WellFormedBytes(z)
    <3>1. /\ Len(z) \in Nat /\ Len(z) >= 4 /\ z[4] = b
          /\ z[1] = w[1]
          /\ z[2] = w[2]
          /\ z[3] = w[3]
      BY <1>z, <2>5, <2>1
    <3> QED BY ONLY <3>1, <1>4, <1>0, <2>1, <2>2, <2>5, DecodeTable, TrailRange, SMT
            DEF WellFormedBytes, Pair, Triple, Quadruple, Lead3, Lead4
  <2> QED BY <2>3, <2>4, <2>5, <1>00 DEF v, d
<1>5. CASE st = 3 /\ Len(w) = 1 /\ Lead3(w[1])
  <2>1. /\ Len(w) = 1 /\ Len(v) = 2 /\ v[2] = b
        /\ v[1] = w[1] /\ w[1] \in Nat /\ w[1] <= 255
    BY <1>0, <1>5
  <2>2. d = Decode(3, b)
    BY <1>5
  <2> HIDE DEF v, d
  <2>3. d = 0 => WellFormedBytes(v)
    BY ONLY <1>5, <1>0, <2>1, <2>2, DecodeTable, TrailRange, SMT
       DEF WellFormedBytes, Pair, Triple, Quadruple, Lead3, Lead4
  <2>4. d > 1 => Shape(d, v) /\ ~WellFormedBytes(v)
    BY ONLY <1>5, <1>0, <2>1, <2>2, DecodeTable, TrailRange, SMT
       DEF WellFormedBytes, Shape, Pair, Triple, Quadruple, Lead3, Lead4
  <2>5. ASSUME d = 1, NEW z \in Seq(Byte), Len(z) >= Len(v),
               \A i \in 1..Len(v) : z[i] = v[i]
        PROVE  ~WellFormedBytes(z)
    <3>1. /\ Len(z) \in Nat /\ Len(z) >= 2 /\ z[2] = b
          /\ z[1] = w[1]
      BY <1>z, <2>5, <2>1
    <3> QED BY ONLY <3>1, <1>5, <1>0, <2>1, <2>2, <2>5, DecodeTable, TrailRange, SMT
            DEF WellFormedBytes, Pair, Triple, Quadruple, Lead3, Lead4
  <2> QED BY <2>3, <2>4, <2>5, <1>00 DEF v, d
<1>6. CASE st = 3 /\ Len(w) = 2 /\ Quadruple(w[1], w[2])
  <2>1. /\ Len(w) = 2 /\ Len(v) = 3 /\ v[3] = b
        /\ v[1] = w[1] /\ w[1] \in Nat /\ w[1] <= 255
        /\ v[2] = w[2] /\ w[2] \in Nat /\ w[2] <= 255
    BY <1>0, <1>6
  <2>2. d = Decode(3, b)
    BY <1>6
  <2> HIDE DEF v, d
  <2>3. d = 0 => WellFormedBytes(v)
    BY ONLY <1>6, <1>0, <2>1, <2>2, DecodeTable, TrailRange, SMT
       DEF WellFormedBytes, Pair, Triple, Quadruple, Lead3, Lead4
  <2>4. d > 1 => Shape(d, v) /\ ~WellFormedBytes(v)
    BY ONLY <1>6, <1>0, <2>1, <2>2, DecodeTable, TrailRange, SMT
       DEF WellFormedBytes, Shape, Pair, Triple, Quadruple, Lead3, Lead4
  <2>5. ASSUME d = 1, NEW z \in Seq(Byte), Len(z) >= Len(v),
               \A i \in 1..Len(v) : z[i] = v[i]
        PROVE  ~WellFormedBytes(z)
    <3>1. /\ Len(z) \in Nat /\ Len(z) >= 3 /\ z[3] = b
          /\ z[1] = w[1]
          /\ z[2] = w[2]
      BY <1>z, <2>5, <2>1
    <3> QED BY ONLY <3>1, <1>6, <1>0, <2>1, <2>2, <2>5, DecodeTable, TrailRange, SMT
            DEF WellFormedBytes, Pair, Triple, Quadruple, Lead3, Lead4
  <2> QED BY <2>3, <2>4, <2>5, <1>00 DEF v, d
<1>7. CASE st = 4 /\ Len(w) = 1 /\ w[1] = 224
  <2>1. /\ Len(w) = 1 /\ Len(v) = 2 /\ v[2] = b
        /\ v[1] = w[1] /\ w[1] \in Nat /\ w[1] <= 255
    BY <1>0, <1>7
  <2>2. d = Decode(4, b)
    BY <1>7
  <2> HIDE DEF v, d
  <2>3. d = 0 => WellFormedBytes(v)
    BY ONLY <1>7, <1>0, <2>1, <2>2, DecodeTable, TrailRange, SMT
       DEF WellFormedBytes, Pair, Triple, Quadruple, Lead3, Lead4
  <2>4. d > 1 => Shape(d, v) /\ ~WellFormedBytes(v)
    BY ONLY <1>7, <1>0, <2>1, <2>2, DecodeTable, TrailRange, SMT
       DEF WellFormedBytes, Shape, Pair, Triple, Quadruple, Lead3, Lead4
  <2>5. ASSUME d = 1, NEW z \in Seq(Byte), Len(z) >= Len(v),
               \A i \in 1..Len(v) : z[i] = v[i]
        PROVE  ~WellFormedBytes(z)
    <3>1. /\ Len(z) \in Nat /\ Len(z) >= 2 /\ z[2] = b
          /\ z[1] = w[1]
      BY <1>z, <2>5, <2>1
    <3> QED BY ONLY <3>1, <1>7, <1>0, <2>1, <2>2, <2>5, DecodeTable, TrailRange, SMT
            DEF WellFormedBytes, Pair, Triple, Quadruple, Lead3, Lead4
  <2> QED BY <2>3, <2>4, <2>5, <1>00 DEF v, d
<1>8. CASE st = 5 /\ Len(w) = 1 /\ w[1] = 237
  <2>1. /\ Len(w) = 1 /\ Len(v) = 2 /\ v[2] = b
        /\ v[1] = w[1] /\ w[1] \in Nat /\ w[1] <= 255
    BY <1>0, <1>8
  <2>2. d = Decode(5, b)
    BY <1>8
  <2> HIDE DEF v, d
  <2>3. d = 0 => WellFormedBytes(v)
    BY ONLY <1>8, <1>0, <2>1, <2>2, DecodeTable, TrailRange, SMT
       DEF WellFormedBytes, Pair, Triple, Quadruple, Lead3, Lead4
  <2>4. d > 1 => Shape(d, v) /\ ~WellFormedBytes(v)
    BY ONLY <1>8, <1>0, <2>1, <2>2, DecodeTable, TrailRange, SMT
       DEF WellFormedBytes, Shape, Pair, Triple, Quadruple, Lead3, Lead4
  <2>5. ASSUME d = 1, NEW z \in Seq(Byte), Len(z) >= Len(v),
               \A i \in 1..Len(v) : z[i] = v[i]
        PROVE  ~WellFormedBytes(z)
    <3>1. /\ Len(z) \in Nat /\ Len(z) >= 2 /\ z[2] = b
          /\ z[1] = w[1]
      BY <1>z, <2>5, <2>1
    <3> QED BY ONLY <3>1, <1>8, <1>0, <2>1, <2>2, <2>5, DecodeTable, TrailRange, SMT
            DEF WellFormedBytes, Pair, Triple, Quadruple, Lead3, Lead4
  <2> QED BY <2>3, <2>4, <2>5, <1>00 DEF v, d
<1>9. CASE st = 6 /\ Len(w) = 1 /\ w[1] = 240
  <2>1. /\ Len(w) = 1 /\ Len(v) = 2 /\ v[2] = b
        /\ v[1] = w[1] /\ w[1] \in Nat /\ w[1] <= 255
    BY <1>0, <1>9
  <2>2. d = Decode(6, b)
    BY <1>9
  <2> HIDE DEF v, d
  <2>3. d = 0 => WellFormedBytes(v)
    BY ONLY <1>9, <1>0, <2>1, <2>2, DecodeTable, TrailRange, SMT
       DEF WellFormedBytes, Pair, Triple, Quadruple, Lead3, Lead4
  <2>4. d > 1 => Shape(d, v) /\ ~WellFormedBytes(v)
    BY ONLY <1>9, <1>0, <2>1, <2>2, DecodeTable, TrailRange, SMT
       DEF WellFormedBytes, Shape, Pair, Triple, Quadruple, Lead3, Lead4
  <2>5. ASSUME d = 1, NEW z \in Seq(Byte), Len(z) >= Len(v),
               \A i \in 1..Len(v) : z[i] = v[i]
        PROVE  ~WellFormedBytes(z)
    <3>1. /\ Len(z) \in Nat /\ Len(z) >= 2 /\ z[2] = b
          /\ z[1] = w[1]
      BY <1>z, <2>5, <2>1
    <3> QED BY ONLY <3>1, <1>9, <1>0, <2>1, <2>2, <2>5, DecodeTable, TrailRange, SMT
            DEF WellFormedBytes, Pair, Triple, Quadruple, Lead3, Lead4
  <2> QED BY <2>3, <2>4, <2>5, <1>00 DEF v, d
<1>10. CASE st = 7 /\ Len(w) = 1 /\ Lead4(w[1])
  <2>1. /\ Len(w) = 1 /\ Len(v) = 2 /\ v[2] = b
        /\ v[1] = w[1] /\ w[1] \in Nat /\ w[1] <= 255
    BY <1>0, <1>10
  <2>2. d = Decode(7, b)
    BY <1>10
  <2> HIDE DEF v, d
  <2>3. d = 0 => WellFormedBytes(v)
    BY ONLY <1>10, <1>0, <2>1, <2>2, DecodeTable, TrailRange, SMT
       DEF WellFormedBytes, Pair, Triple, Quadruple, Lead3, Lead4
  <2>4. d > 1 => Shape(d, v) /\ ~WellFormedBytes(v)
    BY ONLY <1>10, <1>0, <2>1, <2>2, DecodeTable, TrailRange, SMT
       DEF WellFormedBytes, Shape, Pair, Triple, Quadruple, Lead3, Lead4
  <2>5. ASSUME d = 1, NEW z \in Seq(Byte), Len(z) >= Len(v),
               \A i \in 1..Len(v) : z[i] = v[i]
        PROVE  ~WellFormedBytes(z)
    <3>1. /\ Len(z) \in Nat /\ Len(z) >= 2 /\ z[2] = b
          /\ z[1] = w[1]
      BY <1>z, <2>5, <2>1
    <3> QED BY ONLY <3>1, <1>10, <1>0, <2>1, <2>2, <2>5, DecodeTable, TrailRange, SMT
            DEF WellFormedBytes, Pair, Triple, Quadruple, Lead3, Lead4
  <2> QED BY <2>3, <2>4, <2>5, <1>00 DEF v, d
<1>11. CASE st = 8 /\ Len(w) = 1 /\ w[1] = 244
  <2>1. /\ Len(w) = 1 /\ Len(v) = 2 /\ v[2] = b
        /\ v[1] = w[1] /\ w[1] \in Nat /\ w[1] <= 255
    BY <1>0, <1>11
  <2>2. d = Decode(8, b)
    BY <1>11
  <2> HIDE DEF v, d
  <2>3. d = 0 => WellFormedBytes(v)
    BY ONLY <1>11, <1>0, <2>1, <2>2, DecodeTable, TrailRange, SMT
       DEF WellFormedBytes, Pair, Triple, Quadruple, Lead3, Lead4
  <2>4. d > 1 => Shape(d, v) /\ ~WellFormedBytes(v)
    BY ONLY <1>11, <1>0, <2>1, <2>2, DecodeTable, TrailRange, SMT
       DEF WellFormedBytes, Shape, Pair, Triple, Quadruple, Lead3, Lead4
  <2>5. ASSUME d = 1, NEW z \in Seq(Byte), Len(z) >= Len(v),
               \A i \in 1..Len(v) : z[i] = v[i]
        PROVE  ~WellFormedBytes(z)
    <3>1. /\ Len(z) \in Nat /\ Len(z) >= 2 /\ z[2] = b
          /\ z[1] = w[1]
      BY <1>z, <2>5, <2>1
    <3> QED BY ONLY <3>1, <1>11, <1>0, <2>1, <2>2, <2>5, DecodeTable, TrailRange, SMT
            DEF WellFormedBytes, Pair, Triple, Quadruple, Lead3, Lead4
  <2> QED BY <2>3, <2>4, <2>5, <1>00 DEF v, d
<1> QED BY <1>1, <1>2, <1>3, <1>4, <1>5, <1>6, <1>7, <1>8, <1>9, <1>10, <1>11 DEF Shape

\* The code points that end at i, given where those before it do.
EndsAt(s, ends, i) ==
  {j \in {i} : \E k \in ends : j - k <= 4 /\ IsCodePoint(SubSeq(s, k + 1, j))}

\* What may end at i ends there.
LEMMA EndsAtType == \A s, ends, i : EndsAt(s, ends, i) \subseteq {i}
BY DEF EndsAt

\* The function CodePointEnds takes its value from exists.
LEMMA EndsExist ==
  ASSUME NEW s \in Seq(Byte)
  PROVE  \E g \in [0..Len(s) -> SUBSET Nat] :
            /\ g = [i \in 0..Len(s) |-> IF i = 0 THEN {0}
                                        ELSE g[i - 1] \cup EndsAt(s, g[i - 1], i)]
            /\ CodePointEnds(s) = g[Len(s)]
<1> DEFINE X == SUBSET Nat
           Step == [i \in 1..Len(s) |-> [x \in X |-> x \cup EndsAt(s, x, i)]]
           Body(g, i) == IF i = 0 THEN {0} ELSE g[i - 1] \cup EndsAt(s, g[i - 1], i)
           Is(g) == g = [i \in 0..Len(s) |-> Body(g, i)]
           c == CHOOSE g : Is(g)
<1>1. Step \in [1..Len(s) -> [X -> X]]
  <2>1. ASSUME NEW i \in 1..Len(s), NEW x \in X PROVE x \cup EndsAt(s, x, i) \in X
    <3>1. i \in Nat /\ EndsAt(s, x, i) \subseteq {i}
      BY EndsAtType
    <3> QED BY <3>1
  <2> QED BY <2>1
<1>2. {0} \in X /\ Len(s) \in Nat
  OBVIOUS
<1>3. PICK g : Recurs(g, Len(s), X, {0}, Step)
  <2> HIDE DEF Step, X
  <2> QED BY <1>1, <1>2, Recursion
<1>9. /\ g \in [0..Len(s) -> X] /\ g[0] = {0}
      /\ \A i \in 1..Len(s) : g[i] = Step[i][g[i - 1]]
  BY <1>3 DEF Recurs
<1>4. Is(g)
  <2> SUFFICES ASSUME NEW i \in 0..Len(s)
               PROVE  g[i] = Body(g, i)
    <3>1. g = [i \in 0..Len(s) |-> g[i]]
      BY <1>9
    <3> QED BY <3>1
  <2>1. CASE i = 0
    BY <1>9, <2>1
  <2>2. CASE i # 0
    <3>1. i \in 1..Len(s) /\ g[i - 1] \in X
      BY <2>2, <1>2, <1>9
    <3> QED BY <1>9, <3>1, <2>2
  <2> QED BY <2>1, <2>2
<1>5. Is(c)
  <2> HIDE DEF Is
  <2> QED BY <1>4
<1>6. CodePointEnds(s) = c[Len(s)]
  BY DEF CodePointEnds, EndsAt
<1>7. ASSUME NEW h, Is(h) PROVE h \in [0..Len(s) -> X]
  <2> DEFINE T == {i \in Nat : i <= Len(s) => h[i] \in X}
  <2>1. 0 \in T
    BY <1>2, <1>7
  <2>2. ASSUME NEW i \in Nat, i \in T PROVE i + 1 \in T
    <3> SUFFICES ASSUME i + 1 <= Len(s) PROVE h[i + 1] \in X
      OBVIOUS
    <3>1. h[i] \in X /\ i + 1 \in 1..Len(s) /\ (i + 1) - 1 = i
      BY <2>2, <1>2
    <3>2. h[i + 1] = h[i] \cup EndsAt(s, h[i], i + 1)
      <4>1. i + 1 \in 0..Len(s) /\ i + 1 # 0
        BY <3>1
      <4> QED BY <1>7, <4>1, <3>1
    <3> QED BY <3>1, <3>2, EndsAtType
  <2>3. Nat \subseteq T
    <3> HIDE DEF T
    <3> QED BY <2>1, <2>2, SetInduction
  <2>4. \A i \in 0..Len(s) : h[i] \in X
    BY <2>3, <1>2
  <2>5. h = [i \in 0..Len(s) |-> h[i]]
    <3>1. DOMAIN h = 0..Len(s)
      BY <1>7
    <3>2. h = [i \in 0..Len(s) |-> Body(h, i)]
      BY <1>7
    <3> QED BY <3>1, <3>2
  <2> QED BY <2>4, <2>5
<1>8. c \in [0..Len(s) -> X] /\ Is(c)
  <2> HIDE DEF Is, c, X
  <2> QED BY <1>5, <1>7
<1> HIDE DEF c
<1> QED BY <1>6, <1>8

\* Where nothing was fed, only the beginning is an end.
LEMMA EndsOfNone == CodePointEnds(<<>>) = {0}
<1> <<>> \in Seq(Byte)
  OBVIOUS
<1> PICK s \in Seq(Byte) : s = <<>>
  OBVIOUS
<1>1. Len(s) = 0
  OBVIOUS
<1>2. PICK g \in [0..Len(s) -> SUBSET Nat] :
        /\ g = [i \in 0..Len(s) |-> IF i = 0 THEN {0}
                                    ELSE g[i - 1] \cup EndsAt(s, g[i - 1], i)]
        /\ CodePointEnds(s) = g[Len(s)]
  BY EndsExist
<1>3. g[0] = {0}
  BY <1>1, <1>2
<1> QED BY <1>1, <1>2, <1>3

\* A byte more may end one more code point.
LEMMA EndsOfAppend ==
  ASSUME NEW s \in Seq(Byte), NEW b \in Byte
  PROVE  LET t == Append(s, b) IN
         CodePointEnds(t) = CodePointEnds(s) \cup EndsAt(t, CodePointEnds(s), Len(s) + 1)
<1> DEFINE t == Append(s, b)
<1>1. t \in Seq(Byte) /\ Len(t) = Len(s) + 1 /\ Len(s) \in Nat
  OBVIOUS
<1>2. PICK g \in [0..Len(s) -> SUBSET Nat] :
            /\ g = [i \in 0..Len(s) |-> IF i = 0 THEN {0}
                                        ELSE g[i - 1] \cup EndsAt(s, g[i - 1], i)]
            /\ CodePointEnds(s) = g[Len(s)]
  BY EndsExist
<1>3. PICK h \in [0..Len(t) -> SUBSET Nat] :
            /\ h = [i \in 0..Len(t) |-> IF i = 0 THEN {0}
                                        ELSE h[i - 1] \cup EndsAt(t, h[i - 1], i)]
            /\ CodePointEnds(t) = h[Len(t)]
  BY <1>1, EndsExist
<1> DEFINE T == {i \in Nat : i <= Len(s) => g[i] = h[i]}
<1>4. 0 \in T
  BY <1>1, <1>2, <1>3
<1>5. ASSUME NEW i \in Nat, i \in T PROVE i + 1 \in T
  <2> SUFFICES ASSUME i + 1 <= Len(s) PROVE g[i + 1] = h[i + 1]
    OBVIOUS
  <2>1. g[i] = h[i] /\ g[i] \in SUBSET Nat
    BY <1>5, <1>1, <1>2
  <2>2. ASSUME NEW k \in Nat PROVE SubSeq(s, k + 1, i + 1) = SubSeq(t, k + 1, i + 1)
    <3>1. \A j \in (k + 1)..(i + 1) : s[j] = t[j]
      BY <1>1
    <3> QED BY <3>1, <1>1
  <2>3. EndsAt(s, g[i], i + 1) = EndsAt(t, h[i], i + 1)
    BY <2>1, <2>2 DEF EndsAt
  <2>4. g[i + 1] = g[i] \cup EndsAt(s, g[i], i + 1)
    <3>1. i + 1 \in 0..Len(s) /\ i + 1 # 0 /\ (i + 1) - 1 = i
      BY <1>1
    <3> QED BY <1>2, <3>1
  <2>5. h[i + 1] = h[i] \cup EndsAt(t, h[i], i + 1)
    <3>1. i + 1 \in 0..Len(t) /\ i + 1 # 0 /\ (i + 1) - 1 = i
      BY <1>1
    <3> QED BY <1>3, <3>1
  <2> QED BY <2>1, <2>3, <2>4, <2>5
<1>6. g[Len(s)] = h[Len(s)]
  <2> HIDE DEF T
  <2>1. Nat \subseteq T
    BY <1>4, <1>5, SetInduction
  <2> QED BY <2>1, <1>1 DEF T
<1>7. h[Len(t)] = h[Len(s)] \cup EndsAt(t, h[Len(s)], Len(s) + 1)
  <2>1. Len(t) \in 0..Len(t) /\ Len(t) # 0 /\ Len(t) - 1 = Len(s)
    BY <1>1
  <2> HIDE DEF t
  <2> QED BY <1>1, <1>3, <2>1
<1> HIDE DEF t
<1> QED BY <1>2, <1>3, <1>6, <1>7 DEF t

\* The lead byte of a code point is no trailing byte and tells its length, and
\* the others are trailing bytes.
LEMMA LeadLength ==
  ASSUME NEW y \in Seq(Byte), WellFormedBytes(y)
  PROVE  /\ Len(y) \in 1..4 /\ y[1] \in Nat
         /\ Len(y) = 1 => y[1] < 128
         /\ Len(y) = 2 => 194 <= y[1] /\ y[1] < 224
         /\ Len(y) = 3 => 224 <= y[1] /\ y[1] < 240
         /\ Len(y) = 4 => 240 <= y[1]
         /\ \A i \in 2..Len(y) : Trail(y[i])
<1>1. Len(y) \in Nat /\ \A i \in 1..Len(y) : y[i] \in Nat
  BY ByteRange
<1>2. Len(y) = 1 \/ Len(y) = 2 \/ Len(y) = 3 \/ Len(y) = 4
  BY SMT DEF WellFormedBytes
<1>3. y[1] \in Nat
  BY <1>1, <1>2
<1>4. CASE Len(y) = 1
  BY <1>3, <1>4, SMT DEF WellFormedBytes
<1>5. CASE Len(y) = 2
  <2>1. Pair(y[1], y[2])
    BY ONLY <1>5, WellFormedBytes(y), SMT DEF WellFormedBytes
  <2> QED BY <1>3, <1>5, <2>1, SMT DEF Pair
<1>6. CASE Len(y) = 3
  <2>1. Triple(y[1], y[2]) /\ Trail(y[3])
    BY ONLY <1>6, WellFormedBytes(y), SMT DEF WellFormedBytes
  <2> QED BY <1>3, <1>6, <2>1, SMT DEF Triple
<1>7. CASE Len(y) = 4
  <2>1. Quadruple(y[1], y[2]) /\ Trail(y[3]) /\ Trail(y[4])
    BY ONLY <1>7, WellFormedBytes(y), SMT DEF WellFormedBytes
  <2> QED BY <1>3, <1>7, <2>1, SMT DEF Quadruple
<1> QED BY <1>2, <1>4, <1>5, <1>6, <1>7

\* Of two code points that begin with the same byte neither is longer, and no
\* lead byte is a trailing byte.
LEMMA LeadTells ==
  ASSUME NEW y \in Seq(Byte), NEW z \in Seq(Byte), WellFormedBytes(y), WellFormedBytes(z)
  PROVE  /\ Len(y) \in 1..4 /\ ~Trail(y[1])
         /\ \A i \in 2..Len(y) : Trail(y[i])
         /\ y[1] = z[1] => Len(y) = Len(z)
<1>1. /\ Len(y) \in 1..4 /\ y[1] \in Nat
      /\ Len(y) = 1 => y[1] < 128
      /\ Len(y) = 2 => 194 <= y[1] /\ y[1] < 224
      /\ Len(y) = 3 => 224 <= y[1] /\ y[1] < 240
      /\ Len(y) = 4 => 240 <= y[1]
      /\ \A i \in 2..Len(y) : Trail(y[i])
  BY LeadLength
<1>2. /\ Len(z) \in 1..4 /\ z[1] \in Nat
      /\ Len(z) = 1 => z[1] < 128
      /\ Len(z) = 2 => 194 <= z[1] /\ z[1] < 224
      /\ Len(z) = 3 => 224 <= z[1] /\ z[1] < 240
      /\ Len(z) = 4 => 240 <= z[1]
  BY LeadLength
<1>3. ~Trail(y[1])
  BY <1>1, TrailRange, SMT
<1>4. y[1] = z[1] => Len(y) = Len(z)
  BY <1>1, <1>2, SMT
<1> QED BY <1>1, <1>3, <1>4

\* No code point begins before the end of another and goes on past it.
LEMMA NoStraddle ==
  ASSUME NEW s \in Seq(Byte), NEW a \in Nat, NEW c \in Nat, NEW i \in Nat,
         a < c, c <= Len(s), WellFormedBytes(SubSeq(s, a + 1, c)),
         i < c, NEW z \in Seq(Byte), WellFormedBytes(z), Len(z) > c - i,
         \A j \in 1..Len(z) : i + j <= Len(s) => z[j] = s[i + j]
  PROVE  FALSE
<1> DEFINE y == SubSeq(s, a + 1, c)
<1>1. y \in Seq(Byte) /\ Len(y) = c - a /\ Len(s) \in Nat /\ Len(z) \in Nat
  OBVIOUS
<1>2. \A j \in 1..(c - a) : y[j] = s[a + j]
  OBVIOUS
<1>3. \A j \in 1..(c - i) : z[j] = s[i + j]
  BY <1>1
<1> HIDE DEF y
<1>4. /\ ~Trail(y[1]) /\ ~Trail(z[1])
      /\ \A j \in 2..Len(y) : Trail(y[j])
      /\ \A j \in 2..Len(z) : Trail(z[j])
      /\ y[1] = z[1] => Len(y) = Len(z)
  BY <1>1, LeadTells DEF y
<1>5. y[1] = s[a + 1] /\ z[1] = s[i + 1]
  BY <1>2, <1>3
<1>6. CASE a = i
  BY <1>1, <1>4, <1>5, <1>6
<1>7. CASE a < i
  <2>1. i + 1 - a \in 2..Len(y) /\ i + 1 - a \in 1..(c - a) /\ a + (i + 1 - a) = i + 1
    BY <1>1, <1>7
  <2>2. y[i + 1 - a] = s[i + 1]
    BY <1>2, <2>1
  <2> QED BY <1>4, <1>5, <2>1, <2>2
<1>8. CASE i < a
  <2>1. a + 1 - i \in 2..Len(z) /\ a + 1 - i \in 1..(c - i) /\ i + (a + 1 - i) = a + 1
    BY <1>1, <1>8
  <2>2. z[a + 1 - i] = s[a + 1]
    BY <1>3, <2>1
  <2> QED BY <1>4, <1>5, <2>1, <2>2
<1> QED BY <1>6, <1>7, <1>8

Edges == {128, 143, 144, 159, 160, 191}

\* The completions are rows of one to three of the edges of the trailing ranges.
LEMMA CompletionBytes ==
  /\ \A t \in Completions8 : t \in Seq(Byte)
  /\ \A a \in Edges : <<a>> \in Completions8
  /\ \A a, b \in Edges : <<a, b>> \in Completions8
  /\ \A a, b, c \in Edges : <<a, b, c>> \in Completions8
<1> DEFINE S == Edges
<1>1. S \subseteq Byte
  BY ByteRange DEF Edges
<1>2. Completions8 = [1..1 -> S] \cup [1..2 -> S] \cup [1..3 -> S]
  <2>1. 1..3 = {1, 2, 3}
    OBVIOUS
  <2> QED BY <2>1 DEF Completions8, Edges
<1>3. ASSUME NEW t \in Completions8 PROVE t \in Seq(Byte)
  <2>1. PICK k \in Nat : t \in [1..k -> S]
    BY <1>2
  <2>2. t \in [1..k -> Byte]
    BY <1>1, <2>1
  <2> QED BY <2>2
<1>4. ASSUME NEW a \in S PROVE <<a>> \in [1..1 -> S]
  OBVIOUS
<1>5. ASSUME NEW a \in S, NEW b \in S PROVE <<a, b>> \in [1..2 -> S]
  OBVIOUS
<1>6. ASSUME NEW a \in S, NEW b \in S, NEW c \in S PROVE <<a, b, c>> \in [1..3 -> S]
  OBVIOUS
<1> QED BY <1>2, <1>3, <1>4, <1>5, <1>6

\* The edges that complete every begun code point.
LEMMA EdgesUsed == {128, 144, 160} \subseteq Edges
BY DEF Edges

\* A begun code point can be completed.
LEMMA ShapeCompletes ==
  ASSUME NEW st \in 2..8, NEW w \in Seq(Byte), Shape(st, w)
  PROVE  Len(w) \in 1..3 /\ \E t \in Completions8 : WellFormedBytes(w \o t)
<1>1. Len(w) \in Nat /\ \A i \in 1..Len(w) : w[i] \in Nat /\ w[i] <= 255
  BY ByteRange
<1>2. Len(w) \in 1..3
  BY <1>1 DEF Shape
<1>3. ASSUME NEW x \in Nat, <<x>> \in Completions8
      PROVE  LET v == w \o <<x>> IN
             /\ Len(v) = Len(w) + 1 /\ v[Len(w) + 1] = x
             /\ \A i \in 1..Len(w) : v[i] = w[i]
  OBVIOUS
<1>4. ASSUME NEW x \in Nat, NEW y \in Nat, <<x, y>> \in Completions8
      PROVE  LET v == w \o <<x, y>> IN
             /\ Len(v) = Len(w) + 2 /\ v[Len(w) + 1] = x /\ v[Len(w) + 2] = y
             /\ \A i \in 1..Len(w) : v[i] = w[i]
  OBVIOUS
<1>5. ASSUME NEW x \in Nat, NEW y \in Nat, NEW z \in Nat, <<x, y, z>> \in Completions8
      PROVE  LET v == w \o <<x, y, z>> IN
             /\ Len(v) = Len(w) + 3 /\ v[Len(w) + 1] = x /\ v[Len(w) + 2] = y
             /\ v[Len(w) + 3] = z
             /\ \A i \in 1..Len(w) : v[i] = w[i]
  OBVIOUS
<1>6. CASE st = 2
  <2>1. <<128>> \in Completions8
    BY CompletionBytes DEF Edges
  <2> DEFINE v == w \o <<128>>
  <2>2. /\ Len(v) = Len(w) + 1 /\ v[Len(w) + 1] = 128
        /\ \A i \in 1..Len(w) : v[i] = w[i]
    BY <1>3, <2>1
  <2> HIDE DEF v
  <2>3. WellFormedBytes(v)
    <3>1. CASE Len(w) = 1
      BY <1>1, <1>6, <2>2, <3>1, TrailRange, SMT DEF Shape, WellFormedBytes, Pair
    <3>2. CASE Len(w) = 2
      <4>1. Triple(w[1], w[2])
        BY <1>6, <3>2, SMT DEF Shape
      <4> QED BY <4>1, <2>2, <3>2, TrailRange, SMT DEF WellFormedBytes
    <3>3. CASE Len(w) = 3
      <4>1. Quadruple(w[1], w[2]) /\ Trail(w[3])
        BY <1>6, <3>3, SMT DEF Shape
      <4> QED BY <4>1, <2>2, <3>3, TrailRange, SMT DEF WellFormedBytes
    <3> QED BY <1>2, <3>1, <3>2, <3>3
  <2> QED BY <1>2, <2>1, <2>3 DEF v
<1>7. ASSUME NEW x \in {128, 144, 160}, Len(w) = 1, 224 <= w[1], w[1] <= 239,
             Triple(w[1], x)
      PROVE  \E t \in Completions8 : WellFormedBytes(w \o t)
  <2>1. <<x, 128>> \in Completions8
    BY CompletionBytes, EdgesUsed
  <2> DEFINE v == w \o <<x, 128>>
  <2>2. /\ Len(v) = 3 /\ v[2] = x /\ v[3] = 128 /\ v[1] = w[1]
    BY <1>4, <2>1, <1>7
  <2> HIDE DEF v
  <2>3. WellFormedBytes(v)
    BY <2>2, <1>7, TrailRange, SMT DEF WellFormedBytes
  <2> QED BY <2>1, <2>3 DEF v
<1>8. ASSUME NEW x \in {128, 144, 160}, Len(w) = 1, Quadruple(w[1], x)
      PROVE  \E t \in Completions8 : WellFormedBytes(w \o t)
  <2>1. <<x, 128, 128>> \in Completions8
    BY CompletionBytes, EdgesUsed
  <2> DEFINE v == w \o <<x, 128, 128>>
  <2>2. /\ Len(v) = 4 /\ v[2] = x /\ v[3] = 128 /\ v[4] = 128 /\ v[1] = w[1]
    BY <1>5, <2>1, <1>8
  <2> HIDE DEF v
  <2>3. WellFormedBytes(v)
    BY <2>2, <1>8, TrailRange, SMT DEF WellFormedBytes
  <2> QED BY <2>1, <2>3 DEF v
<1>9. CASE st = 3 /\ Len(w) = 2
  <2>1. <<128, 128>> \in Completions8
    BY CompletionBytes, EdgesUsed
  <2> DEFINE v == w \o <<128, 128>>
  <2>5. /\ Len(v) = Len(w) + 2 /\ v[Len(w) + 1] = 128 /\ v[Len(w) + 2] = 128
        /\ \A i \in 1..Len(w) : v[i] = w[i]
    BY <1>4, <2>1
  <2>2. /\ Len(v) = 4 /\ v[3] = 128 /\ v[4] = 128 /\ v[1] = w[1] /\ v[2] = w[2]
    BY ONLY <2>5, <1>9
  <2>4. Quadruple(w[1], w[2])
    BY <1>9, SMT DEF Shape
  <2> HIDE DEF v
  <2>3. WellFormedBytes(v)
    BY <2>2, <2>4, TrailRange, SMT DEF WellFormedBytes
  <2> QED BY <1>2, <2>1, <2>3 DEF v
<1>10. CASE st \in 3..8 /\ Len(w) = 1
  <2>1. w[1] \in Nat
    BY <1>1, <1>10
  <2>2. \/ Lead3(w[1]) \/ w[1] = 224 \/ w[1] = 237 \/ w[1] = 240 \/ Lead4(w[1]) \/ w[1] = 244
    BY <1>10, SMT DEF Shape
  <2>3. \/ 224 <= w[1] /\ w[1] <= 239 /\ \E x \in {128, 144, 160} : Triple(w[1], x)
        \/ \E x \in {128, 144, 160} : Quadruple(w[1], x)
    <3>1. Lead3(w[1]) => 224 <= w[1] /\ w[1] <= 239 /\ Triple(w[1], 128)
      BY <2>1, TrailRange, SMT DEF Lead3, Triple
    <3>2. w[1] = 224 => 224 <= w[1] /\ w[1] <= 239 /\ Triple(w[1], 160)
      BY TrailRange, SMT DEF Triple
    <3>3. w[1] = 237 => 224 <= w[1] /\ w[1] <= 239 /\ Triple(w[1], 128)
      BY TrailRange, SMT DEF Triple
    <3>4. w[1] = 240 => Quadruple(w[1], 144)
      BY TrailRange, SMT DEF Quadruple
    <3>5. w[1] = 244 => Quadruple(w[1], 128)
      BY TrailRange, SMT DEF Quadruple
    <3>6. Lead4(w[1]) => Quadruple(w[1], 128)
      BY <2>1, TrailRange, SMT DEF Lead4, Quadruple
    <3> QED BY <2>2, <3>1, <3>2, <3>3, <3>4, <3>5, <3>6
  <2> QED BY <1>7, <1>8, <1>2, <1>10, <2>3
<1>11. st = 2 \/ (st = 3 /\ Len(w) = 2) \/ (st \in 3..8 /\ Len(w) = 1)
  BY SMT DEF Shape
<1> QED BY <1>2, <1>6, <1>9, <1>10, <1>11

\* Each end but the first is that of a code point that begins at another.
EndsInv(s) ==
  /\ CodePointEnds(s) \subseteq 0..Len(s)
  /\ \A c \in CodePointEnds(s) : c > 0 =>
       \E a \in CodePointEnds(s) : a < c /\ WellFormedBytes(SubSeq(s, a + 1, c))

\* The bytes since the last end are those the state stands for.
Pending(s, st) ==
  \E c \in CodePointEnds(s) : /\ \A x \in CodePointEnds(s) : x <= c
                              /\ Shape(st, SubSeq(s, c + 1, Len(s)))

\* The accepting state stands for no begun code point.
LEMMA ShapeNone ==
  ASSUME NEW w, Shape(0, w)
  PROVE  Len(w) = 0
BY SMT DEF Shape

\* z is what begins after k bytes of t and goes on to their end, or past it.
Begins(z, t, k) == /\ Len(z) >= Len(t) - k
                   /\ \A j \in 1..Len(z) : k + j <= Len(t) => z[j] = t[k + j]

\* A code point that goes on to the last byte, or past it, began at the last end
\* before that byte.
LEMMA BeginsAtLastEnd ==
  ASSUME NEW s \in Seq(Byte), NEW b \in Byte, EndsInv(s), NEW t, t = Append(s, b),
         NEW c \in CodePointEnds(s), \A x \in CodePointEnds(s) : x <= c,
         NEW k \in CodePointEnds(s), NEW z \in Seq(Byte), WellFormedBytes(z),
         Begins(z, t, k)
  PROVE  k = c
<1> SUFFICES ASSUME k # c PROVE FALSE
  OBVIOUS
<1>1. /\ Len(s) \in Nat /\ Len(z) \in Nat /\ Len(t) = Len(s) + 1
      /\ \A i \in 1..Len(s) : t[i] = s[i]
  OBVIOUS
<1>2. k \in Nat /\ c \in Nat /\ c <= Len(s) /\ k < c
  BY <1>1 DEF EndsInv
<1>3. PICK a \in CodePointEnds(s) : a < c /\ WellFormedBytes(SubSeq(s, a + 1, c))
  BY <1>2 DEF EndsInv
<1>4. a \in Nat
  BY <1>3 DEF EndsInv
<1>5. Len(z) > c - k
  BY <1>1, <1>2 DEF Begins
<1>6. ASSUME NEW j \in 1..Len(z), k + j <= Len(s) PROVE z[j] = s[k + j]
  <2>1. z[j] = t[k + j]
    BY <1>1, <1>2, <1>6 DEF Begins
  <2>2. k + j \in 1..Len(s)
    BY <1>1, <1>2, <1>6
  <2> QED BY <1>1, <2>1, <2>2
<1> QED BY <1>2, <1>3, <1>4, <1>5, <1>6, NoStraddle

\* One byte more: the ends stay those of code points, and the state stands for the
\* bytes since the last of them, or nothing completes them.
LEMMA FeedKeeps ==
  ASSUME NEW s \in Seq(Byte), NEW st \in 0..8, NEW b \in Byte,
         EndsInv(s), Pending(s, st)
  PROVE  LET t == Append(s, b)  d == Decode(st, b) IN
         /\ d \in 0..8 /\ EndsInv(t)
         /\ d # 1 => Pending(t, d)
         /\ d = 1 => ~Extendable(t)
<1> DEFINE t == Append(s, b)
           d == Decode(st, b)
           n == Len(s) + 1
           E == CodePointEnds(s)
           E2 == CodePointEnds(t)
<1>1. /\ t \in Seq(Byte) /\ Len(t) = n /\ Len(s) \in Nat /\ n \in Nat
      /\ \A i \in 1..Len(s) : t[i] = s[i]
      /\ t[n] = b
  OBVIOUS
<1>2. PICK c \in E : /\ \A x \in E : x <= c
                     /\ Shape(st, SubSeq(s, c + 1, Len(s)))
  BY DEF Pending
<1> DEFINE w == SubSeq(s, c + 1, Len(s))
           v == SubSeq(t, c + 1, n)
<1>3. c \in Nat /\ c <= Len(s) /\ E \subseteq 0..Len(s)
  BY <1>1 DEF EndsInv
<1>4. /\ w \in Seq(Byte) /\ Len(w) = Len(s) - c
      /\ v \in Seq(Byte) /\ Len(v) = n - c
      /\ \A i \in 1..(n - c) : v[i] = t[c + i]
  BY <1>1, <1>3
<1>5. v = Append(w, b)
  <2>1. Append(w, b) \in Seq(Byte) /\ Len(Append(w, b)) = n - c
    BY <1>1, <1>3, <1>4
  <2>2. ASSUME NEW i \in 1..(n - c) PROVE Append(w, b)[i] = t[c + i]
    <3>1. CASE i <= Len(s) - c
      <4>1. w[i] = s[c + i] /\ c + i \in 1..Len(s) /\ i \in 1..Len(w)
        BY <1>1, <1>3, <1>4, <3>1
      <4> QED BY <1>1, <1>4, <4>1
    <3>2. CASE i = n - c
      <4>1. i = Len(w) + 1 /\ c + i = n
        BY <1>1, <1>3, <1>4, <3>2
      <4>2. Append(w, b)[Len(w) + 1] = b
        BY <1>4
      <4> QED BY <1>1, <4>1, <4>2
    <3> QED BY <1>1, <1>3, <3>1, <3>2
  <2> HIDE DEF v, w, n
  <2> QED BY <1>4, <2>1, <2>2, SeqEqual
<1>6. /\ d \in 0..8
      /\ d = 0 => WellFormedBytes(v)
      /\ d > 1 => Shape(d, v) /\ ~WellFormedBytes(v)
      /\ d = 1 => \A z \in Seq(Byte) :
                       Len(z) >= Len(v) /\ (\A i \in 1..Len(v) : z[i] = v[i])
                         => ~WellFormedBytes(z)
  <2> HIDE DEF v, w, d
  <2> QED BY <1>2, <1>4, <1>5, ShapeNext DEF w, d
<1>7. E2 = E \cup EndsAt(t, E, n)
  BY EndsOfAppend
<1>8. ASSUME NEW k \in E, NEW z \in Seq(Byte), WellFormedBytes(z), Begins(z, t, k)
      PROVE  k = c
  <2>1. t = Append(s, b)
    OBVIOUS
  <2> HIDE DEF t, w, v, d, E2
  <2> QED BY ONLY <2>1, EndsInv(s), <1>2, <1>8, s \in Seq(Byte), b \in Byte, BeginsAtLastEnd
<1> HIDE DEF t, w, v, d, n, E, E2
<1>9. ASSUME NEW k \in E
      PROVE  /\ SubSeq(t, k + 1, n) \in Seq(Byte) /\ Len(SubSeq(t, k + 1, n)) = n - k
             /\ \A j \in 1..(n - k) : SubSeq(t, k + 1, n)[j] = t[k + j]
             /\ k \in Nat /\ k < n
  <2>1. k \in Nat /\ k < n /\ n \in Nat
    BY <1>1, <1>3 DEF n
  <2> QED BY ONLY <1>1, <2>1
<1>10. ASSUME NEW k \in E, WellFormedBytes(SubSeq(t, k + 1, n))
       PROVE  k = c
  <2>1. PICK z \in Seq(Byte) : z = SubSeq(t, k + 1, n)
    BY <1>9
  <2>2. Len(z) = n - k /\ \A j \in 1..Len(z) : z[j] = t[k + j]
    BY <1>9, <2>1
  <2>3. Begins(z, t, k)
    <3>1. Len(t) = n /\ n \in Nat /\ k \in Nat
      BY <1>1, <1>9
    <3> QED BY ONLY <2>2, <3>1 DEF Begins
  <2> QED BY <1>8, <1>10, <2>1, <2>3
<1>11. n \in E2 <=> WellFormedBytes(v)
  <2>1. ASSUME n \in E2 PROVE WellFormedBytes(v)
    <3>1. n \in EndsAt(t, E, n)
      BY <1>1, <1>3, <1>7, <2>1 DEF n
    <3>2. PICK k \in E : IsCodePoint(SubSeq(t, k + 1, n))
      BY <3>1 DEF EndsAt
    <3>3. WellFormedBytes(SubSeq(t, k + 1, n))
      BY <1>9, <3>2, CodePointTable
    <3> QED BY <1>10, <3>3 DEF v
  <2>2. ASSUME WellFormedBytes(v) PROVE n \in E2
    <3>1. Len(v) \in 1..4
      BY <1>4, <2>2, LeadLength
    <3>2. IsCodePoint(v)
      BY <1>4, <2>2, CodePointTable
    <3>3. n - c <= 4
      BY <1>4, <3>1
    <3> QED BY <1>2, <1>7, <3>2, <3>3 DEF EndsAt, v
  <2> QED BY <2>1, <2>2
<1>12. E2 \subseteq E \cup {n} /\ E \subseteq E2
  BY <1>7, EndsAtType
<1>13. EndsInv(t)
  <2>1. E2 \subseteq 0..n
    BY <1>1, <1>3, <1>12 DEF n
  <2>2. ASSUME NEW x \in E, x > 0
        PROVE  \E a \in E2 : a < x /\ WellFormedBytes(SubSeq(t, a + 1, x))
    <3>1. PICK a \in E : a < x /\ WellFormedBytes(SubSeq(s, a + 1, x))
      BY <2>2 DEF EndsInv, E
    <3>2. a \in Nat /\ x \in Nat /\ x <= Len(s)
      BY <1>1, <1>3
    <3>3. SubSeq(t, a + 1, x) = SubSeq(s, a + 1, x)
      BY <1>1, <3>1, <3>2 DEF n
    <3> QED BY <1>12, <3>1, <3>3
  <2>3. ASSUME n \in E2
        PROVE  \E a \in E2 : a < n /\ WellFormedBytes(SubSeq(t, a + 1, n))
    BY <1>2, <1>9, <1>11, <1>12, <2>3 DEF v
  <2> QED BY <1>1, <1>12, <2>1, <2>2, <2>3 DEF EndsInv, E2
<1>14. ASSUME d = 0 PROVE Pending(t, d)
  <2>1. n \in E2
    BY <1>6, <1>11, <1>14
  <2>2. \A x \in E2 : x <= n
    BY <1>1, <1>3, <1>12 DEF n
  <2>3. Len(SubSeq(t, n + 1, n)) = 0
    BY <1>1
  <2> QED BY <1>1, <1>14, <2>1, <2>2, <2>3 DEF Pending, Shape, E2
<1>15. ASSUME d > 1 PROVE Pending(t, d)
  <2>1. E2 = E
    BY <1>6, <1>11, <1>12, <1>15
  <2> QED BY <1>1, <1>2, <1>6, <1>15, <2>1 DEF Pending, E2, v
<1>16. ASSUME d = 1, Extendable(t) PROVE FALSE
  <2>1. ~WellFormedBytes(v)
    BY <1>4, <1>6, <1>16
  <2>2. PICK k \in E2 : \/ k = n
                        \/ \E x \in Completions8 : IsCodePoint(SubSeq(t, k + 1, n) \o x)
    BY <1>1, <1>16 DEF Extendable, E2
  <2>3. k # n
    BY <1>11, <2>1
  <2>4. k \in E
    BY <1>12, <2>3
  <2>5. PICK x \in Completions8 : IsCodePoint(SubSeq(t, k + 1, n) \o x)
    BY <2>2, <2>3
  <2>6. PICK y \in Seq(Byte) : y = SubSeq(t, k + 1, n)
    BY <1>9, <2>4
  <2>7. x \in Seq(Byte) /\ Len(x) \in Nat /\ Len(y) = n - k
    BY <1>9, <2>4, <2>6, CompletionBytes
  <2>13. y \o x \in Seq(Byte)
    BY <2>7
  <2>8. PICK z \in Seq(Byte) : z = y \o x
    BY <2>13
  <2>14. n \in Nat /\ k \in Nat /\ k < n
    BY <1>1, <1>9, <2>4
  <2>9. /\ Len(z) >= n - k /\ Len(z) \in Nat
        /\ \A j \in 1..(n - k) : z[j] = t[k + j]
    <3>1. Len(z) = (n - k) + Len(x)
      <4>1. \A a1, a2 \in Seq(Byte) : Len(a1 \o a2) = Len(a1) + Len(a2)
        OBVIOUS
      <4>2. Len(z) = Len(y) + Len(x)
        BY ONLY <2>7, <2>8, <4>1, y \in Seq(Byte)
      <4> QED BY <2>7, <4>2
    <3>2. ASSUME NEW j \in 1..(n - k) PROVE z[j] = t[k + j]
      <4>1. z[j] = y[j]
        BY <2>7, <2>8, <2>14
      <4>2. y[j] = t[k + j]
        BY <1>9, <2>4, <2>6
      <4> QED BY <4>1, <4>2
    <3> QED BY <2>7, <2>14, <3>1, <3>2
  <2>10. WellFormedBytes(z)
    BY <2>5, <2>6, <2>8, CodePointTable
  <2>11. Begins(z, t, k)
    <3>1. ASSUME NEW j \in 1..Len(z), k + j <= n PROVE z[j] = t[k + j]
      <4>1. j \in 1..(n - k)
        BY <2>9, <2>14, <3>1
      <4> QED BY <2>9, <4>1
    <3> QED BY <1>1, <2>9, <3>1 DEF Begins
  <2>12. k = c
    BY <1>8, <2>4, <2>10, <2>11
  <2> QED BY <1>4, <1>6, <1>16, <2>9, <2>10, <2>12
<1>17. d # 1 => d = 0 \/ d > 1
  BY <1>6
<1> QED BY <1>6, <1>13, <1>14, <1>15, <1>16, <1>17 DEF t, d

-----------------------------------------------------------------------------
Utf8Type == utf8 \in [fed : Seq(Byte), m_state : 0..8]

Utf8Inv == /\ Utf8Type /\ EndsInv(utf8.fed)
           /\ utf8.m_state # utf8_reject => Pending(utf8.fed, utf8.m_state)
           /\ utf8.m_state = utf8_reject => ~Extendable(utf8.fed)

\* The invariant holds before any byte.
LEMMA Utf8InitOK == Utf8Init => Utf8Inv
<1> SUFFICES ASSUME Utf8Init PROVE Utf8Inv
  OBVIOUS
<1>1. utf8.fed = <<>> /\ utf8.m_state = 0 /\ Utf8Type
  BY DEF Utf8Init, Utf8Type, utf8_accept
<1>2. CodePointEnds(<<>>) = {0} /\ Len(<<>>) = 0
  BY EndsOfNone
<1>3. EndsInv(<<>>)
  BY <1>2 DEF EndsInv
<1>4. Shape(0, SubSeq(<<>>, 0 + 1, 0))
  <2>1. Len(SubSeq(<<>>, 0 + 1, 0)) = 0
    OBVIOUS
  <2> QED BY <2>1 DEF Shape
<1>5. Pending(<<>>, 0)
  BY <1>2, <1>4 DEF Pending
<1> QED BY <1>1, <1>3, <1>5 DEF Utf8Inv, utf8_reject

\* Each byte fed keeps the invariant.
LEMMA Utf8StepOK == Utf8Inv /\ [Feed]_utf8 => Utf8Inv'
<1> SUFFICES ASSUME Utf8Inv, [Feed]_utf8 PROVE Utf8Inv'
  OBVIOUS
<1>1. CASE Feed
  <2>1. PICK b \in Utf8Bytes :
          utf8' = [fed |-> Append(utf8.fed, b), m_state |-> Decode(utf8.m_state, b)]
    BY <1>1 DEF Feed
  <2> PICK s : s = utf8.fed
    OBVIOUS
  <2> PICK st : st = utf8.m_state
    OBVIOUS
  <2>2. s \in Seq(Byte) /\ st \in 0..8 /\ b \in Byte /\ st # 1
    BY <1>1, Utf8Assumption DEF Utf8Inv, Utf8Type, Feed, utf8_reject, Byte
  <2>3. EndsInv(s) /\ Pending(s, st)
    BY <2>2 DEF Utf8Inv, utf8_reject
  <2> PICK t : t = Append(s, b)
    OBVIOUS
  <2> PICK d : d = Decode(st, b)
    OBVIOUS
  <2>4. /\ d \in 0..8 /\ EndsInv(t)
        /\ d # 1 => Pending(t, d)
        /\ d = 1 => ~Extendable(t)
    BY <2>2, <2>3, FeedKeeps
  <2>5. t \in Seq(Byte)
    BY <2>2
  <2>6. utf8' = [fed |-> t, m_state |-> d]
    BY <2>1
  <2>7. utf8'.fed = t /\ utf8'.m_state = d
    BY <2>6
  <2> QED BY <2>4, <2>5, <2>6, <2>7 DEF Utf8Inv, Utf8Type, utf8_reject
<1>2. CASE UNCHANGED utf8
  BY <1>2 DEF Utf8Inv, Utf8Type
<1> QED BY <1>1, <1>2

\* The invariant gives the property.
LEMMA Utf8InvExact == Utf8Inv => Utf8Exact
<1> SUFFICES ASSUME Utf8Inv PROVE Utf8Exact
  OBVIOUS
<1> PICK s : s = utf8.fed
  OBVIOUS
<1> PICK st : st = utf8.m_state
  OBVIOUS
<1>1. s \in Seq(Byte) /\ st \in 0..8 /\ EndsInv(s) /\ Len(s) \in Nat
  BY DEF Utf8Inv, Utf8Type
<1>2. /\ (st = 0) = (Len(s) \in CodePointEnds(s))
      /\ (st = 1) = ~Extendable(s)
  <2>1. CASE st = 1
    <3>1. ~Extendable(s)
      BY <2>1 DEF Utf8Inv, utf8_reject
    <3>2. Len(s) \notin CodePointEnds(s)
      BY <3>1 DEF Extendable
    <3> QED BY <2>1, <3>1, <3>2
  <2>2. CASE st # 1
    <3>1. Pending(s, st)
      BY <2>2 DEF Utf8Inv, utf8_reject
    <3>2. PICK c \in CodePointEnds(s) : /\ \A x \in CodePointEnds(s) : x <= c
                                        /\ Shape(st, SubSeq(s, c + 1, Len(s)))
      BY <3>1 DEF Pending
    <3>3. c \in Nat /\ c <= Len(s)
      BY <1>1 DEF EndsInv
    <3> PICK w : w = SubSeq(s, c + 1, Len(s))
      OBVIOUS
    <3>4. w \in Seq(Byte) /\ Len(w) = Len(s) - c
      BY <1>1, <3>3
    <3>5. CASE st = 0
      <4>1. Len(w) = 0
        <5>1. Shape(0, w)
          BY <3>2, <3>5
        <5> QED BY <5>1, ShapeNone
      <4>2. c = Len(s)
        BY <1>1, <3>3, <3>4, <4>1
      <4> QED BY <3>5, <4>2 DEF Extendable
    <3>6. CASE st # 0
      <4>1. Len(w) \in 1..3 /\ \E t \in Completions8 : WellFormedBytes(w \o t)
        <5>1. st \in 2..8
          BY <1>1, <2>2, <3>6
        <5> QED BY <3>2, <3>4, <5>1, ShapeCompletes
      <4>2. PICK t \in Completions8 : WellFormedBytes(w \o t)
        BY <4>1
      <4>3. t \in Seq(Byte) /\ w \o t \in Seq(Byte)
        BY <3>4, CompletionBytes
      <4>4. IsCodePoint(w \o t)
        BY <4>2, <4>3, CodePointTable
      <4>5. Len(s) - c <= 3 /\ c < Len(s)
        BY <1>1, <3>3, <3>4, <4>1
      <4>6. Len(s) \notin CodePointEnds(s)
        BY <1>1, <3>2, <3>3, <4>5
      <4>7. Extendable(s)
        BY <4>4, <4>5 DEF Extendable
      <4> QED BY <2>2, <3>6, <4>6, <4>7
    <3> QED BY <3>5, <3>6
  <2> QED BY <2>1, <2>2
<1> QED BY <1>2 DEF Utf8Exact, WellFormed, utf8_accept, utf8_reject

\* However long a text and whatever its bytes, the table accepts exactly the
\* well-formed sequences and rejects at the first byte that cannot be right.
THEOREM ValidatorExact == Utf8Spec => []Utf8Exact
BY Utf8InitOK, Utf8StepOK, Utf8InvExact, PTL DEF Utf8Spec

-----------------------------------------------------------------------------
(* The hybi13 processor: its invariant, by what it is reading.             *)

\* What a cell, a message under way and a delivered message are.
Cell == [frame : Nat, byte : {-1} \cup Byte, phase : 0..3]
Message == [op : Opcodes \cup {"none"}, out : Seq(Byte), validator : 0..8,
            frame : Nat, phase : 0..3]
Delivery == [op : Opcodes, out : Seq(Byte)]

ProcessorRecord ==
  [server : BOOLEAN, frames : Seq(Frames), wire : Seq(Cell), buf : Seq(Cell),
   m_state : {"HEADER_BASIC", "HEADER_EXTENDED", "APPLICATION", "READY"},
   m_bytes_needed : Nat, current : Nat, data : Message, control : Message,
   delivered : Seq(Delivery), ec : {"none", "protocol", "too_big", "utf8"},
   alone : BOOLEAN, wrapped : BOOLEAN]

\* The cells of the first i frames, one after the other.
Stream(frames) ==
  LET upto[i \in 0..Len(frames)] ==
        IF i = 0 THEN <<>> ELSE upto[i - 1] \o Cells(frames[i], i)
  IN upto

All(d) == Stream(d.frames)[Len(d.frames)]
Upto(d, i) == Len(Stream(d.frames)[i])

\* The frame being read, and what the frames before it made, or they and it.
This(d) == d.frames[d.current]
HeaderLen(f) == 2 + ExtendedLength(f)
Got(d) == This(d).size - d.m_bytes_needed
Before(d) == Assembled(d.frames)[d.current - 1]
Now(d) == Assembled(d.frames)[d.current]

\* What is to be read are the cells after the first c.
Left(buf, wire, cells, c) ==
  /\ Len(buf) + Len(wire) = Len(cells) - c
  /\ \A i \in 1..Len(buf) : buf[i] = cells[c + i]
  /\ \A i \in 1..Len(wire) : wire[i] = cells[c + Len(buf) + i]

\* The frames are all such as the peer's processor makes of whole messages.
Clean(d) ==
  d.alone /\ \A i \in DOMAIN d.frames :
               d.frames[i].fin /\ d.frames[i].op \notin {"cont", "reserved"}

\* The message between two of its frames, or none.
OpenIs(m, open) ==
  IF open = <<>> THEN m = NoMsg ELSE m.op = open[1].op /\ m.out = open[1].out

\* The bytes the open message's earlier frames brought.
Earlier(open) == IF open = <<>> THEN <<>> ELSE open[1].out

\* A message to whose earlier bytes the first of this frame's were appended.
UnderWay(m, op, earlier, d) ==
  /\ m.op = op /\ m.out = earlier \o SubSeq(This(d).bytes, 1, Got(d))
  /\ m.frame = d.current /\ m.phase = Got(d) % 4

\* The frames before this one were read, and its first c cells; what they made
\* was delivered, and nothing of this one.
OnFrame(d, c) ==
  /\ d.ec = "none" /\ d.current \in DOMAIN d.frames
  /\ d.delivered = Before(d).messages
  /\ Left(d.buf, d.wire, All(d), Upto(d, d.current - 1) + c)

\* The data message is the open one, of which there is none among whole messages.
Untouched(d, open) == OpenIs(d.data, open) /\ (Clean(d) => d.data = NoMsg)

\* The first frames were read, and what they made was delivered.
Between(d) ==
  /\ d.ec = "none" /\ d.m_state = "HEADER_BASIC" /\ d.m_bytes_needed = 2
  /\ d.current \in 0..Len(d.frames) /\ d.delivered = Now(d).messages
  /\ Left(d.buf, d.wire, All(d), Upto(d, d.current))
  /\ Untouched(d, Now(d).open) /\ d.control = NoMsg

\* So was the first byte of the next one's header.
InBasic(d) ==
  /\ d.m_state = "HEADER_BASIC" /\ d.m_bytes_needed = 1 /\ OnFrame(d, 1)
  /\ Untouched(d, Before(d).open) /\ d.control = NoMsg

\* The rest of the header is read; what the basic one must satisfy was checked.
InExtended(d) ==
  /\ d.m_state = "HEADER_EXTENDED" /\ d.m_bytes_needed <= ExtendedLength(This(d))
  /\ OnFrame(d, HeaderLen(This(d)) - d.m_bytes_needed)
  /\ Untouched(d, Before(d).open) /\ d.control = NoMsg
  /\ IsControl(This(d)) => This(d).fin /\ This(d).form = "7"

\* The payload is read, or all of it was.
InPayload(d) ==
  /\ d.m_state = "APPLICATION" \/ (d.m_state = "READY" /\ d.m_bytes_needed = 0)
  /\ d.m_bytes_needed <= This(d).size
  /\ OnFrame(d, HeaderLen(This(d)) + Got(d))

\* A control frame leaves alone the data message it interrupts.
InControl(d) ==
  /\ InPayload(d) /\ IsControl(This(d)) /\ This(d).fin /\ This(d).form = "7"
  /\ Untouched(d, Before(d).open) /\ UnderWay(d.control, This(d).op, <<>>, d)

\* What is left of the frame fits as well; a text's bytes so far were validated.
InData(d) ==
  /\ InPayload(d) /\ ~IsControl(This(d)) /\ d.control = NoMsg
  /\ d.m_state = "READY" => This(d).fin
  /\ UnderWay(d.data, Joined(Before(d).open, This(d)).op, Earlier(Before(d).open), d)
  /\ Len(d.data.out) + d.m_bytes_needed <= m_max_message_size \/ d.wrapped
  /\ Clean(d) =>
       /\ d.data.op = This(d).op
       /\ d.data.validator = IF d.data.op = "text"
                             THEN decode(utf8_accept, This(d).bytes)[Got(d)]
                             ELSE utf8_accept

\* consume() returned an error: nothing of this frame was delivered.
Refused(d) == /\ d.ec # "none" /\ d.m_state # "READY" /\ d.current \in DOMAIN d.frames
              /\ d.delivered = Before(d).messages

\* The limits, where a control's message is that of the frame being read.
LimitsInv(d) ==
  /\ Len(d.data.out) <= m_max_message_size \/ d.wrapped
  /\ Len(d.control.out) <= Basic /\ d.control.validator = utf8_accept
  /\ d.control # NoMsg =>
       /\ d.current \in DOMAIN d.frames
       /\ IsControl(This(d)) /\ This(d).fin

\* Only the last frame may have stopped short; where all were prepared, and of
\* whole messages, only a limit refuses.
AcceptedInv(d) ==
  /\ \A i \in DOMAIN d.frames :
       i # Len(d.frames) => Len(d.frames[i].bytes) = d.frames[i].size
  /\ d.alone => \A i \in DOMAIN d.frames : d.frames[i] \in Prepared(~d.server)
  /\ Clean(d) => d.ec \in {"none", "too_big"}

PhaseInv(d) == \/ Between(d) \/ InBasic(d) \/ InExtended(d) \/ InControl(d)
               \/ InData(d) \/ Refused(d)

ProcessorInv(d) ==
  /\ d \in ProcessorRecord /\ LimitsInv(d) /\ AcceptedInv(d) /\ PhaseInv(d)

\* The inductive invariant of Hybi13Spec.
HyInv == ProcessorInv(p)

-----------------------------------------------------------------------------
(* decode(), the validator over a row of bytes.                            *)

\* A state leads to a state, and utf8_reject to itself.
LEMMA DecodeType ==
  ASSUME NEW st \in 0..8, NEW b \in Byte
  PROVE  Decode(st, b) \in 0..8 /\ Decode(1, b) = 1
<1>1. b \in Nat /\ b <= 255
  BY ByteRange
<1>2. st = 0 \/ st = 1 \/ st = 2 \/ st = 3 \/ st = 4 \/ st = 5 \/ st = 6 \/ st = 7 \/ st = 8
  OBVIOUS
<1> QED BY <1>1, <1>2, DecodeTable

\* The states after each byte of a row exist, and each follows the one before.
LEMMA DecodeExists ==
  ASSUME NEW st \in 0..8, NEW s \in Seq(Byte)
  PROVE  /\ decode(st, s)[0] = st
         /\ \A i \in 1..Len(s) : decode(st, s)[i] = Decode(decode(st, s)[i - 1], s[i])
         /\ \A i \in 0..Len(s) : decode(st, s)[i] \in 0..8
<1> DEFINE X == 0..8
           Step == [i \in 1..Len(s) |-> [x \in X |-> Decode(x, s[i])]]
           Body(g, i) == IF i = 0 THEN st ELSE Decode(g[i - 1], s[i])
           Is(g) == g = [i \in 0..Len(s) |-> Body(g, i)]
           c == CHOOSE g : Is(g)
<1>1. Step \in [1..Len(s) -> [X -> X]]
  <2>1. ASSUME NEW i \in 1..Len(s), NEW x \in X PROVE Decode(x, s[i]) \in X
    BY DecodeType
  <2> QED BY <2>1
<1>2. st \in X /\ Len(s) \in Nat
  OBVIOUS
<1>3. PICK g : Recurs(g, Len(s), X, st, Step)
  <2> HIDE DEF Step, X
  <2> QED BY <1>1, <1>2, Recursion
<1>9. /\ g \in [0..Len(s) -> X] /\ g[0] = st
      /\ \A i \in 1..Len(s) : g[i] = Step[i][g[i - 1]]
  BY <1>3 DEF Recurs
<1>4. Is(g)
  <2> SUFFICES ASSUME NEW i \in 0..Len(s)
               PROVE  g[i] = Body(g, i)
    <3>1. g = [i \in 0..Len(s) |-> g[i]]
      BY <1>9
    <3> QED BY <3>1
  <2>1. CASE i = 0
    BY <1>9, <2>1
  <2>2. CASE i # 0
    <3>1. i \in 1..Len(s) /\ g[i - 1] \in X
      BY <2>2, <1>2, <1>9
    <3> QED BY <1>9, <3>1, <2>2
  <2> QED BY <2>1, <2>2
<1>5. Is(c)
  <2> HIDE DEF Is
  <2> QED BY <1>4
<1>6. decode(st, s) = c
  BY DEF decode
<1> HIDE DEF c
<1>10. c[0] = st /\ \A i \in 1..Len(s) : c[i] = Decode(c[i - 1], s[i])
  <2>1. 0 \in 0..Len(s)
    BY <1>2
  <2>2. ASSUME NEW i \in 1..Len(s) PROVE c[i] = Decode(c[i - 1], s[i])
    <3>1. i \in 0..Len(s) /\ i # 0
      OBVIOUS
    <3> QED BY <1>5, <3>1
  <2> QED BY <1>5, <2>1, <2>2
<1> DEFINE T == {i \in Nat : i <= Len(s) => c[i] \in X}
<1>7. 0 \in T
  BY <1>2, <1>10
<1>8. ASSUME NEW i \in Nat, i \in T PROVE i + 1 \in T
  <2> SUFFICES ASSUME i + 1 <= Len(s) PROVE c[i + 1] \in X
    OBVIOUS
  <2>1. c[i] \in X /\ i + 1 \in 1..Len(s) /\ (i + 1) - 1 = i /\ s[i + 1] \in Byte
    BY <1>2, <1>8
  <2>2. c[i + 1] = Decode(c[i], s[i + 1])
    BY <1>10, <2>1
  <2> QED BY <2>1, <2>2, DecodeType
<1>11. Nat \subseteq T
  <2> HIDE DEF T
  <2> QED BY <1>7, <1>8, SetInduction
<1>12. \A i \in 0..Len(s) : c[i] \in X
  BY <1>2, <1>11
<1> QED BY <1>6, <1>10, <1>12

\* The bytes may be decoded in two parts.
LEMMA DecodeParts ==
  ASSUME NEW st \in 0..8, NEW s \in Seq(Byte), NEW k \in 0..Len(s), NEW n \in Nat,
         k + n <= Len(s), NEW t \in Seq(Byte), Len(t) = n,
         \A i \in 1..n : t[i] = s[k + i]
  PROVE  decode(decode(st, s)[k], t)[n] = decode(st, s)[k + n]
<1>1. /\ \A i \in 1..Len(s) : decode(st, s)[i] = Decode(decode(st, s)[i - 1], s[i])
      /\ decode(st, s)[k] \in 0..8
  BY DecodeExists
<1> PICK g : g = decode(st, s)
  OBVIOUS
<1> PICK h : h = decode(decode(st, s)[k], t)
  OBVIOUS
<1>2. h[0] = g[k] /\ \A i \in 1..n : h[i] = Decode(h[i - 1], t[i])
  BY <1>1, DecodeExists
<1> DEFINE T == {i \in Nat : i <= n => h[i] = g[k + i]}
<1>3. 0 \in T
  BY <1>2
<1>4. ASSUME NEW i \in Nat, i \in T PROVE i + 1 \in T
  <2> SUFFICES ASSUME i + 1 <= n PROVE h[i + 1] = g[k + (i + 1)]
    OBVIOUS
  <2>1. h[i] = g[k + i] /\ i + 1 \in 1..n /\ (i + 1) - 1 = i
    BY <1>4
  <2>2. k + (i + 1) \in 1..Len(s) /\ (k + (i + 1)) - 1 = k + i
    OBVIOUS
  <2>3. g[k + (i + 1)] = Decode(g[k + i], s[k + (i + 1)])
    BY <1>1, <2>2
  <2>4. h[i + 1] = Decode(h[i], t[i + 1])
    BY <1>2, <2>1
  <2> QED BY <2>1, <2>3, <2>4
<1>5. Nat \subseteq T
  <2> HIDE DEF T
  <2> QED BY <1>3, <1>4, SetInduction
<1> QED BY <1>5

\* What was rejected once stays rejected.
LEMMA DecodeRejects ==
  ASSUME NEW st \in 0..8, NEW s \in Seq(Byte), NEW k \in 0..Len(s),
         decode(st, s)[k] = 1
  PROVE  decode(st, s)[Len(s)] = 1
<1> PICK g : g = decode(st, s)
  OBVIOUS
<1>1. \A i \in 1..Len(s) : g[i] = Decode(g[i - 1], s[i])
  BY DecodeExists
<1> DEFINE T == {i \in Nat : k + i <= Len(s) => g[k + i] = 1}
<1>3. 0 \in T
  OBVIOUS
<1>4. ASSUME NEW i \in Nat, i \in T PROVE i + 1 \in T
  <2> SUFFICES ASSUME k + (i + 1) <= Len(s) PROVE g[k + (i + 1)] = 1
    OBVIOUS
  <2>1. g[k + i] = 1
    BY <1>4
  <2>2. k + (i + 1) \in 1..Len(s) /\ (k + (i + 1)) - 1 = k + i
    OBVIOUS
  <2>3. g[k + (i + 1)] = Decode(1, s[k + (i + 1)])
    BY <1>1, <2>1, <2>2
  <2>4. s[k + (i + 1)] \in Byte /\ 1 \in 0..8
    BY <2>2
  <2> QED BY <2>3, <2>4, DecodeType
<1>5. Nat \subseteq T
  <2> HIDE DEF T
  <2> QED BY <1>3, <1>4, SetInduction
<1>6. Len(s) - k \in Nat /\ k + (Len(s) - k) = Len(s)
  OBVIOUS
<1> QED BY <1>5, <1>6

-----------------------------------------------------------------------------
(* The cells of a frame, and what is left of them.                         *)

\* A remainder by 4, and that of a sum.
LEMMA Mod4 ==
  /\ \A x \in Nat : x % 4 \in 0..3
  /\ \A x, y \in Nat : ((x % 4) + y) % 4 = (x + y) % 4
OBVIOUS

\* A row of cells after another.
LEMMA ConcatCells ==
  ASSUME NEW a \in Seq(Cell), NEW b \in Seq(Cell)
  PROVE  /\ a \o b \in Seq(Cell) /\ Len(a \o b) = Len(a) + Len(b)
         /\ \A i \in 1..Len(a) : (a \o b)[i] = a[i]
         /\ \A i \in 1..Len(b) : (a \o b)[Len(a) + i] = b[i]
OBVIOUS

\* The fields of a frame.
LEMMA FrameFields ==
  ASSUME NEW f \in Frames
  PROVE  /\ f.op \in Opcodes /\ f.fin \in BOOLEAN /\ f.size \in Nat
         /\ f.bytes \in Seq(Byte) /\ Len(f.bytes) \in Nat /\ Len(f.bytes) <= f.size
         /\ f.form = "7" => f.size <= Basic
<1>1. f.bytes \in Seq(0..255)
  BY Zenon DEF Frames
<1>2. f.bytes \in Seq(Byte)
  BY ONLY <1>1 DEF Byte
<1>3. /\ f.op \in Opcodes /\ f.fin \in BOOLEAN /\ f.size \in Nat
      /\ Len(f.bytes) <= f.size
      /\ f.form = "7" => f.size <= Basic
  BY Zenon DEF Frames
<1>4. Len(f.bytes) \in Nat
  BY <1>2
<1> QED BY <1>2, <1>3, <1>4

\* A frame's cells are its header's and one for each byte of its payload.
LEMMA CellsOf ==
  ASSUME NEW f \in Frames, NEW id \in Nat
  PROVE  LET cells == Cells(f, id)  l == HeaderLen(f) IN
         /\ ExtendedLength(f) \in Nat /\ l \in Nat /\ l >= 2
         /\ cells \in Seq(Cell) /\ Len(cells) = l + Len(f.bytes)
         /\ \A i \in 1..l : cells[i].frame = id
         /\ \A i \in 1..Len(f.bytes) :
              /\ cells[l + i].frame = id /\ cells[l + i].byte = f.bytes[i]
              /\ cells[l + i].phase = (i - 1) % 4
<1> DEFINE l == HeaderLen(f)
           head == [i \in 1..l |-> [frame |-> id, byte |-> -1, phase |-> 0]]
           rest == [i \in 1..Len(f.bytes) |-> [frame |-> id, byte |-> f.bytes[i],
                                               phase |-> (i - 1) % 4]]
<1>1. ExtendedLength(f) \in Nat /\ l \in Nat /\ l >= 2
  <2>3. ExtendedLength(f) \in Nat
    <3>1. (IF f.form = "7" THEN 0 ELSE IF f.form = "16" THEN 2 ELSE 8) \in Nat
      OBVIOUS
    <3>2. (IF f.masked THEN 4 ELSE 0) \in Nat
      OBVIOUS
    <3> QED BY ONLY <3>1, <3>2 DEF ExtendedLength
  <2> QED BY <2>3 DEF HeaderLen
<1>2. f.bytes \in Seq(Byte) /\ Len(f.bytes) \in Nat
  BY FrameFields
<1>3. head \in Seq(Cell) /\ Len(head) = l
  <2>1. [frame |-> id, byte |-> -1, phase |-> 0] \in Cell
    BY DEF Cell
  <2> HIDE DEF l
  <2> QED BY <1>1, <2>1
<1>4. rest \in Seq(Cell) /\ Len(rest) = Len(f.bytes)
  <2>1. ASSUME NEW i \in 1..Len(f.bytes)
        PROVE  [frame |-> id, byte |-> f.bytes[i], phase |-> (i - 1) % 4] \in Cell
    <3>1. f.bytes[i] \in Byte
      BY <1>2, ElementOfSeq
    <3>2. i - 1 \in Nat
      BY <1>2
    <3>3. (i - 1) % 4 \in 0..3
      BY <3>2, Mod4
    <3> QED BY <3>1, <3>3 DEF Cell
  <2> QED BY <1>2, <2>1
<1>5. Cells(f, id) = head \o rest
  BY DEF Cells, HeaderLen
<1>6. /\ \A i \in 1..l : head[i].frame = id
      /\ \A i \in 1..Len(f.bytes) : /\ rest[i].frame = id /\ rest[i].byte = f.bytes[i]
                                    /\ rest[i].phase = (i - 1) % 4
  OBVIOUS
<1> HIDE DEF head, rest, l
<1>7. /\ head \o rest \in Seq(Cell) /\ Len(head \o rest) = l + Len(f.bytes)
      /\ \A i \in 1..l : (head \o rest)[i] = head[i]
      /\ \A i \in 1..Len(f.bytes) : (head \o rest)[l + i] = rest[i]
  <2>1. /\ head \o rest \in Seq(Cell) /\ Len(head \o rest) = Len(head) + Len(rest)
        /\ \A i \in 1..Len(head) : (head \o rest)[i] = head[i]
        /\ \A i \in 1..Len(rest) : (head \o rest)[Len(head) + i] = rest[i]
    BY <1>3, <1>4, ConcatCells
  <2> QED BY ONLY <1>3, <1>4, <2>1
<1> QED BY <1>1, <1>5, <1>6, <1>7 DEF l

\* A read takes bytes off the wire and leaves what is to be read as it was.
LEMMA LeftOfRead ==
  ASSUME NEW wire \in Seq(Cell), NEW cells \in Seq(Cell), NEW c \in Nat,
         Left(<<>>, wire, cells, c), NEW k \in 0..Len(wire)
  PROVE  /\ SubSeq(wire, 1, k) \in Seq(Cell) /\ SubSeq(wire, k + 1, Len(wire)) \in Seq(Cell)
         /\ Left(SubSeq(wire, 1, k), SubSeq(wire, k + 1, Len(wire)), cells, c)
<1>1. Len(<<>>) = 0 /\ Len(wire) \in Nat /\ Len(cells) \in Nat
  OBVIOUS
<1>2. Len(wire) = Len(cells) - c /\ \A i \in 1..Len(wire) : wire[i] = cells[c + i]
  BY <1>1 DEF Left
<1> DEFINE a == SubSeq(wire, 1, k)
           b == SubSeq(wire, k + 1, Len(wire))
<1>3. /\ a \in Seq(Cell) /\ Len(a) = k /\ \A i \in 1..k : a[i] = wire[i]
      /\ b \in Seq(Cell) /\ Len(b) = Len(wire) - k
      /\ \A i \in 1..(Len(wire) - k) : b[i] = wire[k + i]
  BY <1>1
<1> HIDE DEF a, b
<1>4. \A i \in 1..k : a[i] = cells[c + i]
  BY <1>1, <1>2, <1>3
<1>5. ASSUME NEW i \in 1..Len(b) PROVE b[i] = cells[c + Len(a) + i]
  <2>1. k + i \in 1..Len(wire) /\ c + (k + i) = c + k + i
    BY <1>1, <1>3
  <2>2. b[i] = wire[k + i]
    BY <1>1, <1>3
  <2> QED BY <1>2, <1>3, <2>1, <2>2
<1>6. Len(a) + Len(b) = Len(cells) - c
  BY <1>1, <1>2, <1>3
<1>7. Left(a, b, cells, c)
  BY ONLY <1>3, <1>4, <1>5, <1>6 DEF Left
<1> QED BY <1>3, <1>7 DEF a, b

\* What consume() takes from its buffer is the first of what was to be read.
LEMMA LeftOfTake ==
  ASSUME NEW buf \in Seq(Cell), NEW wire \in Seq(Cell), NEW cells \in Seq(Cell),
         NEW c \in Nat, Left(buf, wire, cells, c), NEW n \in 0..Len(buf)
  PROVE  /\ SubSeq(buf, n + 1, Len(buf)) \in Seq(Cell)
         /\ Left(SubSeq(buf, n + 1, Len(buf)), wire, cells, c + n)
<1>1. Len(buf) \in Nat /\ Len(wire) \in Nat /\ Len(cells) \in Nat
  OBVIOUS
<1> DEFINE b == SubSeq(buf, n + 1, Len(buf))
<1>2. /\ b \in Seq(Cell) /\ Len(b) = Len(buf) - n
      /\ \A i \in 1..(Len(buf) - n) : b[i] = buf[n + i]
  BY <1>1
<1> HIDE DEF b
<1>3. ASSUME NEW i \in 1..Len(b) PROVE b[i] = cells[(c + n) + i]
  <2>1. n + i \in 1..Len(buf) /\ c + (n + i) = (c + n) + i /\ b[i] = buf[n + i]
    BY <1>1, <1>2
  <2> QED BY <2>1 DEF Left
<1>4. ASSUME NEW i \in 1..Len(wire) PROVE wire[i] = cells[(c + n) + Len(b) + i]
  <2>1. (c + n) + Len(b) + i = c + Len(buf) + i
    BY <1>1, <1>2
  <2> QED BY <2>1 DEF Left
<1>6. Len(buf) + Len(wire) = Len(cells) - c
  BY DEF Left
<1>5. Len(b) + Len(wire) = Len(cells) - (c + n)
  BY <1>1, <1>2, <1>6
<1> QED BY <1>2, <1>3, <1>4, <1>5 DEF Left, b

\* What is put on the wire comes after what is to be read.
LEMMA LeftOfSend ==
  ASSUME NEW buf \in Seq(Cell), NEW wire \in Seq(Cell), NEW cells \in Seq(Cell),
         NEW more \in Seq(Cell), NEW c \in Nat, Left(buf, wire, cells, c)
  PROVE  Left(buf, wire \o more, cells \o more, c)
<1>1. Len(buf) \in Nat /\ Len(wire) \in Nat /\ Len(cells) \in Nat /\ Len(more) \in Nat
  OBVIOUS
<1>2. /\ Len(buf) + Len(wire) = Len(cells) - c
      /\ \A i \in 1..Len(buf) : buf[i] = cells[c + i]
      /\ \A i \in 1..Len(wire) : wire[i] = cells[c + Len(buf) + i]
  BY DEF Left
<1> PICK w : w = wire \o more
  OBVIOUS
<1> PICK a : a = cells \o more
  OBVIOUS
<1>3. /\ Len(w) = Len(wire) + Len(more) /\ \A i \in 1..Len(wire) : w[i] = wire[i]
      /\ \A i \in 1..Len(more) : w[Len(wire) + i] = more[i]
  BY ONLY w = wire \o more, wire \in Seq(Cell), more \in Seq(Cell), ConcatCells
<1>4. /\ Len(a) = Len(cells) + Len(more) /\ \A i \in 1..Len(cells) : a[i] = cells[i]
      /\ \A i \in 1..Len(more) : a[Len(cells) + i] = more[i]
  BY ONLY a = cells \o more, cells \in Seq(Cell), more \in Seq(Cell), ConcatCells
<1>5. Len(buf) + Len(w) = Len(a) - c
  <2> PICK ahead \in Nat : ahead = Len(wire)
    BY <1>1
  <2> PICK all \in Nat : all = Len(cells)
    BY <1>1
  <2> PICK here \in Nat : here = Len(buf)
    BY <1>1
  <2> PICK count \in Nat : count = Len(more)
    BY <1>1
  <2>1. Len(w) = ahead + count /\ Len(a) = all + count /\ here + ahead = all - c
    BY <1>2, <1>3, <1>4
  <2>2. here + (ahead + count) = (all + count) - c
    BY ONLY <2>1, here \in Nat, ahead \in Nat, all \in Nat, count \in Nat, c \in Nat
  <2> QED BY <2>1, <2>2
<1>6. ASSUME NEW i \in 1..Len(buf) PROVE buf[i] = a[c + i]
  <2>1. c + i \in 1..Len(cells)
    BY <1>1, <1>2
  <2> QED BY <1>2, <1>4, <2>1
<1>7. ASSUME NEW i \in 1..Len(w) PROVE w[i] = a[c + Len(buf) + i]
  <2>1. CASE i \in 1..Len(wire)
    <3>1. c + Len(buf) + i \in 1..Len(cells)
      BY <1>1, <1>2, <2>1
    <3> QED BY <1>2, <1>3, <1>4, <2>1, <3>1
  <2>2. CASE i \notin 1..Len(wire)
    <3> PICK j \in 1..Len(more) : i = Len(wire) + j
      <4> PICK ahead \in Nat : ahead = Len(wire)
        BY <1>1
      <4> PICK count \in Nat : count = Len(more)
        BY <1>1
      <4>2. i \in 1..(ahead + count) /\ i \notin 1..ahead
        BY <1>3, <2>2
      <4>1. i - Len(wire) \in 1..Len(more) /\ i = Len(wire) + (i - Len(wire))
        BY ONLY <4>2, ahead \in Nat, count \in Nat, ahead = Len(wire), count = Len(more)
      <4> QED BY <4>1
    <3>1. c + Len(buf) + i = Len(cells) + j
      <4> PICK here \in Nat : here = Len(buf)
        BY <1>1
      <4> PICK ahead \in Nat : ahead = Len(wire)
        BY <1>1
      <4> PICK all \in Nat : all = Len(cells)
        BY <1>1
      <4>3. j \in Nat /\ i = ahead + j
        BY <1>1
      <4>1. here + ahead = all - c
        BY <1>2
      <4>2. c + here + i = all + j
        BY ONLY <4>1, <4>3, here \in Nat, ahead \in Nat, all \in Nat, c \in Nat
      <4> QED BY <4>2
    <3> QED BY <1>3, <1>4, <3>1
  <2> QED BY <2>1, <2>2
<1> QED BY <1>5, <1>6, <1>7 DEF Left

-----------------------------------------------------------------------------
(* The cells of a row of frames.                                           *)

\* The cells of the first frames are a row, which each frame makes longer.
LEMMA StreamExists ==
  ASSUME NEW s \in Seq(Frames)
  PROVE  /\ Stream(s)[0] = <<>>
         /\ \A i \in 1..Len(s) : Stream(s)[i] = Stream(s)[i - 1] \o Cells(s[i], i)
         /\ \A i \in 0..Len(s) : Stream(s)[i] \in Seq(Cell)
<1> DEFINE X == Seq(Cell)
           Step == [i \in 1..Len(s) |-> [x \in X |-> x \o Cells(s[i], i)]]
           Body(g, i) == IF i = 0 THEN <<>> ELSE g[i - 1] \o Cells(s[i], i)
           Is(g) == g = [i \in 0..Len(s) |-> Body(g, i)]
           c == CHOOSE g : Is(g)
<1>0. \A i \in 1..Len(s) : s[i] \in Frames
  BY ElementOfSeq
<1>1. Step \in [1..Len(s) -> [X -> X]]
  <2>1. ASSUME NEW i \in 1..Len(s), NEW x \in X PROVE x \o Cells(s[i], i) \in X
    <3>1. i \in Nat /\ s[i] \in Frames
      BY <1>0
    <3>2. Cells(s[i], i) \in Seq(Cell)
      BY <3>1, CellsOf, Zenon
    <3> QED BY <3>2, ConcatCells
  <2> QED BY <2>1
<1>2. <<>> \in X /\ Len(s) \in Nat
  OBVIOUS
<1>3. PICK g : Recurs(g, Len(s), X, <<>>, Step)
  <2> HIDE DEF Step, X
  <2> QED BY <1>1, <1>2, Recursion
<1>9. /\ g \in [0..Len(s) -> X] /\ g[0] = <<>>
      /\ \A i \in 1..Len(s) : g[i] = Step[i][g[i - 1]]
  BY <1>3 DEF Recurs
<1>4. Is(g)
  <2> SUFFICES ASSUME NEW i \in 0..Len(s)
               PROVE  g[i] = Body(g, i)
    <3>1. g = [i \in 0..Len(s) |-> g[i]]
      BY <1>9
    <3> QED BY <3>1
  <2>1. CASE i = 0
    BY <1>9, <2>1
  <2>2. CASE i # 0
    <3>1. i \in 1..Len(s) /\ g[i - 1] \in X
      BY <2>2, <1>2, <1>9
    <3> QED BY <1>9, <3>1, <2>2
  <2> QED BY <2>1, <2>2
<1>5. Is(c)
  <2> HIDE DEF Is
  <2> QED BY <1>4
<1>6. Stream(s) = c
  BY DEF Stream
<1> HIDE DEF c
<1>10. c[0] = <<>> /\ \A i \in 1..Len(s) : c[i] = c[i - 1] \o Cells(s[i], i)
  <2>1. 0 \in 0..Len(s)
    BY <1>2
  <2>2. ASSUME NEW i \in 1..Len(s) PROVE c[i] = c[i - 1] \o Cells(s[i], i)
    <3>1. i \in 0..Len(s) /\ i # 0
      OBVIOUS
    <3> QED BY <1>5, <3>1
  <2> QED BY <1>5, <2>1, <2>2
<1> DEFINE T == {i \in Nat : i <= Len(s) => c[i] \in X}
<1>7. 0 \in T
  BY <1>2, <1>10
<1>8. ASSUME NEW i \in Nat, i \in T PROVE i + 1 \in T
  <2> SUFFICES ASSUME i + 1 <= Len(s) PROVE c[i + 1] \in X
    OBVIOUS
  <2>1. c[i] \in X /\ i + 1 \in 1..Len(s) /\ (i + 1) - 1 = i
    BY <1>2, <1>8
  <2>2. c[i + 1] = c[i] \o Cells(s[i + 1], i + 1) /\ s[i + 1] \in Frames
    BY <1>0, <1>10, <2>1
  <2>3. Cells(s[i + 1], i + 1) \in Seq(Cell)
    <3>1. i + 1 \in Nat
      BY <2>1
    <3> QED BY <2>2, <3>1, CellsOf, Zenon
  <2> QED BY <2>1, <2>2, <2>3, ConcatCells
<1>11. Nat \subseteq T
  <2> HIDE DEF T
  <2> QED BY <1>7, <1>8, SetInduction
<1>12. \A i \in 0..Len(s) : c[i] \in X
  BY <1>2, <1>11
<1> QED BY <1>6, <1>10, <1>12

\* A frame more appends its cells.
LEMMA StreamKept ==
  ASSUME NEW s \in Seq(Frames), NEW f \in Frames
  PROVE  /\ \A i \in 0..Len(s) : Stream(Append(s, f))[i] = Stream(s)[i]
         /\ Stream(Append(s, f))[Len(s) + 1] = Stream(s)[Len(s)] \o Cells(f, Len(s) + 1)
<1> PICK t : t = Append(s, f)
  OBVIOUS
<1>1. /\ t \in Seq(Frames) /\ Len(t) = Len(s) + 1 /\ Len(s) \in Nat
      /\ \A i \in 1..Len(s) : t[i] = s[i]
      /\ t[Len(s) + 1] = f
  OBVIOUS
<1> PICK g : g = Stream(s)
  OBVIOUS
<1> PICK h : h = Stream(t)
  OBVIOUS
<1>2. g[0] = <<>> /\ \A i \in 1..Len(s) : g[i] = g[i - 1] \o Cells(s[i], i)
  BY StreamExists
<1>3. h[0] = <<>> /\ \A i \in 1..Len(t) : h[i] = h[i - 1] \o Cells(t[i], i)
  BY <1>1, StreamExists
<1> DEFINE T == {i \in Nat : i <= Len(s) => h[i] = g[i]}
<1>4. 0 \in T
  BY <1>2, <1>3
<1>5. ASSUME NEW i \in Nat, i \in T PROVE i + 1 \in T
  <2> SUFFICES ASSUME i + 1 <= Len(s) PROVE h[i + 1] = g[i + 1]
    OBVIOUS
  <2>1. h[i] = g[i] /\ i + 1 \in 1..Len(s) /\ (i + 1) - 1 = i /\ i + 1 \in 1..Len(t)
    BY <1>1, <1>5
  <2>2. h[i + 1] = h[i] \o Cells(t[i + 1], i + 1) /\ g[i + 1] = g[i] \o Cells(s[i + 1], i + 1)
    BY <1>2, <1>3, <2>1
  <2> QED BY <1>1, <2>1, <2>2
<1>6. Nat \subseteq T
  <2> HIDE DEF T
  <2> QED BY <1>4, <1>5, SetInduction
<1>7. \A i \in 0..Len(s) : h[i] = g[i]
  BY <1>1, <1>6
<1>8. h[Len(s) + 1] = g[Len(s)] \o Cells(f, Len(s) + 1)
  <2>1. Len(s) + 1 \in 1..Len(t) /\ (Len(s) + 1) - 1 = Len(s) /\ Len(s) \in 0..Len(s)
    BY <1>1
  <2> QED BY <1>1, <1>3, <1>7, <2>1
<1> QED BY <1>7, <1>8

\* What the first frames' cells are, they are among more frames' as well.
LEMMA StreamGrows ==
  ASSUME NEW s \in Seq(Frames), NEW i \in 0..Len(s)
  PROVE  \A k \in i..Len(s) :
           /\ Len(Stream(s)[i]) <= Len(Stream(s)[k])
           /\ \A j \in 1..Len(Stream(s)[i]) : Stream(s)[k][j] = Stream(s)[i][j]
<1> PICK g : g = Stream(s)
  OBVIOUS
<1>0. Len(s) \in Nat /\ i \in Nat
  OBVIOUS
<1>1. /\ \A k \in 1..Len(s) : g[k] = g[k - 1] \o Cells(s[k], k)
      /\ \A k \in 0..Len(s) : g[k] \in Seq(Cell)
  BY StreamExists
<1> DEFINE First(k) == /\ Len(g[i]) <= Len(g[k])
                       /\ \A j \in 1..Len(g[i]) : g[k][j] = g[i][j]
           T == {m \in Nat : i + m <= Len(s) => First(i + m)}
<1>2. 0 \in T
  <2>1. i + 0 = i /\ g[i] \in Seq(Cell)
    BY <1>0, <1>1
  <2>2. Len(g[i]) \in Nat
    BY <2>1
  <2>3. First(i)
    BY <2>2
  <2> QED BY <2>1, <2>3
<1>3. ASSUME NEW m \in Nat, m \in T PROVE m + 1 \in T
  <2> SUFFICES ASSUME i + (m + 1) <= Len(s) PROVE First(i + (m + 1))
    OBVIOUS
  <2> PICK k \in Nat : k = i + m
    BY <1>0
  <2>1. i + (m + 1) = k + 1 /\ k + 1 \in 1..Len(s) /\ (k + 1) - 1 = k /\ k \in 0..Len(s)
    BY <1>0
  <2>2. First(k)
    BY <1>0, <1>3, <2>1
  <2>3. g[k + 1] = g[k] \o Cells(s[k + 1], k + 1) /\ g[k] \in Seq(Cell) /\ g[i] \in Seq(Cell)
    BY <1>1, <2>1
  <2>4. Cells(s[k + 1], k + 1) \in Seq(Cell)
    <3>1. s[k + 1] \in Frames /\ k + 1 \in Nat
      BY <2>1, ElementOfSeq
    <3> QED BY <3>1, CellsOf, Zenon
  <2> PICK old \in Seq(Cell) : old = g[k]
    BY <2>3
  <2> PICK more \in Seq(Cell) : more = Cells(s[k + 1], k + 1)
    BY <2>4
  <2> PICK first \in Seq(Cell) : first = g[i]
    BY <2>3
  <2>5. /\ Len(g[k + 1]) = Len(old) + Len(more)
        /\ \A j \in 1..Len(old) : g[k + 1][j] = old[j]
    <3>1. g[k + 1] = old \o more
      BY <2>3
    <3> PICK next : next = g[k + 1]
      OBVIOUS
    <3>2. next = old \o more
      BY <3>1
    <3>3. /\ Len(old \o more) = Len(old) + Len(more)
          /\ \A j \in 1..Len(old) : (old \o more)[j] = old[j]
      BY ONLY old \in Seq(Cell), more \in Seq(Cell), ConcatCells
    <3> QED BY ONLY <3>2, <3>3, next = g[k + 1]
  <2>6. Len(old) \in Nat /\ Len(first) \in Nat /\ Len(more) \in Nat
    OBVIOUS
  <2>7. Len(g[i]) <= Len(g[k + 1])
    <3>1. Len(first) <= Len(old)
      BY <2>2
    <3>2. Len(first) <= Len(old) + Len(more)
      BY ONLY <2>6, <3>1
    <3> QED BY <2>5, <3>2
  <2>8. \A j \in 1..Len(g[i]) : g[k + 1][j] = g[i][j]
    <3> TAKE j \in 1..Len(g[i])
    <3>1. j \in 1..Len(g[k])
      BY <2>2, <2>6
    <3> QED BY <2>2, <2>5, <3>1
  <2> QED BY <2>1, <2>7, <2>8
<1>4. Nat \subseteq T
  <2> HIDE DEF T
  <2> QED BY <1>2, <1>3, SetInduction
<1>5. ASSUME NEW k \in i..Len(s) PROVE First(k)
  <2>1. k - i \in Nat /\ i + (k - i) = k /\ k <= Len(s)
    BY <1>0
  <2>2. k - i \in T
    BY <1>4, <2>1
  <2> QED BY <2>1, <2>2
<1> QED BY <1>5

\* Where a frame's cells are among those of all frames.
LEMMA FrameInStream ==
  ASSUME NEW s \in Seq(Frames), NEW i \in 1..Len(s)
  PROVE  LET cells == Cells(s[i], i)
             start == Len(Stream(s)[i - 1])
             all == Stream(s)[Len(s)] IN
         /\ start \in Nat /\ Len(cells) \in Nat /\ all \in Seq(Cell) /\ Len(all) \in Nat
         /\ Len(Stream(s)[i]) = start + Len(cells) /\ start + Len(cells) <= Len(all)
         /\ i = Len(s) => Len(all) = start + Len(cells)
         /\ \A j \in 1..Len(cells) : all[start + j] = cells[j]
<1> PICK g : g = Stream(s)
  OBVIOUS
<1>0. Len(s) \in Nat /\ i \in Nat /\ i - 1 \in 0..Len(s) /\ i \in 0..Len(s)
      /\ Len(s) \in i..Len(s) /\ Len(s) \in 0..Len(s) /\ s[i] \in Frames
  BY ElementOfSeq
<1>1. g[i] = g[i - 1] \o Cells(s[i], i)
  BY StreamExists
<1>2. g[i] \in Seq(Cell) /\ g[i - 1] \in Seq(Cell) /\ g[Len(s)] \in Seq(Cell)
  BY <1>0, StreamExists
<1> PICK cells : cells = Cells(s[i], i)
  OBVIOUS
<1>3. cells \in Seq(Cell)
  BY <1>0, CellsOf, Zenon
<1>4. Len(g[i - 1]) \in Nat /\ Len(g[i]) \in Nat /\ Len(g[Len(s)]) \in Nat /\ Len(cells) \in Nat
  BY <1>2, <1>3
<1>5. /\ Len(g[i]) = Len(g[i - 1]) + Len(cells)
      /\ \A j \in 1..Len(cells) : g[i][Len(g[i - 1]) + j] = cells[j]
  <2> PICK old \in Seq(Cell) : old = g[i - 1]
    BY <1>2
  <2> PICK next : next = g[i]
    OBVIOUS
  <2>1. next = old \o cells
    BY <1>1
  <2>2. /\ Len(old \o cells) = Len(old) + Len(cells)
        /\ \A j \in 1..Len(cells) : (old \o cells)[Len(old) + j] = cells[j]
    BY ONLY <1>3, old \in Seq(Cell), ConcatCells
  <2> QED BY ONLY <2>1, <2>2, next = g[i], old = g[i - 1]
<1>6. /\ Len(g[i]) <= Len(g[Len(s)])
      /\ \A j \in 1..Len(g[i]) : g[Len(s)][j] = g[i][j]
  BY <1>0, StreamGrows
<1>7. \A j \in 1..Len(cells) : g[Len(s)][Len(g[i - 1]) + j] = cells[j]
  <2> TAKE j \in 1..Len(cells)
  <2>1. Len(g[i - 1]) + j \in 1..Len(g[i])
    <3> PICK start \in Nat : start = Len(g[i - 1])
      BY <1>4
    <3> PICK count \in Nat : count = Len(cells)
      BY <1>4
    <3>1. Len(g[i]) = start + count /\ j \in 1..count
      BY <1>5
    <3> QED BY ONLY <3>1, start = Len(g[i - 1]), start \in Nat, count \in Nat
  <2> QED BY <1>5, <1>6, <2>1
<1> QED BY <1>2, <1>4, <1>5, <1>6, <1>7

-----------------------------------------------------------------------------
(* The messages in a row of frames.                                        *)

Open == {s \in Seq(Delivery) : Len(s) <= 1}
Account == [open : Open, messages : Seq(Delivery)]
NoneYet == [open |-> <<>>, messages |-> <<>>]

\* A data frame makes a message, or more of one.
LEMMA JoinedType ==
  ASSUME NEW o \in Open, NEW f \in Frames
  PROVE  /\ Joined(o, f) \in Delivery
         /\ Joined(o, f).out = Earlier(o) \o f.bytes /\ Earlier(o) \in Seq(Byte)
         /\ o # <<>> => /\ o[1] \in Delivery /\ Joined(o, f).op = o[1].op
         /\ o = <<>> => Joined(o, f).op = f.op
<1>1. f.op \in Opcodes /\ f.bytes \in Seq(Byte)
  BY FrameFields
<1>2. CASE o = <<>>
  <2>1. Joined(o, f) = [op |-> f.op, out |-> f.bytes] /\ Earlier(o) = <<>>
    BY <1>2 DEF Joined, Earlier
  <2>2. <<>> \o f.bytes = f.bytes /\ <<>> \in Seq(Byte)
    BY <1>1
  <2>3. [op |-> f.op, out |-> f.bytes] \in Delivery
    BY <1>1 DEF Delivery
  <2>4. Joined(o, f).op = f.op /\ Joined(o, f).out = f.bytes
    BY <2>1
  <2> QED BY ONLY <1>2, <2>1, <2>2, <2>3, <2>4
<1>3. CASE o # <<>>
  <2>1. o[1] \in Delivery
    <3>1. o \in Seq(Delivery) /\ Len(o) <= 1
      BY DEF Open
    <3> QED BY <1>3, <3>1
  <2>2. o[1].op \in Opcodes /\ o[1].out \in Seq(Byte)
    BY <2>1 DEF Delivery
  <2>3. Joined(o, f) = [o[1] EXCEPT !.out = @ \o f.bytes] /\ Earlier(o) = o[1].out
    BY <1>3 DEF Joined, Earlier
  <2>4. Joined(o, f) = [op |-> o[1].op, out |-> o[1].out \o f.bytes]
    BY <2>1, <2>3 DEF Delivery
  <2>5. o[1].out \o f.bytes \in Seq(Byte)
    BY <1>1, <2>2
  <2> QED BY <1>3, <2>1, <2>2, <2>3, <2>4, <2>5 DEF Delivery
<1> QED BY <1>2, <1>3

\* What a frame makes of an account of the frames before it.
LEMMA AfterFrameType ==
  ASSUME NEW a \in Account, NEW f \in Frames
  PROVE  /\ AfterFrame(a, f) \in Account
         /\ a.open \in Open /\ a.messages \in Seq(Delivery)
         /\ IsControl(f) => AfterFrame(a, f).open = a.open
         /\ IsControl(f) /\ f.fin =>
              AfterFrame(a, f).messages = Append(a.messages, [op |-> f.op, out |-> f.bytes])
         /\ ~f.fin => AfterFrame(a, f).messages = a.messages
         /\ ~IsControl(f) /\ f.fin =>
              /\ AfterFrame(a, f).open = <<>>
              /\ AfterFrame(a, f).messages = Append(a.messages, Joined(a.open, f))
         /\ ~IsControl(f) /\ ~f.fin => AfterFrame(a, f).open = <<Joined(a.open, f)>>
<1>1. f.op \in Opcodes /\ f.bytes \in Seq(Byte) /\ f.fin \in BOOLEAN
  BY FrameFields
<1>2. a.open \in Open /\ a.messages \in Seq(Delivery)
  BY DEF Account
<1>3. Joined(a.open, f) \in Delivery
  BY <1>2, JoinedType
<1>4. [op |-> f.op, out |-> f.bytes] \in Delivery
  BY <1>1 DEF Delivery
<1> PICK j \in Delivery : j = Joined(a.open, f)
  BY <1>3
<1> PICK w \in Delivery : w = [op |-> f.op, out |-> f.bytes]
  BY <1>4
<1>5. /\ Append(a.messages, j) \in Seq(Delivery) /\ Append(a.messages, w) \in Seq(Delivery)
      /\ <<>> \in Open /\ <<j>> \in Open
  BY <1>2 DEF Open
<1>6. CASE IsControl(f) /\ f.fin
  <2>1. AfterFrame(a, f) = [a EXCEPT !.messages = Append(a.messages, w)]
    BY <1>6 DEF AfterFrame
  <2> QED BY <1>2, <1>5, <1>6, <2>1 DEF Account
<1>7. CASE IsControl(f) /\ ~f.fin
  <2>1. AfterFrame(a, f) = [a EXCEPT !.messages = a.messages]
    BY <1>7 DEF AfterFrame
  <2> QED BY <1>2, <1>5, <1>7, <2>1 DEF Account
<1>8. CASE ~IsControl(f) /\ f.fin
  <2>1. AfterFrame(a, f) = [open |-> <<>>, messages |-> Append(a.messages, j)]
    BY <1>8 DEF AfterFrame
  <2> QED BY <1>2, <1>5, <1>8, <2>1 DEF Account
<1>9. CASE ~IsControl(f) /\ ~f.fin
  <2>1. AfterFrame(a, f) = [a EXCEPT !.open = <<j>>]
    BY <1>9 DEF AfterFrame
  <2> QED BY <1>2, <1>5, <1>9, <2>1 DEF Account
<1> QED BY <1>1, <1>6, <1>7, <1>8, <1>9

\* The accounts after each of the frames exist, and each follows the one before.
LEMMA AssembledExists ==
  ASSUME NEW s \in Seq(Frames)
  PROVE  /\ Assembled(s)[0] = NoneYet
         /\ \A i \in 1..Len(s) : Assembled(s)[i] = AfterFrame(Assembled(s)[i - 1], s[i])
         /\ \A i \in 0..Len(s) : Assembled(s)[i] \in Account
<1> DEFINE X == Account
           Step == [i \in 1..Len(s) |-> [x \in X |-> AfterFrame(x, s[i])]]
           Body(g, i) == IF i = 0 THEN NoneYet ELSE AfterFrame(g[i - 1], s[i])
           Is(g) == g = [i \in 0..Len(s) |-> Body(g, i)]
           c == CHOOSE g : Is(g)
<1>0. \A i \in 1..Len(s) : s[i] \in Frames
  BY ElementOfSeq
<1>1. Step \in [1..Len(s) -> [X -> X]]
  <2>1. ASSUME NEW i \in 1..Len(s), NEW x \in X PROVE AfterFrame(x, s[i]) \in X
    BY <1>0, AfterFrameType
  <2> QED BY <2>1
<1>2. NoneYet \in X /\ Len(s) \in Nat
  <2>1. <<>> \in Open /\ <<>> \in Seq(Delivery)
    BY DEF Open
  <2> QED BY <2>1 DEF NoneYet, Account
<1>3. PICK g : Recurs(g, Len(s), X, NoneYet, Step)
  <2> HIDE DEF Step, X
  <2> QED BY <1>1, <1>2, Recursion
<1>9. /\ g \in [0..Len(s) -> X] /\ g[0] = NoneYet
      /\ \A i \in 1..Len(s) : g[i] = Step[i][g[i - 1]]
  BY <1>3 DEF Recurs
<1>4. Is(g)
  <2> SUFFICES ASSUME NEW i \in 0..Len(s)
               PROVE  g[i] = Body(g, i)
    <3>1. g = [i \in 0..Len(s) |-> g[i]]
      BY <1>9
    <3> QED BY <3>1
  <2>1. CASE i = 0
    BY <1>9, <2>1
  <2>2. CASE i # 0
    <3>1. i \in 1..Len(s) /\ g[i - 1] \in X
      BY <2>2, <1>2, <1>9
    <3> QED BY <1>9, <3>1, <2>2
  <2> QED BY <2>1, <2>2
<1>5. Is(c)
  <2> HIDE DEF Is
  <2> QED BY <1>4
<1>6. Assembled(s) = c
  BY DEF Assembled, NoneYet
<1> HIDE DEF c
<1>10. c[0] = NoneYet /\ \A i \in 1..Len(s) : c[i] = AfterFrame(c[i - 1], s[i])
  <2>1. 0 \in 0..Len(s)
    BY <1>2
  <2>2. ASSUME NEW i \in 1..Len(s) PROVE c[i] = AfterFrame(c[i - 1], s[i])
    <3>1. i \in 0..Len(s) /\ i # 0
      OBVIOUS
    <3> QED BY <1>5, <3>1
  <2> QED BY <1>5, <2>1, <2>2
<1> DEFINE T == {i \in Nat : i <= Len(s) => c[i] \in X}
<1>7. 0 \in T
  BY <1>2, <1>10
<1>8. ASSUME NEW i \in Nat, i \in T PROVE i + 1 \in T
  <2> SUFFICES ASSUME i + 1 <= Len(s) PROVE c[i + 1] \in X
    OBVIOUS
  <2>1. c[i] \in X /\ i + 1 \in 1..Len(s) /\ (i + 1) - 1 = i
    BY <1>2, <1>8
  <2>2. c[i + 1] = AfterFrame(c[i], s[i + 1]) /\ s[i + 1] \in Frames
    BY <1>0, <1>10, <2>1
  <2> QED BY <2>1, <2>2, AfterFrameType
<1>11. Nat \subseteq T
  <2> HIDE DEF T
  <2> QED BY <1>7, <1>8, SetInduction
<1>12. \A i \in 0..Len(s) : c[i] \in X
  BY <1>2, <1>11
<1> QED BY <1>6, <1>10, <1>12

\* A frame more changes no account before it.
LEMMA AssembledKept ==
  ASSUME NEW s \in Seq(Frames), NEW f \in Frames
  PROVE  \A i \in 0..Len(s) : Assembled(Append(s, f))[i] = Assembled(s)[i]
<1> PICK t : t = Append(s, f)
  OBVIOUS
<1>1. /\ t \in Seq(Frames) /\ Len(t) = Len(s) + 1 /\ Len(s) \in Nat
      /\ \A i \in 1..Len(s) : t[i] = s[i]
  OBVIOUS
<1> PICK g : g = Assembled(s)
  OBVIOUS
<1> PICK h : h = Assembled(t)
  OBVIOUS
<1>2. g[0] = NoneYet /\ \A i \in 1..Len(s) : g[i] = AfterFrame(g[i - 1], s[i])
  BY AssembledExists
<1>3. h[0] = NoneYet /\ \A i \in 1..Len(t) : h[i] = AfterFrame(h[i - 1], t[i])
  BY <1>1, AssembledExists
<1> DEFINE T == {i \in Nat : i <= Len(s) => h[i] = g[i]}
<1>4. 0 \in T
  BY <1>2, <1>3
<1>5. ASSUME NEW i \in Nat, i \in T PROVE i + 1 \in T
  <2> SUFFICES ASSUME i + 1 <= Len(s) PROVE h[i + 1] = g[i + 1]
    OBVIOUS
  <2>1. h[i] = g[i] /\ i + 1 \in 1..Len(s) /\ (i + 1) - 1 = i /\ i + 1 \in 1..Len(t)
    BY <1>1, <1>5
  <2>2. h[i + 1] = AfterFrame(h[i], t[i + 1]) /\ g[i + 1] = AfterFrame(g[i], s[i + 1])
    BY <1>2, <1>3, <2>1
  <2> QED BY <1>1, <2>1, <2>2
<1>6. Nat \subseteq T
  <2> HIDE DEF T
  <2> QED BY <1>4, <1>5, SetInduction
<1> QED BY <1>1, <1>6

-----------------------------------------------------------------------------
(* The state between actions.                                              *)

\* The fields of the processor.
LEMMA RecordFields ==
  ASSUME NEW d \in ProcessorRecord
  PROVE  /\ d.frames \in Seq(Frames) /\ d.wire \in Seq(Cell) /\ d.buf \in Seq(Cell)
         /\ d.m_bytes_needed \in Nat /\ d.current \in Nat
         /\ d.data \in Message /\ d.control \in Message /\ d.delivered \in Seq(Delivery)
BY DEF ProcessorRecord

\* What is said of the frames is the same where they and the current one are.
LEMMA SameFrames ==
  ASSUME NEW d, NEW q, q.frames = d.frames, q.current = d.current
  PROVE  /\ This(q) = This(d) /\ Before(q) = Before(d) /\ Now(q) = Now(d)
         /\ All(q) = All(d) /\ \A i : Upto(q, i) = Upto(d, i)
         /\ q.alone = d.alone => Clean(q) = Clean(d)
BY DEF This, Before, Now, Clean, All, Upto

\* The frame being read, and the account before and after it.
LEMMA ThisFrame ==
  ASSUME NEW d \in ProcessorRecord, d.current \in DOMAIN d.frames
  PROVE  /\ d.current \in Nat \ {0} /\ This(d) \in Frames
         /\ Before(d) \in Account /\ Now(d) \in Account
         /\ Now(d) = AfterFrame(Before(d), This(d))
<1> PICK s \in Seq(Frames) : s = d.frames
  BY RecordFields
<1> PICK i \in 1..Len(s) : i = d.current
  OBVIOUS
<1>1. Len(s) \in Nat /\ i \in Nat \ {0} /\ i \in 0..Len(s) /\ i - 1 \in 0..Len(s)
  OBVIOUS
<1>2. s[i] \in Frames
  BY ElementOfSeq
<1>3. /\ Assembled(s)[i] = AfterFrame(Assembled(s)[i - 1], s[i])
      /\ Assembled(s)[i - 1] \in Account /\ Assembled(s)[i] \in Account
  BY <1>1, AssembledExists
<1> QED BY <1>1, <1>2, <1>3 DEF This, Before, Now

\* Where its cells are among all, and that it is whole where others follow.
LEMMA ThisCells ==
  ASSUME NEW d \in ProcessorRecord, d.current \in DOMAIN d.frames
  PROVE  LET cells == Cells(This(d), d.current)
             start == Upto(d, d.current - 1) IN
         /\ start \in Nat /\ Len(cells) \in Nat /\ All(d) \in Seq(Cell)
         /\ Len(All(d)) \in Nat /\ start + Len(cells) <= Len(All(d))
         /\ Upto(d, d.current) = start + Len(cells)
         /\ d.current = Len(d.frames) => Len(All(d)) = start + Len(cells)
         /\ \A j \in 1..Len(cells) : All(d)[start + j] = cells[j]
<1> PICK s \in Seq(Frames) : s = d.frames
  BY RecordFields
<1> PICK i \in 1..Len(s) : i = d.current
  OBVIOUS
<1> QED BY FrameInStream, Zenon DEF This, All, Upto

\* What a prepare_ function returns is a frame of its length's shortest form,
\* masked as its role asks for, and a text in it is valid.
LEMMA PreparedFrame ==
  ASSUME NEW server \in BOOLEAN, NEW f \in Prepared(server)
  PROVE  /\ f \in Frames /\ ~f.rsv1 /\ ~f.rsv23 /\ f.masked = ~server
         /\ f.size = Len(f.bytes) /\ f.form = LengthForm(f.size)
         /\ IsControl(f) => f.fin /\ f.form = "7"
         /\ f.op = "text" => validate(f.bytes)
<1>1. PICK m \in Outgoing : f \in prepare_data_frame(m, server) \cup prepare_control(m, server)
  BY DEF Prepared
<1>2. m.op \in Opcodes /\ m.fin \in BOOLEAN /\ m.bytes \in Seq(0..255)
  BY Hybi13Assumption
<1>3. Len(m.bytes) \in Nat /\ Basic \in Nat
  BY <1>2, Hybi13Assumption
<1>4. ASSUME NEW fin \in BOOLEAN, f = Framed(m.op, fin, server, m.bytes)
      PROVE  /\ f \in Frames /\ ~f.rsv1 /\ ~f.rsv23 /\ f.masked = ~server
             /\ f.size = Len(f.bytes) /\ f.form = LengthForm(f.size)
             /\ f.op = m.op /\ f.fin = fin /\ f.bytes = m.bytes
  <2>1. /\ ~f.rsv1 /\ ~f.rsv23 /\ f.masked = ~server
        /\ f.size = Len(f.bytes) /\ f.form = LengthForm(f.size)
        /\ f.op = m.op /\ f.fin = fin /\ f.bytes = m.bytes
    BY <1>4 DEF Framed
  <2>2. LengthForm(Len(m.bytes)) \in {"7", "16", "64"}
    BY DEF LengthForm
  <2>3. f.form = "7" => f.size <= Basic
    BY <2>1 DEF LengthForm
  <2>4. f \in [op : Opcodes, fin : BOOLEAN, rsv1 : BOOLEAN, rsv23 : BOOLEAN,
               masked : BOOLEAN, form : {"7", "16", "64"}, size : Nat, bytes : Seq(0..255)]
    BY <1>2, <1>3, <1>4, <2>2, Zenon DEF Framed
  <2>5. Len(f.bytes) <= f.size
    BY <1>3, <2>1
  <2>6. f \in Frames
    BY ONLY <2>3, <2>4, <2>5 DEF Frames
  <2> QED BY ONLY <2>1, <2>6
<1>5. CASE f \in prepare_data_frame(m, server)
  <2>1. /\ m.op \notin Controls /\ (m.op = "text" => validate(m.bytes))
        /\ f = Framed(m.op, m.fin, server, m.bytes)
    BY <1>5 DEF prepare_data_frame
  <2>2. /\ f \in Frames /\ ~f.rsv1 /\ ~f.rsv23 /\ f.masked = ~server
        /\ f.size = Len(f.bytes) /\ f.form = LengthForm(f.size)
        /\ f.op = m.op /\ f.bytes = m.bytes
    BY <1>2, <1>4, <2>1
  <2> QED BY <2>1, <2>2 DEF IsControl
<1>6. CASE f \in prepare_control(m, server)
  <2>1. /\ m.op \in Controls /\ ~(Len(m.bytes) > Basic)
        /\ f = Framed(m.op, TRUE, server, m.bytes)
    BY <1>6 DEF prepare_control
  <2>2. /\ f \in Frames /\ ~f.rsv1 /\ ~f.rsv23 /\ f.masked = ~server
        /\ f.size = Len(f.bytes) /\ f.form = LengthForm(f.size)
        /\ f.op = m.op /\ f.bytes = m.bytes /\ f.fin = TRUE
    BY <1>4, <2>1
  <2>5. f.size = Len(m.bytes) /\ f.form = LengthForm(f.size)
    BY ONLY <2>2
  <2>6. f.size <= Basic
    <3>1. Len(m.bytes) <= Basic
      <4>1. \A x, y \in Nat : ~(x > y) => x <= y
        OBVIOUS
      <4>2. ~(Len(m.bytes) > Basic)
        BY ONLY <2>1
      <4> QED BY ONLY <1>3, <4>1, <4>2
    <3> QED BY ONLY <2>5, <3>1
  <2>3. f.form = "7"
    BY ONLY <2>5, <2>6 DEF LengthForm
  <2>4. f.op # "text"
    BY <2>1, <2>2 DEF Controls
  <2> QED BY <2>2, <2>3, <2>4
<1> QED BY <1>1, <1>5, <1>6

\* Where all frames are those of whole messages, so is this one.
LEMMA CleanThis ==
  ASSUME NEW d \in ProcessorRecord, AcceptedInv(d), Clean(d),
         d.current \in DOMAIN d.frames
  PROVE  LET f == This(d) IN
         /\ f.fin /\ f.op # "cont" /\ f.op # "reserved"
         /\ ~f.rsv1 /\ ~f.rsv23 /\ f.masked = d.server
         /\ f.size = Len(f.bytes) /\ f.form = LengthForm(f.size)
         /\ IsControl(f) => f.form = "7"
         /\ f.op = "text" => validate(f.bytes)
<1>2. /\ This(d).fin /\ This(d).op \notin {"cont", "reserved"}
      /\ This(d) \in Prepared(~d.server)
  BY DEF Clean, AcceptedInv, This
<1>3. d.server \in BOOLEAN
  BY DEF ProcessorRecord
<1>4. CASE d.server = TRUE
  <2>1. This(d) \in Prepared(FALSE)
    BY <1>2, <1>4
  <2> QED BY <1>2, <1>4, <2>1, PreparedFrame
<1>5. CASE d.server = FALSE
  <2>1. This(d) \in Prepared(TRUE)
    BY <1>2, <1>5
  <2> QED BY <1>2, <1>5, <2>1, PreparedFrame
<1> QED BY <1>3, <1>4, <1>5

-----------------------------------------------------------------------------
(* The actions that are not consume()'s.                                   *)

\* The processor begins between two frames.
LEMMA HyInitOK == Hybi13Init => HyInv
<1> SUFFICES ASSUME Hybi13Init PROVE HyInv
  OBVIOUS
<1>1. /\ p.server = FALSE /\ p.frames = <<>> /\ p.wire = <<>> /\ p.buf = <<>>
      /\ p.m_state = "HEADER_BASIC" /\ p.m_bytes_needed = 2 /\ p.data = NoMsg
      /\ p.control = NoMsg /\ p.delivered = <<>> /\ p.ec = "none"
      /\ p.alone = TRUE /\ p.wrapped = FALSE /\ p.current = 0
  BY DEF Hybi13Init
<1>2. NoMsg \in Message /\ NoMsg.out = <<>> /\ NoMsg.validator = 0
  <2>1. <<>> \in Seq(Byte)
    OBVIOUS
  <2> QED BY <2>1 DEF NoMsg, Message
<1>3. p \in ProcessorRecord
  <2>1. \A S : <<>> \in Seq(S)
    OBVIOUS
  <2> QED BY <1>2, <2>1 DEF Hybi13Init, ProcessorRecord
<1>4. Len(<<>>) = 0 /\ 0 \in Nat /\ <<>> \in Seq(Frames) /\ DOMAIN <<>> = {}
  OBVIOUS
<1>5. Now(p).messages = <<>> /\ Now(p).open = <<>>
  <2>1. Assembled(<<>>)[0] = NoneYet
    BY <1>4, AssembledExists
  <2> QED BY <1>1, <1>4, <2>1 DEF Now, NoneYet
<1>9. Left(p.buf, p.wire, All(p), Upto(p, 0))
  <2>1. Stream(<<>>)[0] = <<>>
    BY <1>4, StreamExists
  <2>2. All(p) = <<>> /\ Upto(p, 0) = 0
    BY <1>1, <1>4, <2>1 DEF All, Upto
  <2> QED BY <1>1, <1>4, <2>2 DEF Left
<1>6. PhaseInv(p)
  <2>1. Between(p)
    BY ONLY <1>1, <1>4, <1>5, <1>9 DEF Between, Untouched, OpenIs
  <2> QED BY <2>1 DEF PhaseInv
<1>7. LimitsInv(p)
  BY ONLY <1>1, <1>2, <1>4, Hybi13Assumption DEF LimitsInv, utf8_accept
<1>8. AcceptedInv(p)
  BY <1>1, <1>4 DEF AcceptedInv
<1> QED BY <1>3, <1>6, <1>7, <1>8 DEF HyInv, ProcessorInv

\* The role is chosen before any frame.
LEMMA ChooseRoleOK ==
  ASSUME ProcessorInv(p), ChooseRole
  PROVE  ProcessorInv(p')
<1>1. p \in ProcessorRecord
  BY DEF ProcessorInv
<1>2. p' = [p EXCEPT !.server = TRUE] /\ p.frames = <<>>
  BY DEF ChooseRole
<1>3. /\ p'.frames = p.frames /\ p'.wire = p.wire /\ p'.buf = p.buf
      /\ p'.m_state = p.m_state /\ p'.m_bytes_needed = p.m_bytes_needed
      /\ p'.current = p.current /\ p'.data = p.data /\ p'.control = p.control
      /\ p'.delivered = p.delivered /\ p'.ec = p.ec /\ p'.alone = p.alone
      /\ p'.wrapped = p.wrapped /\ p' \in ProcessorRecord
  BY <1>1, <1>2 DEF ProcessorRecord
<1> PICK q : q = p'
  OBVIOUS
<1> PICK d : d = p
  OBVIOUS
<1>4. /\ This(q) = This(d) /\ Before(q) = Before(d) /\ Now(q) = Now(d)
      /\ Clean(q) = Clean(d) /\ All(q) = All(d) /\ \A i : Upto(q, i) = Upto(d, i)
  BY <1>3, SameFrames
<1>5. Between(d)
  <2>1. PhaseInv(d)
    BY DEF ProcessorInv
  <2>2. DOMAIN <<>> = {}
    OBVIOUS
  <2> QED BY <1>2, <2>1, <2>2 DEF PhaseInv, InBasic, InExtended, InControl, InData,
                                  InPayload, OnFrame, Refused
<1>6. Between(q)
  BY <1>3, <1>4, <1>5 DEF Between, Untouched
<1>7. LimitsInv(q)
  <2>1. LimitsInv(d)
    BY DEF ProcessorInv
  <2> QED BY <1>3, <1>4, <2>1 DEF LimitsInv
<1>8. AcceptedInv(q)
  <2>1. q.ec = "none" /\ DOMAIN q.frames = {}
    BY <1>2, <1>3, <1>5 DEF Between
  <2> QED BY <2>1 DEF AcceptedInv
<1> QED BY <1>3, <1>6, <1>7, <1>8 DEF ProcessorInv, PhaseInv

\* How many cells a frame has.
LEMMA CellCount ==
  ASSUME NEW f \in Frames, NEW id \in Nat
  PROVE  /\ Cells(f, id) \in Seq(Cell) /\ HeaderLen(f) \in Nat /\ HeaderLen(f) >= 2
         /\ Len(Cells(f, id)) = HeaderLen(f) + Len(f.bytes)
         /\ Len(f.bytes) \in Nat /\ Len(Cells(f, id)) \in Nat /\ Len(Cells(f, id)) >= 2
         /\ HeaderLen(f) = 2 + ExtendedLength(f) /\ ExtendedLength(f) \in Nat
<1>1. Len(f.bytes) \in Nat
  BY FrameFields
<1>2. /\ Cells(f, id) \in Seq(Cell) /\ HeaderLen(f) \in Nat /\ HeaderLen(f) >= 2
      /\ Len(Cells(f, id)) = HeaderLen(f) + Len(f.bytes) /\ ExtendedLength(f) \in Nat
  BY CellsOf, Zenon
<1> QED BY <1>1, <1>2 DEF HeaderLen

\* What is being read stays so whatever is put on the wire or taken off it.
LEMMA PhaseKept ==
  ASSUME NEW d \in ProcessorRecord, NEW q, PhaseInv(d), d.ec = "none",
         q.m_state = d.m_state, q.m_bytes_needed = d.m_bytes_needed,
         q.current = d.current, q.data = d.data, q.control = d.control,
         q.delivered = d.delivered, q.ec = d.ec, q.wrapped = d.wrapped,
         Clean(q) => Clean(d),
         d.current \in 0..Len(d.frames) =>
           /\ d.current \in 0..Len(q.frames) /\ Now(q) = Now(d)
           /\ Upto(q, d.current) = Upto(d, d.current) /\ Upto(d, d.current) \in Nat,
         d.current \in DOMAIN d.frames =>
           /\ d.current \in DOMAIN q.frames /\ This(q) = This(d) /\ Before(q) = Before(d)
           /\ Upto(q, d.current - 1) = Upto(d, d.current - 1),
         \A c \in Nat : Left(d.buf, d.wire, All(d), c) => Left(q.buf, q.wire, All(q), c)
  PROVE  PhaseInv(q)
<1>1. \A open : Untouched(d, open) => Untouched(q, open)
  BY DEF Untouched
<1>2. ASSUME NEW c \in Nat, OnFrame(d, c) PROVE OnFrame(q, c)
  <2>1. d.current \in DOMAIN d.frames
    BY <1>2 DEF OnFrame
  <2>2. Upto(d, d.current - 1) \in Nat
    BY <2>1, ThisCells
  <2>3. Upto(d, d.current - 1) + c \in Nat
    BY <2>2
  <2> QED BY <1>2, <2>1, <2>3 DEF OnFrame
<1>3. ASSUME d.current \in DOMAIN d.frames
      PROVE  /\ HeaderLen(This(d)) \in Nat /\ This(d).size \in Nat
             /\ ExtendedLength(This(d)) \in Nat /\ This(q) = This(d) /\ Got(q) = Got(d)
             /\ HeaderLen(This(d)) = 2 + ExtendedLength(This(d)) /\ d.m_bytes_needed \in Nat
  <2>1. This(d) \in Frames /\ d.current \in Nat
    BY <1>3, ThisFrame
  <2>2. d.m_bytes_needed \in Nat
    BY RecordFields
  <2>3. This(q) = This(d) /\ Got(q) = Got(d)
    BY <1>3 DEF Got
  <2> QED BY <2>1, <2>2, <2>3, CellCount, FrameFields
<1>4. CASE Between(d)
  BY <1>1, <1>4 DEF Between, PhaseInv
<1>5. CASE InBasic(d)
  <2>1. d.current \in DOMAIN d.frames
    BY <1>5 DEF InBasic, OnFrame
  <2> QED BY <1>1, <1>2, <1>5, <2>1 DEF InBasic, PhaseInv
<1>6. CASE InExtended(d)
  <2>1. d.current \in DOMAIN d.frames /\ d.m_bytes_needed <= ExtendedLength(This(d))
    BY <1>6 DEF InExtended, OnFrame
  <2>2. HeaderLen(This(d)) - d.m_bytes_needed \in Nat
    BY <1>3, <2>1
  <2> QED BY <1>1, <1>2, <1>6, <2>1, <2>2 DEF InExtended, PhaseInv
<1>7. ASSUME InPayload(d)
      PROVE  InPayload(q) /\ d.current \in DOMAIN d.frames /\ This(q) = This(d)
             /\ Got(q) = Got(d)
  <2>1. d.current \in DOMAIN d.frames /\ d.m_bytes_needed <= This(d).size
    BY <1>7 DEF InPayload, OnFrame
  <2>2. HeaderLen(This(d)) + Got(d) \in Nat
    BY <1>3, <2>1 DEF Got
  <2>3. This(q) = This(d) /\ Got(q) = Got(d)
    BY <1>3, <2>1
  <2> QED BY <1>2, <1>7, <2>1, <2>2, <2>3 DEF InPayload
<1>8. ASSUME InPayload(d)
      PROVE  \A m, op, earlier : UnderWay(m, op, earlier, q) = UnderWay(m, op, earlier, d)
  BY <1>7, <1>8 DEF UnderWay
<1>9. CASE InControl(d)
  <2>1. InPayload(d)
    BY <1>9 DEF InControl
  <2> QED BY <1>1, <1>7, <1>8, <1>9, <2>1 DEF InControl, PhaseInv
<1>10. CASE InData(d)
  <2>1. InPayload(d)
    BY <1>10 DEF InData
  <2> QED BY <1>7, <1>8, <1>10, <2>1 DEF InData, PhaseInv
<1> QED BY <1>4, <1>5, <1>6, <1>9, <1>10 DEF PhaseInv, Refused

\* The cells up to any frame are some number.
LEMMA UptoNat ==
  ASSUME NEW d \in ProcessorRecord, NEW i \in 0..Len(d.frames)
  PROVE  Upto(d, i) \in Nat /\ All(d) \in Seq(Cell)
<1> PICK s \in Seq(Frames) : s = d.frames
  BY RecordFields
<1>1. Len(s) \in 0..Len(s)
  OBVIOUS
<1>2. Stream(s)[i] \in Seq(Cell) /\ Stream(s)[Len(s)] \in Seq(Cell)
  BY <1>1, StreamExists
<1>3. Len(Stream(s)[i]) \in Nat
  BY <1>2
<1> QED BY <1>2, <1>3 DEF Upto, All

\* The peer sends a frame, whatever is being read of those before it.
LEMMA PeerSendsOK ==
  ASSUME ProcessorInv(p), NEW f \in Frames, NEW prepared \in BOOLEAN,
         prepared => f \in Prepared(~p.server), PeerSends(f, prepared)
  PROVE  ProcessorInv(p')
<1>1. p \in ProcessorRecord /\ PhaseInv(p) /\ LimitsInv(p) /\ AcceptedInv(p)
  BY DEF ProcessorInv
<1> PICK s \in Seq(Frames) : s = p.frames
  BY <1>1, RecordFields
<1> PICK cells : cells = Cells(f, Len(s) + 1)
  OBVIOUS
<1>0. Len(s) \in Nat
  OBVIOUS
<1>2. cells \in Seq(Cell)
  <2>1. Len(s) + 1 \in Nat
    BY <1>0
  <2> QED BY ONLY <2>1, f \in Frames, cells = Cells(f, Len(s) + 1), CellCount
<1> PICK wire \in Seq(Cell) : wire = p.wire
  BY <1>1, RecordFields
<1> PICK buf \in Seq(Cell) : buf = p.buf
  BY <1>1, RecordFields
<1> PICK longer \in Seq(Cell) : longer = wire \o cells
  BY <1>2, ConcatCells
<1>3. /\ p.ec = "none" /\ \A i \in DOMAIN s : Len(s[i].bytes) = s[i].size
      /\ p' = [p EXCEPT !.frames = Append(s, f), !.alone = p.alone /\ prepared,
                        !.wire = longer]
  BY DEF PeerSends
<1> PICK t : t = Append(s, f)
  OBVIOUS
<1>4. /\ t \in Seq(Frames) /\ Len(t) = Len(s) + 1 /\ t[Len(t)] = f
      /\ \A i \in 1..Len(s) : t[i] = s[i]
      /\ DOMAIN t = 1..Len(t) /\ DOMAIN s = 1..Len(s)
  OBVIOUS
<1>5. /\ p'.frames = t /\ p'.wire = longer /\ p'.buf = p.buf /\ p'.server = p.server
      /\ p'.m_state = p.m_state /\ p'.m_bytes_needed = p.m_bytes_needed
      /\ p'.current = p.current /\ p'.data = p.data /\ p'.control = p.control
      /\ p'.delivered = p.delivered /\ p'.ec = p.ec /\ p'.alone = (p.alone /\ prepared)
      /\ p'.wrapped = p.wrapped /\ p' \in ProcessorRecord
  BY <1>1, <1>3, <1>4 DEF ProcessorRecord
<1> PICK q : q = p'
  OBVIOUS
<1> PICK d : d = p
  OBVIOUS
<1>6. /\ All(d) \in Seq(Cell) /\ All(q) = All(d) \o cells
      /\ \A i \in 0..Len(s) : Upto(q, i) = Upto(d, i) /\ Upto(d, i) \in Nat
  <2>1. All(d) \in Seq(Cell) /\ \A i \in 0..Len(s) : Upto(d, i) \in Nat
    <3>1. 0 \in 0..Len(s)
      BY <1>0
    <3> QED BY <1>1, <3>1, UptoNat
  <2>2. /\ Stream(t)[Len(t)] = Stream(s)[Len(s)] \o cells
        /\ \A i \in 0..Len(s) : Stream(t)[i] = Stream(s)[i]
    BY <1>4, StreamKept
  <2> QED BY <1>5, <2>1, <2>2 DEF All, Upto
<1>7. \A i \in 0..Len(s) : Assembled(t)[i] = Assembled(s)[i]
  BY AssembledKept
<1>8. ASSUME NEW c \in Nat, Left(d.buf, d.wire, All(d), c)
      PROVE  Left(q.buf, q.wire, All(q), c)
  <2> PICK all \in Seq(Cell) : all = All(d)
    BY <1>6
  <2>1. Left(buf, wire, all, c)
    BY <1>8
  <2>2. Left(buf, wire \o cells, all \o cells, c)
    BY ONLY <1>2, <2>1, buf \in Seq(Cell), wire \in Seq(Cell), all \in Seq(Cell),
            c \in Nat, LeftOfSend
  <2> QED BY <1>5, <1>6, <2>2
<1>9. Clean(q) => Clean(d)
  <2> SUFFICES ASSUME Clean(q) PROVE Clean(d)
    OBVIOUS
  <2>1. d.alone /\ \A i \in 1..Len(t) : t[i].fin /\ t[i].op \notin {"cont", "reserved"}
    BY <1>4, <1>5 DEF Clean
  <2>2. \A i \in 1..Len(s) : i \in 1..Len(t)
    BY <1>0, <1>4
  <2> QED BY <1>4, <2>1, <2>2 DEF Clean
<1>10. ASSUME d.current \in DOMAIN d.frames
       PROVE  /\ d.current \in DOMAIN q.frames /\ This(q) = This(d) /\ Before(q) = Before(d)
              /\ Upto(q, d.current - 1) = Upto(d, d.current - 1)
  <2> PICK i \in 1..Len(s) : i = d.current
    BY <1>4, <1>10
  <2>1. i \in 1..Len(t) /\ i - 1 \in 0..Len(s)
    BY <1>0, <1>4
  <2> QED BY <1>4, <1>5, <1>6, <1>7, <2>1 DEF This, Before
<1>11. ASSUME d.current \in 0..Len(d.frames)
       PROVE  /\ d.current \in 0..Len(q.frames) /\ Now(q) = Now(d)
              /\ Upto(q, d.current) = Upto(d, d.current) /\ Upto(d, d.current) \in Nat
  <2> PICK i \in 0..Len(s) : i = d.current
    BY <1>11
  <2>1. i \in 0..Len(t)
    BY <1>0, <1>4
  <2> QED BY <1>4, <1>5, <1>6, <1>7, <2>1 DEF Now
<1>12. PhaseInv(q)
  <2>1. d.current \in 0..Len(d.frames) =>
          /\ d.current \in 0..Len(q.frames) /\ Now(q) = Now(d)
          /\ Upto(q, d.current) = Upto(d, d.current) /\ Upto(d, d.current) \in Nat
    BY <1>11
  <2>2. d.current \in DOMAIN d.frames =>
          /\ d.current \in DOMAIN q.frames /\ This(q) = This(d) /\ Before(q) = Before(d)
          /\ Upto(q, d.current - 1) = Upto(d, d.current - 1)
    BY <1>10
  <2>3. \A c \in Nat : Left(d.buf, d.wire, All(d), c) => Left(q.buf, q.wire, All(q), c)
    BY <1>8
  <2>4. /\ d \in ProcessorRecord /\ PhaseInv(d) /\ d.ec = "none"
        /\ q.m_state = d.m_state /\ q.m_bytes_needed = d.m_bytes_needed
        /\ q.current = d.current /\ q.data = d.data /\ q.control = d.control
        /\ q.delivered = d.delivered /\ q.ec = d.ec /\ q.wrapped = d.wrapped
        /\ Clean(q) => Clean(d)
    BY <1>1, <1>3, <1>5, <1>9
  <2> QED BY ONLY <2>1, <2>2, <2>3, <2>4, PhaseKept
<1>13. LimitsInv(q)
  BY <1>1, <1>5, <1>10 DEF LimitsInv
<1>14. AcceptedInv(q)
  <2>1. ASSUME q.alone, NEW i \in DOMAIN q.frames
        PROVE  q.frames[i] \in Prepared(~q.server)
    <3>1. i \in 1..Len(t) /\ d.alone /\ prepared
      BY <1>4, <1>5, <2>1
    <3>2. CASE i = Len(t)
      BY <1>4, <1>5, <3>1, <3>2
    <3>3. CASE i # Len(t)
      <4>1. i \in 1..Len(s)
        BY <1>0, <1>4, <3>1, <3>3
      <4> QED BY <1>1, <1>4, <1>5, <3>1, <4>1 DEF AcceptedInv
    <3> QED BY <3>2, <3>3
  <2>2. ASSUME NEW i \in DOMAIN q.frames, i # Len(q.frames)
        PROVE  Len(q.frames[i].bytes) = q.frames[i].size
    <3>1. i \in 1..Len(s)
      BY <1>0, <1>4, <1>5, <2>2
    <3> QED BY <1>3, <1>4, <1>5, <3>1
  <2> QED BY <1>3, <1>5, <2>1, <2>2 DEF AcceptedInv
<1> QED BY <1>5, <1>12, <1>13, <1>14 DEF ProcessorInv

\* A read takes bytes off the wire, whatever is being read.
LEMMA ReadOK ==
  ASSUME ProcessorInv(p), NEW n \in Nat, Read(n)
  PROVE  ProcessorInv(p')
<1>1. p \in ProcessorRecord /\ PhaseInv(p) /\ LimitsInv(p) /\ AcceptedInv(p)
  BY DEF ProcessorInv
<1> PICK wire \in Seq(Cell) : wire = p.wire
  BY <1>1, RecordFields
<1> DEFINE k == IF n < Len(wire) THEN n ELSE Len(wire)
<1>2. k \in 0..Len(wire)
  OBVIOUS
<1> PICK a : a = SubSeq(wire, 1, k)
  OBVIOUS
<1> PICK b : b = SubSeq(wire, k + 1, Len(wire))
  OBVIOUS
<1>3. /\ p.buf = <<>> /\ p.wire # <<>> /\ p.m_state # "READY" /\ p.ec = "none"
      /\ p' = [p EXCEPT !.buf = a, !.wire = b]
  BY DEF Read
<1>4. a \in Seq(Cell) /\ b \in Seq(Cell)
  BY <1>2
<1> HIDE DEF k
<1>5. /\ p'.frames = p.frames /\ p'.wire = b /\ p'.buf = a /\ p'.server = p.server
      /\ p'.m_state = p.m_state /\ p'.m_bytes_needed = p.m_bytes_needed
      /\ p'.current = p.current /\ p'.data = p.data /\ p'.control = p.control
      /\ p'.delivered = p.delivered /\ p'.ec = p.ec /\ p'.alone = p.alone
      /\ p'.wrapped = p.wrapped /\ p' \in ProcessorRecord
  BY <1>1, <1>3, <1>4 DEF ProcessorRecord
<1> PICK q : q = p'
  OBVIOUS
<1> PICK d : d = p
  OBVIOUS
<1>6. /\ This(q) = This(d) /\ Before(q) = Before(d) /\ Now(q) = Now(d)
      /\ All(q) = All(d) /\ (\A i : Upto(q, i) = Upto(d, i)) /\ Clean(q) = Clean(d)
  BY <1>5, SameFrames
<1>7. ASSUME NEW c \in Nat, Left(d.buf, d.wire, All(d), c)
      PROVE  Left(q.buf, q.wire, All(q), c)
  <2> PICK all : all = All(d)
    OBVIOUS
  <2>1. all \in Seq(Cell)
    <3>1. 0 \in 0..Len(d.frames)
      <4>1. Len(d.frames) \in Nat
        BY <1>1, RecordFields
      <4> QED BY <4>1
    <3> QED BY <1>1, <3>1, UptoNat
  <2>2. Left(<<>>, wire, all, c)
    BY <1>3, <1>7
  <2>3. Left(a, b, all, c)
    BY ONLY <1>2, <2>1, <2>2, wire \in Seq(Cell), c \in Nat, a = SubSeq(wire, 1, k),
            b = SubSeq(wire, k + 1, Len(wire)), LeftOfRead
  <2> QED BY <1>5, <1>6, <2>3
<1>8. ASSUME d.current \in 0..Len(d.frames) PROVE Upto(d, d.current) \in Nat
  BY <1>1, <1>8, UptoNat
<1>9. PhaseInv(q)
  <2>1. d.current \in 0..Len(d.frames) =>
          /\ d.current \in 0..Len(q.frames) /\ Now(q) = Now(d)
          /\ Upto(q, d.current) = Upto(d, d.current) /\ Upto(d, d.current) \in Nat
    BY <1>5, <1>6, <1>8
  <2>2. d.current \in DOMAIN d.frames =>
          /\ d.current \in DOMAIN q.frames /\ This(q) = This(d) /\ Before(q) = Before(d)
          /\ Upto(q, d.current - 1) = Upto(d, d.current - 1)
    BY <1>5, <1>6
  <2>3. \A c \in Nat : Left(d.buf, d.wire, All(d), c) => Left(q.buf, q.wire, All(q), c)
    BY <1>7
  <2>4. /\ d \in ProcessorRecord /\ PhaseInv(d) /\ d.ec = "none"
        /\ q.m_state = d.m_state /\ q.m_bytes_needed = d.m_bytes_needed
        /\ q.current = d.current /\ q.data = d.data /\ q.control = d.control
        /\ q.delivered = d.delivered /\ q.ec = d.ec /\ q.wrapped = d.wrapped
        /\ Clean(q) => Clean(d)
    BY <1>1, <1>3, <1>5, <1>6
  <2> QED BY ONLY <2>1, <2>2, <2>3, <2>4, PhaseKept
<1>12. LimitsInv(q)
  BY <1>1, <1>5, <1>6 DEF LimitsInv
<1>13. AcceptedInv(q)
  BY <1>1, <1>5, <1>6 DEF AcceptedInv
<1> QED BY <1>5, <1>9, <1>12, <1>13 DEF ProcessorInv

-----------------------------------------------------------------------------
(* consume().                                                              *)

\* What a turn takes of the buffer, and what it leaves.
LEMMA TakeFields ==
  ASSUME p \in ProcessorRecord, NEW n \in Nat, n <= Len(p.buf), n <= p.m_bytes_needed
  PROVE  LET q == Take(n) IN
         /\ q \in ProcessorRecord
         /\ q.frames = p.frames /\ q.wire = p.wire /\ q.server = p.server
         /\ q.m_state = p.m_state /\ q.m_bytes_needed = p.m_bytes_needed - n
         /\ q.current = p.current /\ q.data = p.data /\ q.control = p.control
         /\ q.delivered = p.delivered /\ q.ec = p.ec /\ q.alone = p.alone
         /\ q.wrapped = p.wrapped
         /\ q.buf = SubSeq(p.buf, n + 1, Len(p.buf))
<1> PICK buf \in Seq(Cell) : buf = p.buf
  BY RecordFields
<1> PICK b : b = SubSeq(buf, n + 1, Len(buf))
  OBVIOUS
<1>1. b \in Seq(Cell)
  BY n <= Len(buf)
<1> PICK needed \in Nat : needed = p.m_bytes_needed
  BY RecordFields
<1>2. needed - n \in Nat
  OBVIOUS
<1> PICK rest \in Nat : rest = needed - n
  BY <1>2
<1>3. Take(n) = [p EXCEPT !.buf = b, !.m_bytes_needed = rest]
  BY DEF Take
<1>4. /\ Take(n).frames = p.frames /\ Take(n).wire = p.wire /\ Take(n).server = p.server
      /\ Take(n).m_state = p.m_state /\ Take(n).m_bytes_needed = rest
      /\ Take(n).current = p.current /\ Take(n).data = p.data
      /\ Take(n).control = p.control /\ Take(n).delivered = p.delivered
      /\ Take(n).ec = p.ec /\ Take(n).alone = p.alone /\ Take(n).wrapped = p.wrapped
      /\ Take(n).buf = b /\ Take(n) \in ProcessorRecord
  BY <1>1, <1>3 DEF ProcessorRecord
<1> QED BY <1>4

\* What is taken of the buffer are the next of the frame's cells.
LEMMA OnFrameNext ==
  ASSUME NEW d \in ProcessorRecord, NEW n \in 0..Len(d.buf), NEW c \in Nat, OnFrame(d, c),
         NEW q, q.frames = d.frames, q.current = d.current, q.wire = d.wire,
         q.buf = SubSeq(d.buf, n + 1, Len(d.buf)), q.delivered = d.delivered, q.ec = "none"
  PROVE  OnFrame(q, c + n)
<1> PICK buf \in Seq(Cell) : buf = d.buf
  BY RecordFields
<1> PICK wire \in Seq(Cell) : wire = d.wire
  BY RecordFields
<1>1. d.current \in DOMAIN d.frames
  BY DEF OnFrame
<1> PICK all \in Seq(Cell) : all = All(d)
  BY <1>1, ThisCells
<1> PICK start \in Nat : start = Upto(d, d.current - 1)
  BY <1>1, ThisCells
<1>2. Left(buf, wire, all, start + c)
  BY DEF OnFrame
<1>3. n \in 0..Len(buf) /\ start + c \in Nat
  OBVIOUS
<1>4. Left(SubSeq(buf, n + 1, Len(buf)), wire, all, (start + c) + n)
  BY ONLY buf \in Seq(Cell), wire \in Seq(Cell), all \in Seq(Cell), <1>2, <1>3, LeftOfTake
<1>5. (start + c) + n = start + (c + n)
  OBVIOUS
<1>6. /\ Before(q) = Before(d) /\ All(q) = all /\ Upto(q, q.current - 1) = start
  BY SameFrames
<1> QED BY <1>1, <1>4, <1>5, <1>6 DEF OnFrame

\* So it is of what a turn takes.
LEMMA TakeOnFrame ==
  ASSUME p \in ProcessorRecord, NEW n \in Nat, n <= Len(p.buf), n <= p.m_bytes_needed,
         NEW c \in Nat, OnFrame(p, c),
         NEW q, q.frames = p.frames, q.current = p.current, q.buf = Take(n).buf,
         q.wire = Take(n).wire, q.delivered = p.delivered, q.ec = "none"
  PROVE  OnFrame(q, c + n)
<1>1. q.buf = SubSeq(p.buf, n + 1, Len(p.buf)) /\ q.wire = p.wire
  BY TakeFields
<1>2. n \in 0..Len(p.buf)
  <2>1. Len(p.buf) \in Nat
    BY RecordFields
  <2> QED BY <2>1
<1> QED BY <1>1, <1>2, OnFrameNext

\* The cells that come next, and how many are left.
LEMMA NextCells ==
  ASSUME NEW d \in ProcessorRecord, NEW c \in Nat, OnFrame(d, c)
  PROVE  LET cells == Cells(This(d), d.current) IN
         /\ Len(d.buf) \in Nat /\ Len(d.wire) \in Nat
         /\ Len(d.buf) + Len(d.wire) = Len(All(d)) - (Upto(d, d.current - 1) + c)
         /\ \A i \in 1..Len(d.buf) : c + i <= Len(cells) => d.buf[i] = cells[c + i]
<1> PICK buf \in Seq(Cell) : buf = d.buf
  BY RecordFields
<1> PICK wire \in Seq(Cell) : wire = d.wire
  BY RecordFields
<1>1. Len(buf) \in Nat /\ Len(wire) \in Nat
  OBVIOUS
<1>2. d.current \in DOMAIN d.frames
  BY DEF OnFrame
<1> PICK start \in Nat : start = Upto(d, d.current - 1)
  BY <1>2, ThisCells
<1> PICK cells : cells = Cells(This(d), d.current)
  OBVIOUS
<1>3. \A j \in 1..Len(cells) : All(d)[start + j] = cells[j]
  BY <1>2, ThisCells
<1>4. Len(cells) \in Nat
  BY <1>2, ThisCells
<1>5. /\ Len(buf) + Len(wire) = Len(All(d)) - (start + c)
      /\ \A i \in 1..Len(buf) : buf[i] = All(d)[(start + c) + i]
  BY DEF OnFrame, Left
<1>6. ASSUME NEW i \in 1..Len(buf), c + i <= Len(cells) PROVE buf[i] = cells[c + i]
  <2>1. c + i \in 1..Len(cells) /\ (start + c) + i = start + (c + i)
    BY <1>1, <1>4, <1>6
  <2> QED BY <1>3, <1>5, <2>1
<1> QED BY <1>1, <1>5, <1>6

\* An error leaves what was delivered as it was.
LEMMA RefusedOK ==
  ASSUME NEW d \in ProcessorRecord, AcceptedInv(d), NEW q \in ProcessorRecord,
         NEW c, OnFrame(d, c), q.frames = d.frames, q.current = d.current,
         q.delivered = d.delivered,
         q.ec \in {"protocol", "too_big", "utf8"}, q.m_state # "READY",
         q.alone = d.alone, q.server = d.server, LimitsInv(q),
         Clean(d) => q.ec = "too_big"
  PROVE  ProcessorInv(q)
<1>1. This(q) = This(d) /\ Before(q) = Before(d) /\ Clean(q) = Clean(d)
  BY SameFrames
<1>2. Refused(q)
  BY <1>1 DEF Refused, OnFrame
<1>3. AcceptedInv(q)
  BY <1>1 DEF AcceptedInv
<1> QED BY <1>2, <1>3 DEF ProcessorInv, PhaseInv

\* Where bytes are left between two frames, there is a next frame, and its header
\* comes first.
LEMMA NextFrame ==
  ASSUME NEW d \in ProcessorRecord, Between(d) \/ InBasic(d), d.buf # <<>>
  PROVE  \E j \in DOMAIN d.frames : \E c \in {0, 1} :
           LET e == [d EXCEPT !.current = j] IN
           /\ d.m_bytes_needed = 2 - c /\ OnFrame(e, c)
           /\ Untouched(e, Before(e).open) /\ d.control = NoMsg
<1> PICK s \in Seq(Frames) : s = d.frames
  BY RecordFields
<1>0. Len(s) \in Nat /\ DOMAIN s = 1..Len(s)
  OBVIOUS
<1>1. CASE InBasic(d)
  <2> PICK j \in DOMAIN d.frames : j = d.current
    BY <1>1 DEF InBasic, OnFrame
  <2> PICK e : e = [d EXCEPT !.current = j]
    OBVIOUS
  <2>1. e = d
    BY DEF ProcessorRecord
  <2>2. d.m_bytes_needed = 2 - 1 /\ OnFrame(e, 1) /\ Untouched(e, Before(e).open)
        /\ d.control = NoMsg
    BY <1>1, <2>1 DEF InBasic
  <2> QED BY <2>2
<1>2. CASE Between(d)
  <2> PICK k \in 0..Len(s) : k = d.current
    BY <1>2 DEF Between
  <2> PICK buf \in Seq(Cell) : buf = d.buf
    BY RecordFields
  <2> PICK wire \in Seq(Cell) : wire = d.wire
    BY RecordFields
  <2>1. Left(buf, wire, All(d), Upto(d, k))
    BY <1>2 DEF Between
  <2>2. k # Len(s)
    <3> SUFFICES ASSUME k = Len(s) PROVE FALSE
      OBVIOUS
    <3>1. Upto(d, k) \in Nat
      BY UptoNat
    <3>2. Len(All(d)) = Upto(d, k)
      BY DEF All, Upto
    <3> PICK upto \in Nat : upto = Upto(d, k)
      BY <3>1
    <3>3. Len(buf) + Len(wire) = upto - upto
      BY <2>1, <3>2 DEF Left
    <3>4. Len(buf) \in Nat /\ Len(wire) \in Nat /\ Len(buf) # 0
      OBVIOUS
    <3> QED BY ONLY <3>3, <3>4, upto \in Nat
  <2> PICK j \in 1..Len(s) : j = k + 1
    BY <1>0, <2>2
  <2> PICK e : e = [d EXCEPT !.current = j]
    OBVIOUS
  <2>3. /\ e.frames = d.frames /\ e.current = j /\ e.buf = d.buf /\ e.wire = d.wire
        /\ e.ec = d.ec /\ e.delivered = d.delivered /\ e.data = d.data
        /\ e.alone = d.alone /\ j - 1 = k
    BY DEF ProcessorRecord
  <2>4. /\ Before(e) = Now(d) /\ All(e) = All(d) /\ Upto(e, j - 1) = Upto(d, k)
        /\ Clean(e) = Clean(d)
    BY <2>3 DEF Before, Now, All, Upto, Clean
  <2>5. Upto(d, k) + 0 = Upto(d, k)
    <3>1. Upto(d, k) \in Nat
      BY UptoNat
    <3> QED BY <3>1
  <2>6. OnFrame(e, 0)
    BY <1>0, <1>2, <2>1, <2>3, <2>4, <2>5 DEF OnFrame, Between
  <2>7. Untouched(e, Before(e).open) /\ d.control = NoMsg /\ d.m_bytes_needed = 2 - 0
    BY <1>2, <2>3, <2>4 DEF Between, Untouched
  <2> QED BY <1>0, <2>6, <2>7
<1> QED BY <1>1, <1>2

\* A basic header is read whole before it is judged.
LEMMA BasicHeaderOK ==
  ASSUME ProcessorInv(p), BasicHeader
  PROVE  ProcessorInv(p')
<1>1. p \in ProcessorRecord /\ PhaseInv(p) /\ LimitsInv(p) /\ AcceptedInv(p)
  BY DEF ProcessorInv
<1>2. /\ p.m_state = "HEADER_BASIC" /\ p.ec = "none"
      /\ p.buf # <<>> \/ p.m_bytes_needed = 0
  BY DEF BasicHeader, Turn
<1>3. Between(p) \/ InBasic(p)
  BY <1>1, <1>2 DEF PhaseInv, InExtended, InControl, InData, InPayload, Refused
<1>4. p.buf # <<>>
  BY <1>2, <1>3 DEF Between, InBasic
<1> PICK j \in DOMAIN p.frames, c \in {0, 1} :
      LET e == [p EXCEPT !.current = j] IN
      /\ p.m_bytes_needed = 2 - c /\ OnFrame(e, c)
      /\ Untouched(e, Before(e).open) /\ p.control = NoMsg
  BY <1>1, <1>3, <1>4, NextFrame
<1> PICK e : e = [p EXCEPT !.current = j]
  OBVIOUS
<1>5. /\ p.m_bytes_needed = 2 - c /\ OnFrame(e, c)
      /\ Untouched(e, Before(e).open) /\ p.control = NoMsg
  OBVIOUS
<1>6. j \in Nat
  <2> PICK s \in Seq(Frames) : s = p.frames
    BY <1>1, RecordFields
  <2> QED OBVIOUS
<1>7. /\ e \in ProcessorRecord /\ e.frames = p.frames /\ e.current = j
      /\ e.buf = p.buf /\ e.wire = p.wire /\ e.server = p.server
      /\ e.data = p.data /\ e.control = p.control /\ e.alone = p.alone
      /\ e.delivered = p.delivered /\ e.ec = p.ec /\ e.wrapped = p.wrapped
      /\ e.m_state = p.m_state /\ e.m_bytes_needed = p.m_bytes_needed
  BY <1>1, <1>6 DEF ProcessorRecord
<1>8. AcceptedInv(e)
  BY <1>1, <1>7 DEF AcceptedInv, Clean
<1> PICK f : f = This(e)
  OBVIOUS
<1>9. f \in Frames /\ f = p.frames[j]
  BY <1>7, ThisFrame DEF This
<1> PICK cells : cells = Cells(f, j)
  OBVIOUS
<1>10. p.buf[1].frame = j /\ Len(p.buf) \in Nat /\ Len(p.buf) >= 1
  <2>1. /\ Len(p.buf) \in Nat
        /\ \A i \in 1..Len(p.buf) : c + i <= Len(cells) => p.buf[i] = cells[c + i]
    <3>1. c \in Nat
      OBVIOUS
    <3>2. /\ Len(e.buf) \in Nat
          /\ \A i \in 1..Len(e.buf) : c + i <= Len(cells) => e.buf[i] = cells[c + i]
      <4>1. LET row == Cells(This(e), e.current) IN
            /\ Len(e.buf) \in Nat
            /\ \A i \in 1..Len(e.buf) : c + i <= Len(row) => e.buf[i] = row[c + i]
        BY <1>5, <1>7, <3>1, NextCells, Zenon
      <4> QED BY <1>7, <4>1
    <3> QED BY <1>7, <3>2
  <2>2. Len(p.buf) # 0
    <3> PICK buf \in Seq(Cell) : buf = p.buf
      BY <1>1, RecordFields
    <3> QED BY <1>4
  <2>3. LET l == HeaderLen(f) IN
        l \in Nat /\ l >= 2 /\ \A i \in 1..l : cells[i].frame = j
    BY <1>6, <1>9, CellsOf, Zenon
  <2>4. Len(cells) \in Nat /\ Len(cells) >= 2
    BY <1>6, <1>9, CellCount
  <2>5. p.buf[1] = cells[c + 1] /\ c + 1 \in 1..HeaderLen(f)
    <3>1. c + 1 \in 1..HeaderLen(f) /\ c + 1 <= Len(cells)
      BY <2>3, <2>4
    <3>2. 1 \in 1..Len(p.buf)
      BY <2>1, <2>2
    <3> QED BY <2>1, <3>1, <3>2
  <2> QED BY <2>1, <2>2, <2>3, <2>5
<1> PICK n : n = AtMost(p.m_bytes_needed)
  OBVIOUS
<1>11. n \in Nat /\ n <= Len(p.buf) /\ n <= p.m_bytes_needed /\ n >= 1
  BY <1>5, <1>10 DEF AtMost
<1> PICK u : u = Take(n)
  OBVIOUS
<1>12. /\ u \in ProcessorRecord
       /\ u.frames = p.frames /\ u.wire = p.wire /\ u.server = p.server
       /\ u.m_state = p.m_state /\ u.m_bytes_needed = p.m_bytes_needed - n
       /\ u.current = p.current /\ u.data = p.data /\ u.control = p.control
       /\ u.delivered = p.delivered /\ u.ec = p.ec /\ u.alone = p.alone
       /\ u.wrapped = p.wrapped /\ u.buf = SubSeq(p.buf, n + 1, Len(p.buf))
  BY <1>1, <1>11, TakeFields
<1> PICK t : t = [u EXCEPT !.current = j]
  OBVIOUS
<1>13. /\ t \in ProcessorRecord
       /\ t.frames = e.frames /\ t.wire = e.wire /\ t.server = e.server
       /\ t.m_state = e.m_state /\ t.m_bytes_needed = e.m_bytes_needed - n
       /\ t.current = j /\ t.data = e.data /\ t.control = e.control
       /\ t.delivered = e.delivered /\ t.ec = "none" /\ t.alone = e.alone
       /\ t.wrapped = e.wrapped /\ t.buf = SubSeq(e.buf, n + 1, Len(e.buf))
  BY <1>2, <1>6, <1>7, <1>12 DEF ProcessorRecord
<1>14. p' = IF n < p.m_bytes_needed THEN t
            ELSE IF BasicError(f) THEN [t EXCEPT !.ec = "protocol"]
            ELSE [t EXCEPT !.m_state = "HEADER_EXTENDED",
                           !.m_bytes_needed = ExtendedLength(f)]
  BY <1>9, <1>10, Zenon DEF BasicHeader
<1>15. ASSUME NEW q, q.frames = t.frames, q.current = t.current, q.wire = t.wire,
              q.buf = t.buf, q.delivered = t.delivered, q.ec = "none"
       PROVE  OnFrame(q, c + n)
  <2>1. n \in 0..Len(e.buf) /\ c \in Nat
    BY <1>7, <1>10, <1>11
  <2>2. /\ q.frames = e.frames /\ q.current = e.current /\ q.wire = e.wire
        /\ q.buf = SubSeq(e.buf, n + 1, Len(e.buf)) /\ q.delivered = e.delivered
    BY <1>7, <1>13, <1>15
  <2> QED BY <1>5, <1>7, <1>15, <2>1, <2>2, OnFrameNext
<1>16. CASE n < p.m_bytes_needed
  <2> PICK q : q = p'
    OBVIOUS
  <2>1. q = t
    BY <1>14, <1>16
  <2>2. This(q) = This(e) /\ Before(q) = Before(e) /\ Clean(q) = Clean(e)
    BY <1>7, <1>13, <2>1, SameFrames
  <2>3. OnFrame(q, c + n)
    BY <1>13, <1>15, <2>1
  <2>4. q.m_bytes_needed = 1 /\ c + n = 1
    BY <1>5, <1>7, <1>11, <1>13, <1>16, <2>1
  <2>5. InBasic(q)
    BY <1>2, <1>5, <1>7, <1>13, <2>1, <2>2, <2>3, <2>4 DEF InBasic, Untouched
  <2>6. LimitsInv(q)
    BY <1>1, <1>5, <1>7, <1>13, <2>1 DEF LimitsInv
  <2>7. AcceptedInv(q)
    BY <1>8, <1>7, <1>2, <1>13, <2>1, <2>2 DEF AcceptedInv
  <2> QED BY <1>13, <2>1, <2>5, <2>6, <2>7 DEF ProcessorInv, PhaseInv
<1>17. CASE ~(n < p.m_bytes_needed) /\ BasicError(f)
  <2> PICK q : q = p'
    OBVIOUS
  <2>1. q = [t EXCEPT !.ec = "protocol"]
    BY <1>14, <1>17
  <2>10. /\ q \in ProcessorRecord /\ q.frames = t.frames /\ q.delivered = t.delivered
         /\ q.ec = "protocol" /\ q.m_state = t.m_state /\ q.alone = t.alone
         /\ q.server = t.server /\ q.data = t.data /\ q.control = t.control
         /\ q.wrapped = t.wrapped /\ q.current = t.current
    BY ONLY <1>13, <2>1 DEF ProcessorRecord
  <2>2. /\ q \in ProcessorRecord /\ q.frames = e.frames /\ q.delivered = e.delivered
        /\ q.ec = "protocol" /\ q.m_state = "HEADER_BASIC" /\ q.alone = e.alone
        /\ q.server = e.server /\ q.data = p.data /\ q.control = p.control
        /\ q.wrapped = p.wrapped /\ q.current = e.current
    BY <1>2, <1>7, <1>13, <2>10
  <2>3. LimitsInv(q)
    BY <1>1, <1>5, <2>2 DEF LimitsInv
  <2>4. ~Clean(e)
    <3> SUFFICES ASSUME Clean(e) PROVE FALSE
      OBVIOUS
    <3>1. /\ f.fin /\ f.op # "cont" /\ f.op # "reserved"
          /\ ~f.rsv1 /\ ~f.rsv23 /\ f.masked = p.server
          /\ IsControl(f) => f.form = "7"
      BY <1>7, <1>8, CleanThis
    <3>2. p.data = NoMsg
      BY <1>5, <1>7 DEF Untouched
    <3> QED BY <1>17, <3>1, <3>2 DEF BasicError
  <2> QED BY <1>5, <1>7, <1>8, <2>2, <2>3, <2>4, RefusedOK
<1>18. CASE ~(n < p.m_bytes_needed) /\ ~BasicError(f)
  <2> PICK q : q = p'
    OBVIOUS
  <2>0. ExtendedLength(f) \in Nat /\ HeaderLen(f) = 2 + ExtendedLength(f)
    BY <1>6, <1>9, CellCount
  <2> PICK more \in Nat : more = ExtendedLength(f)
    BY <2>0
  <2>1. q = [t EXCEPT !.m_state = "HEADER_EXTENDED", !.m_bytes_needed = more]
    BY <1>14, <1>18
  <2>10. /\ q \in ProcessorRecord /\ q.frames = t.frames /\ q.delivered = t.delivered
         /\ q.ec = t.ec /\ q.m_state = "HEADER_EXTENDED" /\ q.alone = t.alone
         /\ q.server = t.server /\ q.data = t.data /\ q.control = t.control
         /\ q.wrapped = t.wrapped /\ q.current = t.current /\ q.m_bytes_needed = more
         /\ q.buf = t.buf /\ q.wire = t.wire
    BY ONLY <1>13, <2>1, more \in Nat DEF ProcessorRecord
  <2>2. /\ q \in ProcessorRecord /\ q.frames = e.frames /\ q.delivered = e.delivered
        /\ q.ec = "none" /\ q.m_state = "HEADER_EXTENDED" /\ q.alone = e.alone
        /\ q.server = e.server /\ q.data = e.data /\ q.control = e.control
        /\ q.wrapped = e.wrapped /\ q.current = e.current /\ q.m_bytes_needed = more
    BY ONLY <1>7, <1>13, <2>10
  <2>3. This(q) = This(e) /\ Before(q) = Before(e) /\ Clean(q) = Clean(e)
    BY <2>2, SameFrames
  <2>4. OnFrame(q, c + n)
    BY <1>13, <1>15, <2>10
  <2>5. c + n = HeaderLen(f) - more
    BY <1>5, <1>11, <1>18, <2>0
  <2>6. IsControl(f) => f.fin /\ f.form = "7"
    BY <1>18 DEF BasicError
  <2>7. InExtended(q)
    BY <1>5, <1>7, <2>0, <2>2, <2>3, <2>4, <2>5, <2>6 DEF InExtended, Untouched
  <2>8. LimitsInv(q)
    BY <1>1, <1>5, <1>7, <2>2 DEF LimitsInv
  <2>9. AcceptedInv(q)
    BY <1>8, <2>2, <2>3 DEF AcceptedInv
  <2> QED BY <2>2, <2>7, <2>8, <2>9 DEF ProcessorInv, PhaseInv
<1> QED BY <1>16, <1>17, <1>18

\* A sum below the width of a size_t does not wrap.
LEMMA ModSmall ==
  ASSUME NEW x \in Nat, NEW w \in Nat \ {0}, x < w
  PROVE  x % w = x
OBVIOUS

\* No bytes of a text were validated yet.
LEMMA DecodeNone ==
  ASSUME NEW s \in Seq(Byte)
  PROVE  decode(utf8_accept, s)[0] = utf8_accept /\ SubSeq(s, 1, 0) = <<>>
<1>1. utf8_accept \in 0..8
  BY DEF utf8_accept
<1>2. SubSeq(s, 1, 0) = <<>>
  OBVIOUS
<1> QED BY <1>1, <1>2, DecodeExists

\* What is known of the state while the rest of a header is read.
LEMMA ExtendedFacts ==
  ASSUME ProcessorInv(p), p.m_state = "HEADER_EXTENDED", p.ec = "none"
  PROVE  /\ p \in ProcessorRecord /\ LimitsInv(p) /\ AcceptedInv(p)
         /\ p.m_bytes_needed \in Nat /\ p.m_bytes_needed <= ExtendedLength(This(p))
         /\ p.current \in Nat /\ OnFrame(p, HeaderLen(This(p)) - p.m_bytes_needed)
         /\ HeaderLen(This(p)) - p.m_bytes_needed \in Nat
         /\ Untouched(p, Before(p).open) /\ p.control = NoMsg
         /\ IsControl(This(p)) => This(p).fin /\ This(p).form = "7"
         /\ p.current \in DOMAIN p.frames /\ This(p) \in Frames
         /\ F = This(p) /\ HeaderLen(This(p)) \in Nat
         /\ Len(p.buf) \in Nat
<1>1. p \in ProcessorRecord /\ PhaseInv(p) /\ LimitsInv(p) /\ AcceptedInv(p)
  BY DEF ProcessorInv
<1>2. InExtended(p)
  BY <1>1 DEF PhaseInv, Between, InBasic, InControl, InData, InPayload, Refused
<1>3. /\ p.m_bytes_needed <= ExtendedLength(This(p))
      /\ OnFrame(p, HeaderLen(This(p)) - p.m_bytes_needed)
      /\ Untouched(p, Before(p).open) /\ p.control = NoMsg
      /\ IsControl(This(p)) => This(p).fin /\ This(p).form = "7"
  BY <1>2 DEF InExtended
<1>4. p.current \in DOMAIN p.frames /\ This(p) \in Frames
  BY <1>1, <1>3, ThisFrame DEF OnFrame
<1>5. p.m_bytes_needed \in Nat /\ Len(p.buf) \in Nat /\ p.current \in Nat
  BY <1>1, RecordFields
<1>6. /\ HeaderLen(This(p)) = 2 + ExtendedLength(This(p)) /\ ExtendedLength(This(p)) \in Nat
      /\ HeaderLen(This(p)) \in Nat
  BY <1>4, CellCount
<1>7. HeaderLen(This(p)) - p.m_bytes_needed \in Nat
  BY <1>3, <1>5, <1>6
<1>8. F = This(p)
  BY <1>3 DEF F, This
<1> QED BY <1>1, <1>3, <1>4, <1>5, <1>6, <1>7, <1>8

\* The rest of the header, in one part or several.
LEMMA ExtendedPartOK ==
  ASSUME ProcessorInv(p), p.m_state = "HEADER_EXTENDED", p.ec = "none",
         NEW n \in Nat, n <= Len(p.buf), n < p.m_bytes_needed
  PROVE  ProcessorInv(Take(n))
<1>1. /\ p \in ProcessorRecord /\ LimitsInv(p) /\ AcceptedInv(p)
      /\ p.m_bytes_needed \in Nat /\ p.m_bytes_needed <= ExtendedLength(This(p))
      /\ p.current \in Nat /\ OnFrame(p, HeaderLen(This(p)) - p.m_bytes_needed)
      /\ HeaderLen(This(p)) - p.m_bytes_needed \in Nat
      /\ Untouched(p, Before(p).open) /\ p.control = NoMsg
      /\ IsControl(This(p)) => This(p).fin /\ This(p).form = "7"
      /\ p.current \in DOMAIN p.frames /\ This(p) \in Frames /\ HeaderLen(This(p)) \in Nat
  BY ExtendedFacts
<1> PICK c \in Nat : c = HeaderLen(This(p)) - p.m_bytes_needed
  BY <1>1
<1>0. n <= p.m_bytes_needed
  BY <1>1
<1> PICK t : t = Take(n)
  OBVIOUS
<1> PICK d : d = p
  OBVIOUS
<1>2. /\ t \in ProcessorRecord
      /\ t.frames = p.frames /\ t.wire = p.wire /\ t.server = p.server
      /\ t.m_state = p.m_state /\ t.m_bytes_needed = p.m_bytes_needed - n
      /\ t.current = p.current /\ t.data = p.data /\ t.control = p.control
      /\ t.delivered = p.delivered /\ t.ec = p.ec /\ t.alone = p.alone
      /\ t.wrapped = p.wrapped
  BY <1>0, <1>1, TakeFields
<1>3. This(t) = This(d) /\ Before(t) = Before(d) /\ Clean(t) = Clean(d)
  BY <1>2, SameFrames
<1>4. OnFrame(t, c + n)
  BY <1>0, <1>1, <1>2, TakeOnFrame
<1>5. c + n = HeaderLen(This(t)) - t.m_bytes_needed
  BY <1>1, <1>2, <1>3
<1>6. ExtendedLength(This(p)) \in Nat
  BY <1>1, CellCount, ThisFrame
<1>7. InExtended(t)
  <2>1. t.m_bytes_needed <= ExtendedLength(This(t))
    BY <1>1, <1>2, <1>3, <1>6
  <2> QED BY <1>1, <1>2, <1>3, <1>4, <1>5, <2>1 DEF InExtended, Untouched
<1>8. LimitsInv(t)
  BY <1>1, <1>2 DEF LimitsInv
<1>9. AcceptedInv(t)
  BY <1>1, <1>2, <1>3 DEF AcceptedInv
<1> QED BY <1>2, <1>7, <1>8, <1>9 DEF ProcessorInv, PhaseInv

\* The limits are numbers.
LEMMA Limits ==
  /\ Basic \in Nat /\ Extended \in Nat /\ WordSize \in Nat \ {0}
  /\ m_max_message_size \in Nat
BY Hybi13Assumption

\* The header is whole: its length is judged, and its message begins or goes on.
LEMMA BeginPayloadOK ==
  ASSUME ProcessorInv(p), p.m_state = "HEADER_EXTENDED", p.ec = "none",
         NEW n \in Nat, n <= Len(p.buf), n = p.m_bytes_needed
  PROVE  ProcessorInv(BeginPayload(Take(n)))
<1>1. /\ p \in ProcessorRecord /\ LimitsInv(p) /\ AcceptedInv(p)
      /\ p.current \in Nat /\ OnFrame(p, HeaderLen(This(p)) - p.m_bytes_needed)
      /\ HeaderLen(This(p)) - p.m_bytes_needed \in Nat
      /\ Untouched(p, Before(p).open) /\ p.control = NoMsg
      /\ IsControl(This(p)) => This(p).fin /\ This(p).form = "7"
      /\ p.current \in DOMAIN p.frames /\ This(p) \in Frames
      /\ F = This(p) /\ HeaderLen(This(p)) \in Nat /\ p.m_bytes_needed \in Nat
  BY ExtendedFacts
<1> PICK f \in Frames : f = This(p)
  BY <1>1
<1> PICK id \in Nat : id = p.current
  BY <1>1
<1> PICK c \in Nat : c = HeaderLen(f) - p.m_bytes_needed
  BY <1>1
<1> PICK d : d = p
  OBVIOUS
<1> PICK t : t = Take(n)
  OBVIOUS
<1>2. /\ t \in ProcessorRecord
      /\ t.frames = p.frames /\ t.wire = p.wire /\ t.server = p.server
      /\ t.m_state = p.m_state /\ t.m_bytes_needed = p.m_bytes_needed - n
      /\ t.current = p.current /\ t.data = p.data /\ t.control = p.control
      /\ t.delivered = p.delivered /\ t.ec = p.ec /\ t.alone = p.alone
      /\ t.wrapped = p.wrapped
  <2>1. n <= p.m_bytes_needed
    BY <1>1
  <2> QED BY <1>1, <2>1, TakeFields
<1>3. /\ f.op \in Opcodes /\ f.size \in Nat /\ f.bytes \in Seq(Byte)
      /\ f.form = "7" => f.size <= Basic
  BY FrameFields
<1>4. c + n = HeaderLen(f)
  BY <1>1
<1>5. ASSUME NEW q, q.frames = p.frames, q.delivered = p.delivered, q.ec = "none",
             q.buf = t.buf, q.wire = t.wire, q.current = p.current
      PROVE  OnFrame(q, HeaderLen(f))
  <2>1. n <= p.m_bytes_needed
    BY <1>1
  <2>2. OnFrame(q, c + n)
    BY <1>1, <1>5, <2>1, TakeOnFrame
  <2> QED BY <1>4, <2>2
<1>6. /\ NewMsg(f.op, id) \in Message /\ NewMsg(f.op, id).op = f.op
      /\ NewMsg(f.op, id).out = <<>> /\ NewMsg(f.op, id).validator = utf8_accept
      /\ NewMsg(f.op, id).frame = id /\ NewMsg(f.op, id).phase = 0
  <2>1. <<>> \in Seq(Byte)
    OBVIOUS
  <2> QED BY <1>3, <2>1 DEF NewMsg, Message, utf8_accept
<1>7. /\ SubSeq(f.bytes, 1, 0) = <<>> /\ Len(<<>>) = 0 /\ 0 % 4 = 0
      /\ decode(utf8_accept, f.bytes)[0] = utf8_accept
  BY <1>3, DecodeNone
<1>8. CASE ExtendedError(f)
  <2> PICK q : q = BeginPayload(Take(n))
    OBVIOUS
  <2>1. q = [t EXCEPT !.ec = "protocol"]
    BY <1>1, <1>8 DEF BeginPayload
  <2>2. /\ q \in ProcessorRecord /\ q.frames = p.frames /\ q.delivered = p.delivered
        /\ q.ec = "protocol" /\ q.m_state = "HEADER_EXTENDED" /\ q.alone = p.alone
        /\ q.server = p.server /\ q.data = p.data /\ q.control = p.control
        /\ q.wrapped = p.wrapped /\ q.current = p.current
    BY <1>2, <2>1 DEF ProcessorRecord
  <2>3. LimitsInv(q)
    BY <1>1, <2>2 DEF LimitsInv
  <2>4. ~Clean(p)
    <3> SUFFICES ASSUME Clean(p) PROVE FALSE
      OBVIOUS
    <3>1. f.form = LengthForm(f.size)
      BY <1>1, CleanThis
    <3>2. Basic \in Nat /\ Extended \in Nat
      BY Limits
    <3>3. f.form = "16" => ~(f.size <= Basic)
      BY <3>1 DEF LengthForm
    <3>4. f.form = "64" => ~(f.size <= Extended)
      BY <3>1 DEF LengthForm
    <3> QED BY <1>8, <3>3, <3>4 DEF ExtendedError
  <2> QED BY <1>1, <2>2, <2>3, <2>4, RefusedOK
<1>9. CASE ~ExtendedError(f) /\ IsControl(f)
  <2> PICK q : q = BeginPayload(Take(n))
    OBVIOUS
  <2> PICK m \in Message : m = NewMsg(f.op, id)
    BY <1>6
  <2> PICK size \in Nat : size = f.size
    BY <1>3
  <2>1. q = [[t EXCEPT !.m_state = "APPLICATION", !.m_bytes_needed = size]
               EXCEPT !.control = m]
    BY <1>1, <1>9 DEF BeginPayload
  <2>10. /\ q \in ProcessorRecord /\ q.frames = t.frames /\ q.delivered = t.delivered
         /\ q.ec = t.ec /\ q.m_state = "APPLICATION" /\ q.alone = t.alone
         /\ q.server = t.server /\ q.data = t.data /\ q.control = m
         /\ q.wrapped = t.wrapped /\ q.current = t.current /\ q.m_bytes_needed = size
         /\ q.buf = t.buf /\ q.wire = t.wire
    BY ONLY <1>2, <2>1, size \in Nat, m \in Message DEF ProcessorRecord
  <2>3. This(q) = This(d) /\ Before(q) = Before(d) /\ Clean(q) = Clean(d)
    BY <1>2, <2>10, SameFrames
  <2>4. Got(q) = 0
    BY <1>3, <2>3, <2>10 DEF Got
  <2>5. InPayload(q)
    <3>1. OnFrame(q, HeaderLen(f))
      BY <1>2, <1>5, <2>10
    <3>2. HeaderLen(f) + Got(q) = HeaderLen(f)
      BY <1>1, <2>4
    <3>3. q.m_bytes_needed <= This(q).size
      BY <1>3, <2>3, <2>10
    <3> QED BY <1>1, <1>2, <2>3, <2>10, <3>1, <3>2, <3>3 DEF InPayload
  <2>6. UnderWay(q.control, f.op, <<>>, q)
    <3>1. <<>> \o SubSeq(f.bytes, 1, Got(q)) = <<>>
      BY <1>7, <2>4
    <3>2. /\ q.control.op = f.op /\ q.control.out = <<>> /\ q.control.frame = id
          /\ q.control.phase = 0 /\ q.current = id /\ This(q).bytes = f.bytes
      BY <1>2, <1>6, <2>3, <2>10
    <3> QED BY ONLY <1>7, <2>4, <3>1, <3>2 DEF UnderWay
  <2>7. InControl(q)
    BY <1>1, <1>2, <1>9, <2>3, <2>5, <2>6, <2>10 DEF InControl, Untouched
  <2>8. LimitsInv(q)
    <3>1. 0 <= Basic
      BY Limits
    <3> QED BY <1>1, <1>2, <1>6, <1>7, <1>9, <2>3, <2>10, <3>1 DEF LimitsInv
  <2>9. AcceptedInv(q)
    BY <1>1, <1>2, <2>3, <2>10 DEF AcceptedInv
  <2> QED BY <2>7, <2>8, <2>9, <2>10 DEF ProcessorInv, PhaseInv
<1>10. CASE ~ExtendedError(f) /\ ~IsControl(f) /\ TooBig(f.size)
  <2> PICK q : q = BeginPayload(Take(n))
    OBVIOUS
  <2> PICK size \in Nat : size = f.size
    BY <1>3
  <2>1. q = [[t EXCEPT !.m_state = "APPLICATION", !.m_bytes_needed = size]
               EXCEPT !.ec = "too_big"]
    BY <1>1, <1>10 DEF BeginPayload
  <2>10. /\ q \in ProcessorRecord /\ q.frames = t.frames /\ q.delivered = t.delivered
         /\ q.ec = "too_big" /\ q.m_state = "APPLICATION" /\ q.alone = t.alone
         /\ q.server = t.server /\ q.data = t.data /\ q.control = t.control
         /\ q.wrapped = t.wrapped /\ q.current = t.current
    BY ONLY <1>2, <2>1, size \in Nat DEF ProcessorRecord
  <2>2. /\ q \in ProcessorRecord /\ q.frames = p.frames /\ q.delivered = p.delivered
        /\ q.ec = "too_big" /\ q.m_state = "APPLICATION" /\ q.alone = p.alone
        /\ q.server = p.server /\ q.data = p.data /\ q.control = p.control
        /\ q.wrapped = p.wrapped /\ q.current = p.current
    BY ONLY <1>2, <2>10
  <2>3. LimitsInv(q)
    BY <1>1, <2>2 DEF LimitsInv
  <2> QED BY <1>1, <2>2, <2>3, RefusedOK
<1>11. CASE ~ExtendedError(f) /\ ~IsControl(f) /\ ~TooBig(f.size)
  <2> PICK q : q = BeginPayload(Take(n))
    OBVIOUS
  <2> PICK size \in Nat : size = f.size
    BY <1>3
  <2> PICK open \in Open : open = Before(p).open
    BY <1>1, ThisFrame, AfterFrameType
  <2> PICK old \in Message : old = p.data
    BY <1>1, RecordFields
  <2>0. OpenIs(old, open) /\ (Clean(p) => old = NoMsg)
    BY <1>1 DEF Untouched
  <2> DEFINE new == IF old = NoMsg THEN NewMsg(f.op, id)
                    ELSE [old EXCEPT !.frame = id, !.phase = 0]
  <2>1. /\ new \in Message /\ new.op = Joined(open, f).op /\ new.out = Earlier(open)
        /\ new.frame = id /\ new.phase = 0
        /\ old = NoMsg => new.op = f.op /\ new.validator = utf8_accept
        /\ new.out = old.out
    <3>1. CASE open = <<>>
      <4>1. old = NoMsg /\ Earlier(open) = <<>> /\ Joined(open, f).op = f.op
        BY <2>0, <3>1, JoinedType DEF OpenIs, Earlier
      <4>2. NoMsg.out = <<>>
        BY DEF NoMsg
      <4> QED BY <1>6, <4>1, <4>2
    <3>2. CASE open # <<>>
      <4>1. old.op = open[1].op /\ old.out = open[1].out /\ Earlier(open) = open[1].out
        BY <2>0, <3>2 DEF OpenIs, Earlier
      <4>2. open[1] \in Delivery /\ Joined(open, f).op = open[1].op
        BY <3>2, JoinedType
      <4>3. open[1].op \in Opcodes /\ NoMsg.op = "none"
        BY <4>2 DEF Delivery, NoMsg
      <4>4. "none" \notin Opcodes
        BY DEF Opcodes, Controls
      <4>5. old # NoMsg
        BY <4>1, <4>3, <4>4
      <4>6. new = [old EXCEPT !.frame = id, !.phase = 0]
        BY <4>5
      <4>7. /\ new \in Message /\ new.op = old.op /\ new.out = old.out
            /\ new.frame = id /\ new.phase = 0
        <5>1. old = [op |-> old.op, out |-> old.out, validator |-> old.validator,
                     frame |-> old.frame, phase |-> old.phase]
          BY ONLY old \in Message DEF Message
        <5>2. /\ old.op \in Opcodes \cup {"none"} /\ old.out \in Seq(Byte)
              /\ old.validator \in 0..8
          BY ONLY old \in Message DEF Message
        <5>3. new = [op |-> old.op, out |-> old.out, validator |-> old.validator,
                     frame |-> id, phase |-> 0]
          BY ONLY <4>6, <5>1
        <5>4. id \in Nat /\ 0 \in 0..3
          OBVIOUS
        <5> QED BY ONLY <5>2, <5>3, <5>4 DEF Message
      <4> QED BY <4>1, <4>2, <4>5, <4>7
    <3> QED BY <3>1, <3>2
  <2> HIDE DEF new
  <2> PICK m \in Message : m = new
    BY <2>1
  <2>11. Len(old.out) \in Nat
    BY DEF Message
  <2> PICK wraps \in BOOLEAN : wraps = (p.wrapped \/ Len(old.out) + size >= WordSize)
    OBVIOUS
  <2>12. q = [[t EXCEPT !.m_state = "APPLICATION", !.m_bytes_needed = size]
               EXCEPT !.data = m, !.wrapped = wraps]
    BY <1>1, <1>2, <1>11, Zenon DEF BeginPayload, new
  <2>10. /\ q \in ProcessorRecord /\ q.frames = t.frames /\ q.delivered = t.delivered
         /\ q.ec = t.ec /\ q.m_state = "APPLICATION" /\ q.alone = t.alone
         /\ q.server = t.server /\ q.data = m /\ q.control = t.control
         /\ q.wrapped = wraps /\ q.current = t.current /\ q.m_bytes_needed = size
         /\ q.buf = t.buf /\ q.wire = t.wire
    BY ONLY <1>2, <2>12, size \in Nat, m \in Message, wraps \in BOOLEAN DEF ProcessorRecord
  <2>3. This(q) = This(d) /\ Before(q) = Before(d) /\ Clean(q) = Clean(d)
    BY <1>2, <2>10, SameFrames
  <2>4. Got(q) = 0
    BY <1>3, <2>3, <2>10 DEF Got
  <2>5. InPayload(q)
    <3>1. OnFrame(q, HeaderLen(f))
      BY <1>2, <1>5, <2>10
    <3>2. HeaderLen(f) + Got(q) = HeaderLen(f)
      BY <1>1, <2>4
    <3>3. q.m_bytes_needed <= This(q).size
      BY <1>3, <2>3, <2>10
    <3> QED BY <1>1, <1>2, <2>3, <2>10, <3>1, <3>2, <3>3 DEF InPayload
  <2>6. UnderWay(q.data, Joined(open, f).op, Earlier(open), q)
    <3>1. Earlier(open) \o SubSeq(f.bytes, 1, Got(q)) = Earlier(open)
      <4>1. Earlier(open) \in Seq(Byte)
        BY JoinedType
      <4> QED BY <1>7, <2>4, <4>1
    <3>2. /\ q.data.op = Joined(open, f).op /\ q.data.out = Earlier(open)
          /\ q.data.frame = id
          /\ q.data.phase = 0 /\ q.current = id /\ This(q).bytes = f.bytes
      BY <1>2, <2>1, <2>3, <2>10
    <3> QED BY ONLY <1>7, <2>4, <3>1, <3>2 DEF UnderWay
  <2>7. Len(q.data.out) + q.m_bytes_needed <= m_max_message_size \/ q.wrapped
    <3>1. CASE Len(old.out) + size < WordSize
      <4>1. (Len(old.out) + size) % WordSize = Len(old.out) + size
        <5>1. Len(old.out) + size \in Nat
          BY <2>11
        <5> QED BY ONLY <3>1, <5>1, ModSmall, Limits
      <4>2. ~((Len(old.out) + size) % WordSize > m_max_message_size)
        BY <1>11 DEF TooBig
      <4>3. q.data.out = old.out /\ q.m_bytes_needed = size
        BY <2>1, <2>10
      <4>4. Len(old.out) + size \in Nat
        BY <2>11
      <4>5. Len(old.out) + size <= m_max_message_size
        <5> PICK sum \in Nat : sum = Len(old.out) + size
          BY <4>4
        <5>1. ~(sum > m_max_message_size)
          BY <4>1, <4>2
        <5>2. \A x, y \in Nat : ~(x > y) => x <= y
          OBVIOUS
        <5> QED BY ONLY <5>1, <5>2, sum = Len(old.out) + size, Limits
      <4> QED BY ONLY <4>3, <4>5
    <3>2. CASE ~(Len(old.out) + size < WordSize)
      <4>1. Len(old.out) + size >= WordSize
        BY <2>11, <3>2, Limits
      <4> QED BY <2>10, <4>1
    <3> QED BY <3>1, <3>2
  <2>8. InData(q)
    <3>1. Clean(q) => /\ q.data.op = This(q).op
                      /\ q.data.validator =
                           IF q.data.op = "text"
                           THEN decode(utf8_accept, This(q).bytes)[Got(q)]
                           ELSE utf8_accept
      BY <1>7, <2>0, <2>1, <2>3, <2>4, <2>10
    <3> QED BY <1>1, <1>2, <1>11, <2>3, <2>5, <2>6, <2>7, <2>10, <3>1 DEF InData
  <2>13. LimitsInv(q)
    <3>1. Len(q.data.out) <= m_max_message_size \/ q.wrapped
      <4>1. Len(q.data.out) = Len(old.out) /\ q.m_bytes_needed = size
        BY <2>1, <2>10
      <4> QED BY <2>7, <2>11, <4>1, Limits
    <3> QED BY <1>1, <1>2, <2>10, <3>1 DEF LimitsInv
  <2>14. AcceptedInv(q)
    BY <1>1, <1>2, <2>3, <2>10 DEF AcceptedInv
  <2> QED BY <2>8, <2>10, <2>13, <2>14 DEF ProcessorInv, PhaseInv
<1> QED BY <1>8, <1>9, <1>10, <1>11

\* What consume() does once it has read the header's bytes, or some of them.
LEMMA ExtendedHeaderOK ==
  ASSUME ProcessorInv(p), ExtendedHeader
  PROVE  ProcessorInv(p')
<1>1. p.m_state = "HEADER_EXTENDED" /\ p.ec = "none"
  BY DEF ExtendedHeader, Turn
<1>2. Len(p.buf) \in Nat /\ p.m_bytes_needed \in Nat
  BY <1>1, ExtendedFacts
<1> PICK n : n = AtMost(p.m_bytes_needed)
  OBVIOUS
<1>3. n \in Nat /\ n <= Len(p.buf) /\ n <= p.m_bytes_needed
  BY <1>2 DEF AtMost
<1>4. p' = IF n < p.m_bytes_needed THEN Take(n) ELSE BeginPayload(Take(n))
  BY DEF ExtendedHeader
<1>5. CASE n < p.m_bytes_needed
  BY <1>1, <1>3, <1>4, <1>5, ExtendedPartOK
<1>6. CASE ~(n < p.m_bytes_needed)
  <2>1. n = p.m_bytes_needed
    BY <1>2, <1>3, <1>6
  <2> QED BY <1>1, <1>3, <1>4, <1>6, <2>1, BeginPayloadOK
<1> QED BY <1>5, <1>6

-----------------------------------------------------------------------------
(* A payload, and the end of its frame.                                    *)

\* More of a frame's bytes after the first of them.
LEMMA ConcatParts ==
  ASSUME NEW a \in Seq(Byte), NEW b \in Seq(Byte), NEW g \in Nat, NEW n \in Nat,
         g + n <= Len(b)
  PROVE  (a \o SubSeq(b, 1, g)) \o [i \in 1..n |-> b[g + i]] = a \o SubSeq(b, 1, g + n)
<1>1. Len(b) \in Nat /\ g <= Len(b)
  OBVIOUS
<1> PICK x : x = SubSeq(b, 1, g)
  OBVIOUS
<1> PICK y : y = SubSeq(b, g + 1, g + n)
  OBVIOUS
<1> PICK t : t = [i \in 1..n |-> b[g + i]]
  OBVIOUS
<1>7. t \in Seq(Byte) /\ Len(t) = n /\ \A i \in 1..n : t[i] = b[g + i]
  BY <1>1
<1>2. x \in Seq(Byte)
  BY <1>1
<1>3. y \in Seq(Byte) /\ Len(y) = n /\ \A i \in 1..n : y[i] = b[g + i]
  BY <1>1
<1>4. t = y
  <2>1. \A i \in 1..n : t[i] = y[i]
    BY ONLY <1>3, <1>7
  <2> QED BY ONLY <1>3, <1>7, <2>1, SeqEqual
<1>5. x \o y = SubSeq(b, 1, g + n)
  <2>1. 1 \in 1..Len(b) + 1 /\ g \in 1 - 1..Len(b) /\ g + n \in g..Len(b)
    BY <1>1
  <2> QED BY <2>1, ConcatAdjacentSubSeq, x = SubSeq(b, 1, g), y = SubSeq(b, g + 1, g + n)
<1>6. (a \o x) \o t = a \o (x \o t)
  <2> PICK S : S = Byte
    OBVIOUS
  <2>1. x \in Seq(S) /\ a \in Seq(S) /\ t \in Seq(S)
    BY <1>2, <1>7
  <2> QED BY ONLY <2>1, ConcatAssociative
<1> QED BY <1>4, <1>5, <1>6

\* What is known of the state while a payload is read, or was.
LEMMA PayloadFacts ==
  ASSUME ProcessorInv(p), p.m_state \in {"APPLICATION", "READY"}, p.ec = "none"
  PROVE  /\ p \in ProcessorRecord /\ LimitsInv(p) /\ AcceptedInv(p)
         /\ InControl(p) \/ InData(p)
         /\ p.m_bytes_needed \in Nat /\ p.m_bytes_needed <= This(p).size
         /\ This(p).size \in Nat /\ Got(p) \in Nat
         /\ p.current \in Nat /\ OnFrame(p, HeaderLen(This(p)) + Got(p))
         /\ p.current \in DOMAIN p.frames /\ This(p) \in Frames
         /\ F = This(p) /\ HeaderLen(This(p)) \in Nat
         /\ Len(p.buf) \in Nat
<1>1. p \in ProcessorRecord /\ LimitsInv(p) /\ AcceptedInv(p) /\ PhaseInv(p)
  BY DEF ProcessorInv
<1>2. InControl(p) \/ InData(p)
  BY <1>1 DEF PhaseInv, Between, InBasic, InExtended, Refused
<1>3. InPayload(p)
  BY <1>2 DEF InControl, InData
<1>4. /\ p.m_bytes_needed <= This(p).size
      /\ OnFrame(p, HeaderLen(This(p)) + Got(p)) /\ p.current \in DOMAIN p.frames
  BY <1>3 DEF InPayload, OnFrame
<1>5. p.m_bytes_needed \in Nat /\ Len(p.buf) \in Nat /\ p.current \in Nat
  BY <1>1, RecordFields
<1>6. This(p) \in Frames
  BY <1>1, <1>4, ThisFrame
<1>7. This(p).size \in Nat /\ HeaderLen(This(p)) \in Nat
  BY <1>6, FrameFields, CellCount
<1>8. Got(p) \in Nat
  BY <1>4, <1>5, <1>7 DEF Got
<1>9. F = This(p)
  BY <1>4 DEF F, This
<1> QED BY <1>1, <1>2, <1>4, <1>5, <1>6, <1>7, <1>8, <1>9

\* No more is taken for a payload than its frame has: only the last frame may have
\* stopped short, and what follows its bytes is nothing.
LEMMA GotWithin ==
  ASSUME NEW d \in ProcessorRecord, AcceptedInv(d), OnFrame(d, HeaderLen(This(d)) + Got(d)),
         d.m_bytes_needed <= This(d).size,
         NEW n \in Nat, n <= Len(d.buf), n <= d.m_bytes_needed
  PROVE  Got(d) \in Nat /\ Got(d) + n <= Len(This(d).bytes)
<1>1. d.current \in DOMAIN d.frames
  BY DEF OnFrame
<1> PICK f \in Frames : f = This(d)
  BY <1>1, ThisFrame
<1> PICK id \in Nat : id = d.current
  BY <1>1, ThisFrame
<1> PICK size \in Nat : size = f.size
  BY FrameFields
<1> PICK whole \in Nat : whole = Len(f.bytes)
  BY FrameFields
<1> PICK head \in Nat : head = HeaderLen(f)
  BY CellCount
<1> PICK needed \in Nat : needed = d.m_bytes_needed
  BY RecordFields
<1>2. size - needed \in Nat
  OBVIOUS
<1> PICK got \in Nat : got = Got(d)
  BY <1>2 DEF Got
<1>3. got = size - needed /\ n <= needed
  BY DEF Got
<1>4. CASE d.current # Len(d.frames)
  <2>1. whole = size
    BY <1>1, <1>4 DEF AcceptedInv, This
  <2>2. got + n <= whole
    BY ONLY <1>3, <2>1, n \in Nat, needed \in Nat, size \in Nat
  <2> QED BY <2>2
<1>5. CASE d.current = Len(d.frames)
  <2> PICK here \in Nat : here = Len(d.buf)
    BY RecordFields
  <2> PICK there \in Nat : there = Len(d.wire)
    BY RecordFields
  <2> PICK start \in Nat : start = Upto(d, d.current - 1)
    BY <1>1, ThisCells
  <2>1. Len(Cells(f, id)) = head + whole
    BY CellCount
  <2>2. Len(All(d)) = start + Len(Cells(f, id))
    BY <1>1, <1>5, ThisCells
  <2>3. Len(d.buf) + Len(d.wire) = Len(All(d)) - (start + (head + got))
    BY DEF OnFrame, Left
  <2>4. here + there = (start + (head + whole)) - (start + (head + got))
    BY <2>1, <2>2, <2>3
  <2>5. n <= here
    OBVIOUS
  <2>6. got + n <= whole
    BY ONLY <2>4, <2>5, n \in Nat, here \in Nat, there \in Nat, start \in Nat,
            head \in Nat, got \in Nat, whole \in Nat
  <2> QED BY <2>6
<1> QED BY <1>4, <1>5

\* The bytes a turn unmasks are the next of the frame's, with its own key.
LEMMA PayloadBytes ==
  ASSUME p \in ProcessorRecord, AcceptedInv(p), F = This(p), Got(p) \in Nat,
         OnFrame(p, HeaderLen(This(p)) + Got(p)), p.m_bytes_needed <= This(p).size,
         NEW n \in Nat, n <= Len(p.buf), n <= p.m_bytes_needed,
         NEW m, m.frame = p.current, m.phase = Got(p) % 4
  PROVE  /\ Got(p) + n <= Len(This(p).bytes)
         /\ \A i \in 1..n : Unmasked(m, i) = This(p).bytes[Got(p) + i]
<1>1. p.current \in Nat /\ This(p) \in Frames
  <2>1. p.current \in DOMAIN p.frames
    BY DEF OnFrame
  <2> QED BY <2>1, ThisFrame
<1> PICK f \in Frames : f = This(p)
  BY <1>1
<1> PICK id \in Nat : id = p.current
  BY <1>1
<1> PICK g \in Nat : g = Got(p)
  OBVIOUS
<1> PICK l : l = HeaderLen(f)
  OBVIOUS
<1> PICK cells : cells = Cells(f, id)
  OBVIOUS
<1>2. /\ l \in Nat /\ cells \in Seq(Cell) /\ Len(cells) = l + Len(f.bytes)
      /\ Len(f.bytes) \in Nat
  BY CellCount
<1>3. \A i \in 1..Len(f.bytes) :
        /\ cells[l + i].frame = id /\ cells[l + i].byte = f.bytes[i]
        /\ cells[l + i].phase = (i - 1) % 4
  <2>1. LET cs == Cells(f, id)  h == HeaderLen(f) IN
        \A i \in 1..Len(f.bytes) :
          /\ cs[h + i].frame = id /\ cs[h + i].byte = f.bytes[i]
          /\ cs[h + i].phase = (i - 1) % 4
    BY CellsOf, Zenon
  <2> QED BY ONLY <2>1, cells = Cells(f, id), l = HeaderLen(f), Zenon
<1>4. l + g \in Nat
  BY <1>2
<1>5. /\ Len(p.buf) \in Nat
      /\ \A i \in 1..Len(p.buf) : (l + g) + i <= Len(cells) => p.buf[i] = cells[(l + g) + i]
  BY <1>4, NextCells
<1>6. g + n <= Len(f.bytes)
  BY GotWithin
<1>7. ASSUME NEW i \in 1..n PROVE Unmasked(m, i) = f.bytes[g + i]
  <2>1. /\ g + i \in 1..Len(f.bytes) /\ i \in 1..Len(p.buf) /\ (l + g) + i = l + (g + i)
        /\ (l + g) + i <= l + Len(f.bytes)
    <3>1. n <= Len(p.buf)
      OBVIOUS
    <3> QED BY ONLY <1>2, <1>5, <1>6, <3>1, n \in Nat, g \in Nat, i \in 1..n
  <2> PICK j \in 1..Len(f.bytes) : j = g + i
    BY <2>1
  <2>2. p.buf[i] = cells[l + j]
    BY <1>2, <1>5, <2>1
  <2>3. p.buf[i].frame = id /\ p.buf[i].byte = f.bytes[j] /\ p.buf[i].phase = (j - 1) % 4
    BY <1>3, <2>2
  <2>4. i - 1 \in Nat /\ g + (i - 1) = j - 1
    BY <2>1
  <2>5. ((g % 4) + (i - 1)) % 4 = (j - 1) % 4
    BY <2>4, Mod4
  <2>6. p.buf[i].phase = (m.phase + i - 1) % 4
    BY ONLY <2>3, <2>5, m.phase = Got(p) % 4, g = Got(p)
  <2> QED BY <2>3, <2>6, Zenon DEF Unmasked
<1> QED BY <1>6, <1>7

\* A message to which n more of this frame's bytes were appended.
Grown(x, m, op, earlier, n) ==
  LET bytes == This(p).bytes  g == Got(p) IN
  /\ x \in Message /\ x.op = op /\ x.frame = p.current
  /\ x.phase = (g + n) % 4 /\ x.out = earlier \o SubSeq(bytes, 1, g + n)
  /\ Len(x.out) = Len(m.out) + n /\ Len(m.out) \in Nat
  /\ bytes \in Seq(Byte) /\ g + n <= Len(bytes)
  /\ op # "text" => x.validator = m.validator
  /\ op = "text" /\ m.validator = decode(utf8_accept, bytes)[g] =>
       x.validator = decode(utf8_accept, bytes)[g + n]

\* What appending the next n bytes makes of a message.
LEMMA AppendedOK ==
  ASSUME p \in ProcessorRecord, AcceptedInv(p), F = This(p), Got(p) \in Nat,
         OnFrame(p, HeaderLen(This(p)) + Got(p)), p.m_bytes_needed <= This(p).size,
         NEW n \in Nat, n <= Len(p.buf), n <= p.m_bytes_needed,
         NEW m \in Message, NEW op, NEW earlier \in Seq(Byte), UnderWay(m, op, earlier, p)
  PROVE  Grown(Appended(m, n), m, op, earlier, n)
<1>20. This(p).bytes \in Seq(Byte)
  <2>1. p.current \in DOMAIN p.frames
    BY DEF OnFrame
  <2> QED BY <2>1, ThisFrame, FrameFields
<1>21. /\ m.op = op /\ m.out = earlier \o SubSeq(This(p).bytes, 1, Got(p))
       /\ m.frame = p.current /\ m.phase = Got(p) % 4
  BY DEF UnderWay
<1>22. /\ Got(p) + n <= Len(This(p).bytes)
       /\ \A i \in 1..n : Unmasked(m, i) = This(p).bytes[Got(p) + i]
  BY <1>21, PayloadBytes
<1> PICK bytes \in Seq(Byte) : bytes = This(p).bytes
  BY <1>20
<1> PICK g \in Nat : g = Got(p)
  OBVIOUS
<1>2. /\ g + n <= Len(bytes)
      /\ \A i \in 1..n : Unmasked(m, i) = bytes[g + i]
  BY <1>22
<1>18. (earlier \o SubSeq(bytes, 1, g)) \o [i \in 1..n |-> bytes[g + i]]
         = earlier \o SubSeq(bytes, 1, g + n)
  <2>1. g + n <= Len(bytes)
    BY <1>2
  <2> QED BY ONLY <2>1, ConcatParts, ZenonT(30)
<1>19. ASSUME NEW w \in Seq(Byte), Len(w) = n, \A i \in 1..n : w[i] = bytes[g + i]
       PROVE  decode(decode(utf8_accept, bytes)[g], w)[n] = decode(utf8_accept, bytes)[g + n]
  <2>1. utf8_accept \in 0..8 /\ g \in 0..Len(bytes)
    BY <1>2 DEF utf8_accept
  <2>2. g + n <= Len(bytes)
    BY <1>2
  <2> QED BY ONLY <1>19, <2>1, <2>2, DecodeParts
<1> PICK out \in Seq(Byte) : out = m.out
  BY DEF Message
<1> PICK state \in 0..8 : state = m.validator
  BY DEF Message
<1> PICK phase \in Nat : phase = m.phase
  BY DEF Message
<1>1. /\ m.op = op /\ out = earlier \o SubSeq(bytes, 1, g)
      /\ m.frame = p.current /\ m.phase = g % 4
  BY <1>21
<1> DEFINE t == [i \in 1..n |-> Unmasked(m, i)]
<1>3. t = [i \in 1..n |-> bytes[g + i]]
  BY <1>2
<1>4. t \in Seq(Byte) /\ Len(t) = n /\ \A i \in 1..n : t[i] = bytes[g + i]
  <2>1. Len(bytes) \in Nat
    OBVIOUS
  <2>2. \A i \in 1..n : bytes[g + i] \in Byte
    <3> TAKE i \in 1..n
    <3>1. g + i \in 1..Len(bytes)
      BY ONLY <1>2, <2>1, g \in Nat, n \in Nat, i \in 1..n
    <3> QED BY <3>1, ElementOfSeq
  <2> QED BY <1>3, <2>2
<1> PICK u \in Seq(Byte) : u = t
  BY <1>4
<1>5. u \in Seq(Byte) /\ Len(u) = n /\ \A i \in 1..n : u[i] = bytes[g + i]
  BY <1>4
<1>17. u = [i \in 1..n |-> bytes[g + i]]
  BY <1>3
<1> HIDE DEF t
<1> PICK new : new = out \o u
  OBVIOUS
<1>6. new = earlier \o SubSeq(bytes, 1, g + n)
  BY ONLY <1>1, <1>17, <1>18, new = out \o u
<1>7. new \in Seq(Byte) /\ Len(new) = Len(out) + n /\ Len(out) \in Nat
  <2>1. \A S : \A v, w \in Seq(S) : v \o w \in Seq(S) /\ Len(v \o w) = Len(v) + Len(w)
    OBVIOUS
  <2>2. Len(out) \in Nat /\ Len(u) = n /\ out \in Seq(Byte) /\ u \in Seq(Byte)
    BY <1>5
  <2> QED BY ONLY <2>1, <2>2, new = out \o u, Zenon
<1> PICK turned : turned = (phase + n) % 4
  OBVIOUS
<1>8. turned \in 0..3 /\ turned = (g + n) % 4
  <2>1. phase + n \in Nat /\ phase = g % 4
    BY ONLY <1>1, phase \in Nat, n \in Nat, phase = m.phase
  <2> QED BY ONLY <2>1, turned = (phase + n) % 4, g \in Nat, n \in Nat, Mod4
<1> PICK judged : judged = IF m.op = "text" THEN decode(state, u)[n] ELSE state
  OBVIOUS
<1>9. judged \in 0..8
  <2>1. n \in 0..Len(u)
    BY <1>5
  <2> QED BY <2>1, DecodeExists
<1>10. /\ op # "text" => judged = state
       /\ op = "text" /\ state = decode(utf8_accept, bytes)[g] =>
            judged = decode(utf8_accept, bytes)[g + n]
  <2>1. ASSUME op = "text", state = decode(utf8_accept, bytes)[g]
        PROVE  judged = decode(utf8_accept, bytes)[g + n]
    <3>1. decode(decode(utf8_accept, bytes)[g], u)[n] = decode(utf8_accept, bytes)[g + n]
      BY <1>5, <1>19
    <3> QED BY <1>1, <2>1, <3>1
  <2> QED BY <1>1, <2>1
<1> PICK x : x = Appended(m, n)
  OBVIOUS
<1>11. x = [m EXCEPT !.out = new, !.phase = turned, !.validator = judged]
  <2>1. u = [i \in 1..n |-> Unmasked(m, i)]
    BY DEF t
  <2>2. x = [m EXCEPT !.out = @ \o u, !.phase = (@ + n) % 4,
                      !.validator = IF m.op = "text" THEN decode(@, u)[n] ELSE @]
    BY ONLY <2>1, x = Appended(m, n), Zenon DEF Appended
  <2> QED BY ONLY <2>2, new = out \o u, out = m.out, turned = (phase + n) % 4,
             phase = m.phase, state = m.validator,
             judged = IF m.op = "text" THEN decode(state, u)[n] ELSE state, Zenon
<1>12. m = [op |-> m.op, out |-> m.out, validator |-> m.validator, frame |-> m.frame,
            phase |-> m.phase]
  BY DEF Message
<1>13. x = [op |-> m.op, out |-> new, validator |-> judged, frame |-> m.frame,
            phase |-> turned]
  BY ONLY <1>11, <1>12
<1>14. m.op \in Opcodes \cup {"none"} /\ m.frame \in Nat
  BY DEF Message
<1>15. x \in Message
  BY ONLY <1>7, <1>8, <1>9, <1>13, <1>14 DEF Message
<1>16. /\ x.op = op /\ x.frame = p.current /\ x.phase = (g + n) % 4
       /\ x.out = new /\ x.validator = judged
  BY ONLY <1>1, <1>8, <1>13
<1> QED BY <1>2, <1>6, <1>7, <1>10, <1>15, <1>16 DEF Grown

\* What stays of the frame's cells is what follows the bytes taken.
LEMMA PayloadLeft ==
  ASSUME p \in ProcessorRecord, p.current \in DOMAIN p.frames, Got(p) \in Nat,
         p.m_bytes_needed <= This(p).size,
         OnFrame(p, HeaderLen(This(p)) + Got(p)),
         NEW n \in Nat, n <= Len(p.buf), n <= p.m_bytes_needed,
         NEW q, q.frames = p.frames, q.buf = Take(n).buf, q.wire = Take(n).wire,
         q.delivered = p.delivered, q.ec = "none", q.current = p.current,
         q.m_bytes_needed = p.m_bytes_needed - n
  PROVE  /\ Got(q) = Got(p) + n /\ q.m_bytes_needed <= This(q).size
         /\ OnFrame(q, HeaderLen(This(q)) + Got(q))
<1> PICK f \in Frames : f = This(p)
  BY ThisFrame
<1> PICK size \in Nat : size = f.size
  BY FrameFields
<1> PICK needed \in Nat : needed = p.m_bytes_needed
  BY RecordFields
<1> PICK head \in Nat : head = HeaderLen(f)
  BY ThisFrame, CellCount
<1> PICK g \in Nat : g = Got(p)
  OBVIOUS
<1>1. This(q) = f
  BY SameFrames
<1>2. g = size - needed /\ Got(q) = size - (needed - n)
  BY <1>1 DEF Got
<1>3. Got(q) = g + n /\ needed - n <= size
  BY ONLY <1>2, needed \in Nat, n \in Nat, size \in Nat, g \in Nat
<1>4. head + g \in Nat
  OBVIOUS
<1>5. OnFrame(q, head + g + n)
  BY <1>4, TakeOnFrame
<1>6. head + g + n = head + Got(q)
  BY <1>3
<1> QED BY <1>1, <1>3, <1>5, <1>6

\* Once no byte of a frame is needed, all of it was read, and what follows it is next.
LEMMA WholeFrameRead ==
  ASSUME NEW d \in ProcessorRecord, AcceptedInv(d), d.m_bytes_needed = 0,
         OnFrame(d, HeaderLen(This(d)) + Got(d))
  PROVE  /\ Left(d.buf, d.wire, All(d), Upto(d, d.current))
         /\ Got(d) = Len(This(d).bytes)
         /\ SubSeq(This(d).bytes, 1, Got(d)) = This(d).bytes
<1>1. d.current \in DOMAIN d.frames
  BY DEF OnFrame
<1> PICK f \in Frames : f = This(d)
  BY <1>1, ThisFrame
<1> PICK id \in Nat : id = d.current
  BY <1>1, ThisFrame
<1> PICK size \in Nat : size = f.size
  BY FrameFields
<1> PICK bytes \in Seq(Byte) : bytes = f.bytes
  BY FrameFields
<1> PICK whole \in Nat : whole = Len(bytes)
  OBVIOUS
<1> PICK head \in Nat : head = HeaderLen(f)
  BY CellCount
<1> PICK start \in Nat : start = Upto(d, d.current - 1)
  BY <1>1, ThisCells
<1>2. Got(d) = size /\ whole <= size
  BY FrameFields DEF Got
<1>3. Got(d) + 0 <= whole
  <2>1. Len(d.buf) \in Nat
    BY RecordFields
  <2> PICK n \in Nat : n = 0
    OBVIOUS
  <2>2. n <= Len(d.buf) /\ n <= d.m_bytes_needed /\ d.m_bytes_needed <= This(d).size
    BY <2>1
  <2>3. Got(d) + n <= whole
    BY <2>2, GotWithin
  <2> QED BY <2>3
<1>4. Got(d) = whole
  BY ONLY <1>2, <1>3, size \in Nat, whole \in Nat
<1>5. Upto(d, d.current) = start + (head + whole)
  <2>1. Len(Cells(f, id)) = head + whole
    BY CellCount
  <2>2. Upto(d, d.current) = start + Len(Cells(f, id))
    BY <1>1, ThisCells
  <2> QED BY <2>1, <2>2
<1>6. SubSeq(bytes, 1, Len(bytes)) = bytes
  BY SubSeqFull
<1>7. Left(d.buf, d.wire, All(d), start + (head + Got(d)))
  BY DEF OnFrame
<1> QED BY <1>4, <1>5, <1>6, <1>7

\* A control frame's payload, or more of it; its opcode is no text's.
LEMMA PayloadControlOK ==
  ASSUME ProcessorInv(p), Payload, InControl(p)
  PROVE  ProcessorInv(p')
<1>1. p.m_state = "APPLICATION" /\ p.ec = "none"
  BY DEF Payload, Turn
<1>2. /\ p \in ProcessorRecord /\ LimitsInv(p) /\ AcceptedInv(p)
      /\ p.m_bytes_needed \in Nat /\ p.m_bytes_needed <= This(p).size
      /\ This(p).size \in Nat /\ Got(p) \in Nat
      /\ p.current \in Nat /\ OnFrame(p, HeaderLen(This(p)) + Got(p))
      /\ p.current \in DOMAIN p.frames /\ This(p) \in Frames
      /\ F = This(p) /\ Len(p.buf) \in Nat
  BY <1>1, PayloadFacts
<1>3. /\ IsControl(This(p)) /\ This(p).fin /\ This(p).form = "7"
      /\ Untouched(p, Before(p).open) /\ UnderWay(p.control, This(p).op, <<>>, p)
  BY DEF InControl
<1> PICK f \in Frames : f = This(p)
  BY <1>2
<1> PICK m \in Message : m = p.control
  BY <1>2, RecordFields
<1> PICK n : n = AtMost(p.m_bytes_needed)
  OBVIOUS
<1>4. n \in Nat /\ n <= Len(p.buf) /\ n <= p.m_bytes_needed
  BY <1>2 DEF AtMost
<1> PICK x : x = Appended(m, n)
  OBVIOUS
<1>5. f.op # "text" /\ f.op \in Controls
  BY <1>3 DEF IsControl, Controls
<1>6. /\ x \in Message /\ x.op = f.op /\ x.frame = p.current
      /\ x.phase = (Got(p) + n) % 4 /\ x.out = <<>> \o SubSeq(f.bytes, 1, Got(p) + n)
      /\ x.validator = m.validator /\ Len(x.out) = Len(m.out) + n /\ Len(m.out) \in Nat
      /\ Got(p) + n <= Len(f.bytes)
  <2>1. <<>> \in Seq(Byte)
    OBVIOUS
  <2> PICK none \in Seq(Byte) : none = <<>>
    BY <2>1
  <2>2. UnderWay(m, f.op, none, p)
    BY <1>3
  <2>3. Grown(x, m, f.op, none, n)
    BY <1>2, <1>4, <2>2, AppendedOK
  <2> QED BY ONLY <1>5, <2>3, f = This(p), none = <<>> DEF Grown
<1>7. x.validator = utf8_accept /\ x.validator # utf8_reject
  BY <1>2, <1>6 DEF LimitsInv, utf8_accept, utf8_reject
<1> PICK t : t = Take(n)
  OBVIOUS
<1>8. /\ t \in ProcessorRecord
      /\ t.frames = p.frames /\ t.wire = p.wire /\ t.server = p.server
      /\ t.m_state = p.m_state /\ t.m_bytes_needed = p.m_bytes_needed - n
      /\ t.current = p.current /\ t.data = p.data /\ t.control = p.control
      /\ t.delivered = p.delivered /\ t.ec = p.ec /\ t.alone = p.alone
      /\ t.wrapped = p.wrapped
  BY <1>2, <1>4, TakeFields
<1> PICK d : d = [t EXCEPT !.control = x]
  OBVIOUS
<1>9. /\ d \in ProcessorRecord /\ d.frames = t.frames /\ d.wire = t.wire
      /\ d.buf = t.buf /\ d.server = t.server /\ d.m_state = t.m_state
      /\ d.m_bytes_needed = t.m_bytes_needed /\ d.current = t.current
      /\ d.data = t.data /\ d.control = x /\ d.delivered = t.delivered
      /\ d.ec = t.ec /\ d.alone = t.alone /\ d.wrapped = t.wrapped
  BY ONLY <1>6, <1>8, d = [t EXCEPT !.control = x] DEF ProcessorRecord
<1> PICK q : q = p'
  OBVIOUS
<1>10. q = IF d.m_bytes_needed > 0 THEN d ELSE [d EXCEPT !.m_state = "READY"]
  <2>1. Current(p) = m /\ WithCurrent(t, x) = d
    BY <1>2, <1>3 DEF Current, WithCurrent
  <2>2. EndFrame(d) = [d EXCEPT !.m_state = "READY"]
    BY <1>2, <1>3, <1>5 DEF EndFrame
  <2>3. q = IF x.validator = utf8_reject THEN [d EXCEPT !.ec = "utf8"]
            ELSE IF d.m_bytes_needed > 0 THEN d ELSE EndFrame(d)
    BY <2>1, Zenon DEF Payload
  <2> QED BY <1>7, <2>2, <2>3
<1>11. /\ q \in ProcessorRecord /\ q.frames = d.frames /\ q.wire = d.wire
       /\ q.buf = d.buf /\ q.server = d.server
       /\ q.m_state = "APPLICATION" \/ (q.m_state = "READY" /\ q.m_bytes_needed = 0)
       /\ q.m_bytes_needed = d.m_bytes_needed /\ q.current = d.current
       /\ q.data = d.data /\ q.control = d.control /\ q.delivered = d.delivered
       /\ q.ec = d.ec /\ q.alone = d.alone /\ q.wrapped = d.wrapped
  <2>1. CASE d.m_bytes_needed > 0
    <3>1. q = d
      BY <1>10, <2>1
    <3> QED BY <1>1, <1>8, <1>9, <3>1
  <2>2. CASE ~(d.m_bytes_needed > 0)
    <3>1. d.m_bytes_needed = 0
      BY <1>2, <1>4, <1>8, <1>9, <2>2
    <3>2. q = [d EXCEPT !.m_state = "READY"]
      BY <1>10, <2>2
    <3> QED BY ONLY <1>9, <3>1, <3>2 DEF ProcessorRecord
  <2> QED BY <2>1, <2>2
<1> PICK o : o = p
  OBVIOUS
<1>12. This(q) = f /\ Before(q) = Before(o) /\ Clean(q) = Clean(o)
  BY <1>8, <1>9, <1>11, SameFrames
<1>13. /\ Got(q) = Got(o) + n /\ q.m_bytes_needed <= This(q).size
       /\ OnFrame(q, HeaderLen(This(q)) + Got(q))
  BY <1>1, <1>2, <1>4, <1>8, <1>9, <1>11, PayloadLeft
<1>14. InPayload(q)
  BY <1>2, <1>8, <1>9, <1>11, <1>13 DEF InPayload
<1>15. UnderWay(q.control, f.op, <<>>, q)
  <2>1. /\ x.op = f.op /\ x.out = <<>> \o SubSeq(f.bytes, 1, Got(q))
        /\ x.frame = q.current /\ x.phase = Got(q) % 4 /\ This(q).bytes = f.bytes
    BY <1>6, <1>8, <1>9, <1>11, <1>12, <1>13
  <2>2. q.control = x
    BY <1>9, <1>11
  <2> QED BY ONLY <2>1, <2>2 DEF UnderWay
<1>16. Untouched(q, Before(q).open)
  BY <1>3, <1>8, <1>9, <1>11, <1>12 DEF Untouched
<1>17. InControl(q)
  BY <1>3, <1>12, <1>14, <1>15, <1>16 DEF InControl
<1>18. LimitsInv(q)
  <2>1. Len(x.out) <= Basic
    <3>1. x.out = SubSeq(f.bytes, 1, Got(p) + n)
      <4> PICK bytes \in Seq(Byte) : bytes = f.bytes
        BY FrameFields
      <4> PICK first : first = SubSeq(bytes, 1, Got(p) + n)
        OBVIOUS
      <4>1. first \in Seq(Byte)
        <5> PICK k \in Nat : k = Got(p) + n
          BY <1>2, <1>4
        <5>1. k <= Len(bytes) /\ first = SubSeq(bytes, 1, k)
          BY <1>6
        <5> QED BY ONLY <5>1, bytes \in Seq(Byte), k \in Nat
      <4>2. <<>> \o first = first
        BY <4>1
      <4> QED BY <1>6, <4>2
    <3>2. f.size \in Nat /\ Len(f.bytes) \in Nat /\ Len(f.bytes) <= f.size /\ f.size <= Basic
      BY <1>3, FrameFields
    <3> PICK sofar \in Nat : sofar = Got(p) + n
      BY <1>2, <1>4
    <3>3. Len(SubSeq(f.bytes, 1, sofar)) = sofar
      <4>1. f.bytes \in Seq(Byte) /\ sofar <= Len(f.bytes)
        BY <1>6, FrameFields
      <4> QED BY ONLY <4>1, sofar \in Nat
    <3>4. Len(x.out) = sofar /\ sofar <= Len(f.bytes)
      BY <1>6, <3>1, <3>3
    <3> QED BY ONLY <3>2, <3>4, sofar \in Nat, Limits
  <2> QED BY <1>2, <1>3, <1>7, <1>8, <1>9, <1>11, <1>12, <2>1 DEF LimitsInv
<1>19. AcceptedInv(q)
  BY <1>2, <1>8, <1>9, <1>11, <1>12 DEF AcceptedInv
<1> QED BY <1>11, <1>17, <1>18, <1>19 DEF ProcessorInv, PhaseInv

\* What is known while a data frame's payload is read, after n more bytes.
LEMMA PayloadDataGrown ==
  ASSUME ProcessorInv(p), p.m_state = "APPLICATION", p.ec = "none", InData(p),
         NEW n \in Nat, n <= Len(p.buf), n <= p.m_bytes_needed
  PROVE  Grown(Appended(p.data, n), p.data, Joined(Before(p).open, This(p)).op,
               Earlier(Before(p).open), n)
<1>1. /\ p \in ProcessorRecord /\ AcceptedInv(p) /\ Got(p) \in Nat
      /\ OnFrame(p, HeaderLen(This(p)) + Got(p)) /\ p.m_bytes_needed <= This(p).size
      /\ p.current \in DOMAIN p.frames /\ This(p) \in Frames /\ F = This(p)
  BY PayloadFacts
<1>2. UnderWay(p.data, Joined(Before(p).open, This(p)).op, Earlier(Before(p).open), p)
  BY DEF InData
<1>3. p.data \in Message
  BY <1>1, RecordFields
<1>4. Before(p).open \in Open
  BY <1>1, ThisFrame, AfterFrameType
<1>5. Earlier(Before(p).open) \in Seq(Byte)
  BY <1>1, <1>4, JoinedType
<1> QED BY <1>1, <1>2, <1>3, <1>5, AppendedOK

\* A data frame's payload, or more of it, which may end the frame.
LEMMA PayloadDataOK ==
  ASSUME ProcessorInv(p), Payload, InData(p)
  PROVE  ProcessorInv(p')
<1>1. p.m_state = "APPLICATION" /\ p.ec = "none"
  BY DEF Payload, Turn
<1>2. /\ p \in ProcessorRecord /\ LimitsInv(p) /\ AcceptedInv(p)
      /\ p.m_bytes_needed \in Nat /\ p.m_bytes_needed <= This(p).size
      /\ This(p).size \in Nat /\ Got(p) \in Nat
      /\ p.current \in Nat /\ OnFrame(p, HeaderLen(This(p)) + Got(p))
      /\ p.current \in DOMAIN p.frames /\ This(p) \in Frames
      /\ F = This(p) /\ Len(p.buf) \in Nat
  BY <1>1, PayloadFacts
<1>3. /\ ~IsControl(This(p)) /\ p.control = NoMsg
      /\ Len(p.data.out) + p.m_bytes_needed <= m_max_message_size \/ p.wrapped
      /\ Clean(p) =>
           /\ p.data.op = This(p).op
           /\ p.data.validator = IF p.data.op = "text"
                                 THEN decode(utf8_accept, This(p).bytes)[Got(p)]
                                 ELSE utf8_accept
      /\ UnderWay(p.data, Joined(Before(p).open, This(p)).op, Earlier(Before(p).open), p)
  BY DEF InData
<1> PICK f \in Frames : f = This(p)
  BY <1>2
<1> PICK open \in Open : open = Before(p).open
  BY <1>2, ThisFrame, AfterFrameType
<1> PICK m \in Message : m = p.data
  BY <1>2, RecordFields
<1> PICK op : op = Joined(open, f).op
  OBVIOUS
<1> PICK earlier \in Seq(Byte) : earlier = Earlier(open)
  BY JoinedType
<1> PICK n : n = AtMost(p.m_bytes_needed)
  OBVIOUS
<1>4. n \in Nat /\ n <= Len(p.buf) /\ n <= p.m_bytes_needed
  BY <1>2 DEF AtMost
<1> PICK x : x = Appended(m, n)
  OBVIOUS
<1> PICK g \in Nat : g = Got(p)
  BY <1>2
<1> PICK needed \in Nat : needed = p.m_bytes_needed
  BY <1>2
<1>5. Grown(x, m, op, earlier, n)
  BY <1>1, <1>4, PayloadDataGrown
<1>6. /\ x \in Message /\ x.op = op /\ x.frame = p.current
      /\ x.phase = (g + n) % 4 /\ x.out = earlier \o SubSeq(f.bytes, 1, g + n)
      /\ Len(x.out) = Len(m.out) + n /\ Len(m.out) \in Nat
      /\ f.bytes \in Seq(Byte) /\ g + n <= Len(f.bytes)
      /\ op # "text" => x.validator = m.validator
      /\ op = "text" /\ m.validator = decode(utf8_accept, f.bytes)[g] =>
           x.validator = decode(utf8_accept, f.bytes)[g + n]
  BY ONLY <1>5, f = This(p), g = Got(p) DEF Grown
<1>7. m.op = op
  BY <1>3 DEF UnderWay
<1>8. ASSUME Clean(p)
      PROVE  /\ x.op = f.op
             /\ x.validator = IF x.op = "text"
                              THEN decode(utf8_accept, f.bytes)[g + n] ELSE utf8_accept
  <2>1. /\ op = f.op
        /\ m.validator = IF op = "text" THEN decode(utf8_accept, f.bytes)[g]
                                        ELSE utf8_accept
    BY <1>3, <1>7, <1>8
  <2> QED BY ONLY <1>6, <2>1
<1>9. ASSUME Clean(p)
      PROVE  /\ f.fin /\ f.size = Len(f.bytes)
             /\ f.op = "text" => decode(utf8_accept, f.bytes)[Len(f.bytes)] = utf8_accept
  BY <1>2, <1>9, CleanThis DEF validate
<1> PICK t : t = Take(n)
  OBVIOUS
<1>10. /\ t \in ProcessorRecord
       /\ t.frames = p.frames /\ t.wire = p.wire /\ t.server = p.server
       /\ t.m_state = p.m_state /\ t.m_bytes_needed = needed - n
       /\ t.current = p.current /\ t.data = p.data /\ t.control = p.control
       /\ t.delivered = p.delivered /\ t.ec = p.ec /\ t.alone = p.alone
       /\ t.wrapped = p.wrapped
  BY <1>2, <1>4, TakeFields
<1> PICK d : d = [t EXCEPT !.data = x]
  OBVIOUS
<1>11. /\ d \in ProcessorRecord /\ d.frames = t.frames /\ d.wire = t.wire
       /\ d.buf = t.buf /\ d.server = t.server /\ d.m_state = t.m_state
       /\ d.m_bytes_needed = t.m_bytes_needed /\ d.current = t.current
       /\ d.data = x /\ d.control = t.control /\ d.delivered = t.delivered
       /\ d.ec = t.ec /\ d.alone = t.alone /\ d.wrapped = t.wrapped
  BY ONLY <1>6, <1>10, d = [t EXCEPT !.data = x] DEF ProcessorRecord
<1> PICK q : q = p'
  OBVIOUS
<1>12. q = IF x.validator = utf8_reject THEN [d EXCEPT !.ec = "utf8"]
           ELSE IF d.m_bytes_needed > 0 THEN d ELSE EndFrame(d)
  <2>1. Current(p) = m /\ WithCurrent(t, x) = d
    BY <1>2, <1>3 DEF Current, WithCurrent
  <2> QED BY <2>1, Zenon DEF Payload
<1> PICK o : o = p
  OBVIOUS
<1>13. needed - n \in Nat /\ d.m_bytes_needed = needed - n
  BY <1>4, <1>10, <1>11
<1>14. Len(x.out) <= m_max_message_size \/ p.wrapped
  <2> PICK length \in Nat : length = Len(m.out)
    BY <1>6
  <2>1. length + needed <= m_max_message_size \/ p.wrapped
    BY <1>3
  <2>2. Len(x.out) = length + n /\ n <= needed /\ n \in Nat
    BY <1>4, <1>6
  <2> QED BY ONLY <2>1, <2>2, length \in Nat, needed \in Nat, Limits
<1>15. LimitsInv(d)
  BY <1>2, <1>3, <1>10, <1>11, <1>14 DEF LimitsInv
<1>16. AcceptedInv(d)
  <2>1. Clean(d) = Clean(o)
    BY <1>10, <1>11, SameFrames
  <2> QED BY <1>2, <1>10, <1>11, <2>1 DEF AcceptedInv
<1>17. Got(d) = g + n /\ d.m_bytes_needed <= This(d).size
       /\ OnFrame(d, HeaderLen(This(d)) + Got(d))
  <2>1. /\ d.frames = p.frames /\ d.buf = Take(n).buf /\ d.wire = Take(n).wire
        /\ d.delivered = p.delivered /\ d.ec = "none" /\ d.current = p.current
        /\ d.m_bytes_needed = p.m_bytes_needed - n
    BY <1>1, <1>10, <1>11
  <2>2. /\ Got(d) = Got(p) + n /\ d.m_bytes_needed <= This(d).size
        /\ OnFrame(d, HeaderLen(This(d)) + Got(d))
    BY <1>2, <1>4, <2>1, PayloadLeft
  <2> QED BY <2>2
<1>18. This(d) = f /\ Before(d) = Before(o) /\ Now(d) = Now(o) /\ Clean(d) = Clean(o)
  BY <1>10, <1>11, SameFrames
<1>19. ASSUME q = [d EXCEPT !.ec = "utf8"], ~Clean(p)
       PROVE  ProcessorInv(q)
  <2>1. /\ q \in ProcessorRecord /\ q.frames = d.frames /\ q.delivered = d.delivered
        /\ q.ec = "utf8" /\ q.m_state = d.m_state /\ q.alone = d.alone
        /\ q.server = d.server /\ q.data = d.data /\ q.control = d.control
        /\ q.wrapped = d.wrapped /\ q.current = d.current
    BY ONLY <1>11, <1>19 DEF ProcessorRecord
  <2>2. LimitsInv(q)
    <3>1. This(q) = This(d)
      BY <2>1, SameFrames
    <3> QED BY <1>15, <2>1, <3>1 DEF LimitsInv
  <2>3. /\ q.frames = p.frames /\ q.delivered = p.delivered
        /\ q.m_state # "READY" /\ q.alone = p.alone /\ q.server = p.server
        /\ q.current = p.current
    BY <1>1, <1>10, <1>11, <2>1
  <2> QED BY <1>2, <1>19, <2>1, <2>2, <2>3, RefusedOK
<1>20. CASE x.validator = utf8_reject
  <2>1. q = [d EXCEPT !.ec = "utf8"]
    BY <1>12, <1>20
  <2>2. ~Clean(p)
    <3> SUFFICES ASSUME Clean(p) PROVE FALSE
      OBVIOUS
    <3>1. utf8_reject = 1 /\ utf8_accept = 0 /\ utf8_accept \in 0..8
      BY DEF utf8_reject, utf8_accept
    <3>2. f.op = "text" /\ decode(utf8_accept, f.bytes)[g + n] = 1
      BY <1>8, <1>20, <3>1
    <3> PICK bytes \in Seq(Byte) : bytes = f.bytes
      BY <1>6
    <3> PICK k \in 0..Len(bytes) : k = g + n
      BY <1>4, <1>6
    <3>3. decode(utf8_accept, bytes)[k] = 1
      BY <3>2
    <3>4. decode(utf8_accept, bytes)[Len(bytes)] = 1
      BY ONLY <3>1, <3>3, DecodeRejects
    <3> QED BY <1>9, <3>1, <3>2, <3>4
  <2> QED BY <1>19, <2>1, <2>2
<1>21. ASSUME NEW q2 \in ProcessorRecord, q2.frames = d.frames, q2.wire = d.wire,
              q2.buf = d.buf, q2.server = d.server, q2.m_bytes_needed = d.m_bytes_needed,
              q2.current = d.current, q2.data = d.data, q2.control = d.control,
              q2.delivered = d.delivered, q2.ec = d.ec, q2.alone = d.alone,
              q2.wrapped = d.wrapped,
              \/ q2.m_state = "APPLICATION"
              \/ q2.m_state = "READY" /\ needed - n = 0 /\ f.fin
       PROVE  ProcessorInv(q2)
  <2>1. /\ q2 \in ProcessorRecord /\ q2.frames = d.frames /\ q2.wire = d.wire
        /\ q2.buf = d.buf /\ q2.server = d.server
        /\ q2.m_bytes_needed = d.m_bytes_needed /\ q2.current = d.current
        /\ q2.data = d.data /\ q2.control = d.control /\ q2.delivered = d.delivered
        /\ q2.ec = d.ec /\ q2.alone = d.alone /\ q2.wrapped = d.wrapped
    BY <1>21
  <2>2. This(q2) = f /\ Before(q2) = Before(o) /\ Clean(q2) = Clean(o) /\ Got(q2) = Got(d)
    <3>1. This(q2) = This(d) /\ Before(q2) = Before(d) /\ Clean(q2) = Clean(d)
      BY <2>1, SameFrames
    <3> QED BY <1>18, <2>1, <3>1 DEF Got
  <2>3. OnFrame(q2, HeaderLen(This(q2)) + Got(q2))
    <3>1. Before(q2) = Before(d) /\ All(q2) = All(d) /\ \A i : Upto(q2, i) = Upto(d, i)
      BY ONLY <2>1 DEF Before, All, Upto
    <3>2. OnFrame(d, HeaderLen(f) + Got(d)) /\ This(q2) = f /\ Got(q2) = Got(d)
      BY <1>17, <1>18, <2>2
    <3> QED BY ONLY <2>1, <3>1, <3>2 DEF OnFrame
  <2>4. InPayload(q2)
    BY <1>2, <1>10, <1>11, <1>13, <1>17, <1>18, <1>21, <2>1, <2>2, <2>3 DEF InPayload
  <2>5. UnderWay(q2.data, op, earlier, q2)
    <3>1. /\ x.op = op /\ x.out = earlier \o SubSeq(f.bytes, 1, Got(q2))
          /\ x.frame = q2.current /\ x.phase = Got(q2) % 4 /\ This(q2).bytes = f.bytes
      BY <1>6, <1>10, <1>11, <1>17, <2>1, <2>2
    <3>2. q2.data = x
      BY <1>11, <2>1
    <3> QED BY ONLY <3>1, <3>2 DEF UnderWay
  <2>6. Len(q2.data.out) + q2.m_bytes_needed <= m_max_message_size \/ q2.wrapped
    <3> PICK length \in Nat : length = Len(m.out)
      BY <1>6
    <3>1. length + needed <= m_max_message_size \/ q2.wrapped
      BY <1>3, <1>10, <1>11, <2>1
    <3>2. /\ Len(q2.data.out) = length + n /\ q2.m_bytes_needed = needed - n
          /\ n <= needed /\ n \in Nat
      BY <1>4, <1>6, <1>11, <1>13, <2>1
    <3> QED BY ONLY <3>1, <3>2, length \in Nat, needed \in Nat, Limits
  <2>7. Clean(q2) =>
           /\ q2.data.op = This(q2).op
           /\ q2.data.validator = IF q2.data.op = "text"
                                  THEN decode(utf8_accept, This(q2).bytes)[Got(q2)]
                                  ELSE utf8_accept
    BY <1>8, <1>11, <1>17, <2>1, <2>2
  <2>8. InData(q2)
    BY <1>3, <1>10, <1>11, <1>21, <2>1, <2>2, <2>4, <2>5, <2>6, <2>7 DEF InData
  <2>9. LimitsInv(q2) /\ AcceptedInv(q2)
    <3>1. This(q2) = This(d) /\ Clean(q2) = Clean(d)
      BY <2>1, SameFrames
    <3> QED BY <1>15, <1>16, <2>1, <3>1 DEF LimitsInv, AcceptedInv
  <2> QED BY <2>1, <2>8, <2>9 DEF ProcessorInv, PhaseInv
<1>22. CASE x.validator # utf8_reject /\ d.m_bytes_needed > 0
  <2>1. q = d
    BY <1>12, <1>22
  <2>2. d \in ProcessorRecord /\ d.m_state = "APPLICATION"
    BY <1>1, <1>10, <1>11
  <2>3. ProcessorInv(d)
    BY <1>21, <2>2
  <2> QED BY <2>1, <2>3
<1>23. CASE x.validator # utf8_reject /\ ~(d.m_bytes_needed > 0)
  <2>1. needed - n = 0 /\ q = EndFrame(d)
    BY <1>12, <1>13, <1>23
  <2>2. g + n = f.size /\ g + n = Len(f.bytes)
    <3>1. f.size \in Nat /\ Len(f.bytes) \in Nat /\ Len(f.bytes) <= f.size
      BY FrameFields
    <3>2. g = f.size - needed
      BY DEF Got
    <3> PICK size \in Nat : size = f.size
      BY <3>1
    <3> PICK whole \in Nat : whole = Len(f.bytes)
      BY <3>1
    <3>3. g = size - needed /\ n \in Nat /\ needed - n = 0 /\ g + n <= whole /\ whole <= size
      BY <1>4, <1>6, <2>1, <3>1, <3>2
    <3>4. g + n = size /\ g + n = whole
      BY ONLY <3>3, g \in Nat, needed \in Nat, size \in Nat, whole \in Nat
    <3> QED BY <3>4
  <2>3. CASE ~f.fin
    <3> PICK e : e = reset_headers(d)
      OBVIOUS
    <3>1. q = e
      BY <1>2, <2>1, <2>3 DEF EndFrame
    <3>2. /\ q \in ProcessorRecord /\ q.frames = d.frames /\ q.wire = d.wire
          /\ q.buf = d.buf /\ q.server = d.server /\ q.m_state = "HEADER_BASIC"
          /\ q.m_bytes_needed = 2 /\ q.current = d.current
          /\ q.data = d.data /\ q.control = d.control /\ q.delivered = d.delivered
          /\ q.ec = d.ec /\ q.alone = d.alone /\ q.wrapped = d.wrapped
      BY ONLY <1>11, <3>1, e = reset_headers(d) DEF ProcessorRecord, reset_headers
    <3>3. ~Clean(o)
      BY <1>9, <2>3
    <3>4. Left(q.buf, q.wire, All(q), Upto(q, q.current))
      <4>1. Left(d.buf, d.wire, All(d), Upto(d, d.current))
        <5>1. /\ d \in ProcessorRecord /\ AcceptedInv(d) /\ d.m_bytes_needed = 0
              /\ OnFrame(d, HeaderLen(This(d)) + Got(d))
          BY <1>11, <1>13, <1>16, <1>17, <2>1
        <5> QED BY ONLY <5>1, WholeFrameRead
      <4>2. All(q) = All(d) /\ Upto(q, q.current) = Upto(d, d.current)
        BY ONLY <3>2 DEF All, Upto
      <4> QED BY <3>2, <4>1, <4>2
    <3>5. /\ Now(q).open = <<Joined(open, f)>> /\ Now(q).messages = Before(o).messages
      <4>1. Now(o) = AfterFrame(Before(o), f) /\ Before(o) \in Account
        BY <1>2, ThisFrame
      <4>2. Now(q) = Now(o)
        BY <1>10, <1>11, <3>2, SameFrames
      <4> PICK a \in Account : a = Before(o)
        BY <4>1
      <4>3. ~IsControl(f) /\ ~f.fin /\ open = a.open
        BY <1>3, <2>3
      <4>4. /\ AfterFrame(a, f).open = <<Joined(a.open, f)>>
            /\ AfterFrame(a, f).messages = a.messages
        BY ONLY <4>3, AfterFrameType
      <4> QED BY <4>1, <4>2, <4>3, <4>4
    <3>6. OpenIs(q.data, Now(q).open)
      <4>1. Joined(open, f).out = earlier \o f.bytes
        BY JoinedType
      <4>2. x.out = earlier \o f.bytes
        <5> PICK bytes \in Seq(Byte) : bytes = f.bytes
          BY <1>6
        <5>1. SubSeq(bytes, 1, Len(bytes)) = bytes
          BY SubSeqFull
        <5> QED BY <1>6, <2>2, <5>1
      <4>3. <<Joined(open, f)>> # <<>> /\ <<Joined(open, f)>>[1] = Joined(open, f)
        OBVIOUS
      <4>4. q.data = x /\ x.op = Joined(open, f).op
        BY <1>6, <1>11, <3>2
      <4> QED BY ONLY <3>5, <4>1, <4>2, <4>3, <4>4 DEF OpenIs
    <3>7. Clean(q) = Clean(o)
      BY <1>10, <1>11, <3>2, SameFrames
    <3>8. q.delivered = Before(o).messages
      BY <1>2, <1>10, <1>11, <3>2 DEF OnFrame
    <3>11. q.current \in 0..Len(q.frames)
      <4>1. q.current \in DOMAIN q.frames /\ q.frames \in Seq(Frames)
        BY <1>2, <1>10, <1>11, <3>2, RecordFields
      <4> QED BY ONLY <4>1
    <3>9. Between(q)
      <4>1. Now(q).messages = q.delivered /\ q.control = NoMsg /\ q.ec = "none"
        BY <1>1, <1>3, <1>10, <1>11, <3>2, <3>5, <3>8
      <4>2. Untouched(q, Now(q).open)
        BY <3>3, <3>6, <3>7 DEF Untouched
      <4> QED BY <3>2, <3>4, <3>11, <4>1, <4>2 DEF Between
    <3>10. LimitsInv(q) /\ AcceptedInv(q)
      <4>1. This(q) = This(d) /\ Clean(q) = Clean(d)
        BY <3>2, SameFrames
      <4> QED BY <1>15, <1>16, <3>2, <4>1 DEF LimitsInv, AcceptedInv
    <3> QED BY <3>2, <3>9, <3>10 DEF ProcessorInv, PhaseInv
  <2>4. CASE f.fin /\ f.op = "text" /\ d.data.validator # utf8_accept
    <3>1. q = [d EXCEPT !.ec = "utf8"]
      BY <1>2, <2>1, <2>4 DEF EndFrame
    <3>2. ~Clean(p)
      BY <1>8, <1>9, <1>11, <2>2, <2>4
    <3> QED BY <1>19, <3>1, <3>2
  <2>5. CASE f.fin /\ ~(f.op = "text" /\ d.data.validator # utf8_accept)
    <3>1. q = [d EXCEPT !.m_state = "READY"]
      BY <1>2, <2>1, <2>5 DEF EndFrame
    <3>2. /\ q \in ProcessorRecord /\ q.frames = d.frames /\ q.wire = d.wire
          /\ q.buf = d.buf /\ q.server = d.server /\ q.m_state = "READY"
          /\ q.m_bytes_needed = d.m_bytes_needed /\ q.current = d.current
          /\ q.data = d.data /\ q.control = d.control /\ q.delivered = d.delivered
          /\ q.ec = d.ec /\ q.alone = d.alone /\ q.wrapped = d.wrapped
      BY ONLY <1>11, <3>1 DEF ProcessorRecord
    <3> QED BY <1>21, <2>1, <2>5, <3>2
  <2>6. f.fin \in BOOLEAN
    BY FrameFields
  <2> QED BY <2>3, <2>4, <2>5, <2>6
<1> QED BY <1>20, <1>22, <1>23

\* process_payload_bytes() and what follows it.
LEMMA PayloadOK ==
  ASSUME ProcessorInv(p), Payload
  PROVE  ProcessorInv(p')
<1>1. p.m_state = "APPLICATION" /\ p.ec = "none"
  BY DEF Payload, Turn
<1>2. InControl(p) \/ InData(p)
  BY <1>1, PayloadFacts
<1> QED BY <1>2, PayloadControlOK, PayloadDataOK

-----------------------------------------------------------------------------
(* A message handed over, and every step.                                  *)

\* The message of a whole frame is handed over as it is.
LEMMA GetMessageOK ==
  ASSUME ProcessorInv(p), GetMessage
  PROVE  ProcessorInv(p')
<1>1. p.m_state = "READY"
  BY DEF GetMessage
<1>2. p.ec = "none" /\ p.m_bytes_needed = 0
  <2>1. InControl(p) \/ InData(p)
    BY <1>1 DEF ProcessorInv, PhaseInv, Between, InBasic, InExtended, Refused
  <2> QED BY <1>1, <2>1 DEF InControl, InData, InPayload, OnFrame
<1>3. /\ p \in ProcessorRecord /\ LimitsInv(p) /\ AcceptedInv(p)
      /\ InControl(p) \/ InData(p)
      /\ p.current \in Nat /\ OnFrame(p, HeaderLen(This(p)) + Got(p))
      /\ p.current \in DOMAIN p.frames /\ This(p) \in Frames
      /\ F = This(p)
  BY <1>1, <1>2, PayloadFacts
<1> PICK f \in Frames : f = This(p)
  BY <1>3
<1> PICK o : o = p
  OBVIOUS
<1> PICK m \in Message : m = Current(p)
  BY <1>3, RecordFields DEF Current
<1> PICK a \in Account : a = Before(p)
  BY <1>3, ThisFrame
<1>4. /\ Left(p.buf, p.wire, All(p), Upto(p, p.current))
      /\ SubSeq(f.bytes, 1, Got(p)) = f.bytes
      /\ p.delivered = a.messages
  BY <1>2, <1>3, WholeFrameRead DEF OnFrame
<1>5. /\ Now(p) = AfterFrame(a, f) /\ a.open \in Open /\ a.messages \in Seq(Delivery)
      /\ f.op \in Opcodes /\ f.bytes \in Seq(Byte)
  BY <1>3, ThisFrame, AfterFrameType, FrameFields
<1> PICK message : message = [op |-> m.op, out |-> m.out]
  OBVIOUS
<1> PICK handed : handed = Append(a.messages, message)
  OBVIOUS
<1> PICK t : t = [reset_headers(p) EXCEPT !.delivered = handed]
  OBVIOUS
<1>6. p' = WithCurrent(t, NoMsg)
  <2> PICK r : r = reset_headers(p)
    OBVIOUS
  <2>1. r = [p EXCEPT !.m_state = "HEADER_BASIC", !.m_bytes_needed = 2]
    BY DEF reset_headers
  <2>2. r.delivered = a.messages
    BY ONLY <1>3, <1>4, <2>1 DEF ProcessorRecord
  <2>3. p' = WithCurrent([r EXCEPT !.delivered = Append(@, message)], NoMsg)
    BY Zenon DEF GetMessage
  <2> QED BY ONLY <2>2, <2>3, t = [r EXCEPT !.delivered = handed],
                  handed = Append(a.messages, message)
<1>7. ASSUME message \in Delivery
      PROVE  /\ t \in ProcessorRecord /\ t.frames = p.frames /\ t.wire = p.wire
             /\ t.buf = p.buf /\ t.server = p.server /\ t.m_state = "HEADER_BASIC"
             /\ t.m_bytes_needed = 2 /\ t.current = p.current
             /\ t.data = p.data /\ t.control = p.control /\ t.delivered = handed
             /\ t.ec = p.ec /\ t.alone = p.alone /\ t.wrapped = p.wrapped
  <2>1. handed \in Seq(Delivery)
    BY <1>5, <1>7
  <2>2. t = [[p EXCEPT !.m_state = "HEADER_BASIC", !.m_bytes_needed = 2]
               EXCEPT !.delivered = handed]
    BY DEF reset_headers
  <2>3. p \in ProcessorRecord
    BY <1>3
  <2> QED BY ONLY <2>1, <2>2, <2>3 DEF ProcessorRecord
<1>8. NoMsg \in Message /\ NoMsg.out = <<>> /\ NoMsg.validator = utf8_accept
  <2>1. <<>> \in Seq(Byte)
    OBVIOUS
  <2> QED BY <2>1 DEF NoMsg, Message, utf8_accept
<1>9. Len(<<>>) = 0 /\ 0 <= Basic /\ 0 <= m_max_message_size
  BY Limits
<1> PICK q : q = p'
  OBVIOUS
<1>10. CASE InControl(p)
  <2>1. /\ IsControl(f) /\ f.fin /\ Untouched(p, a.open) /\ m = p.control
        /\ UnderWay(m, f.op, <<>>, p)
    BY <1>3, <1>10 DEF InControl, Current
  <2>2. m.op = f.op /\ m.out = <<>> \o f.bytes
    BY <1>4, <2>1 DEF UnderWay
  <2>3. <<>> \o f.bytes = f.bytes
    BY <1>5
  <2>4. message = [op |-> f.op, out |-> f.bytes] /\ message \in Delivery
    BY <1>5, <2>2, <2>3 DEF Delivery
  <2>5. q = [t EXCEPT !.control = NoMsg]
    BY <1>3, <1>6, <2>1 DEF WithCurrent
  <2>6. /\ t \in ProcessorRecord /\ t.frames = p.frames /\ t.wire = p.wire
        /\ t.buf = p.buf /\ t.server = p.server /\ t.m_state = "HEADER_BASIC"
        /\ t.m_bytes_needed = 2 /\ t.current = p.current
        /\ t.data = p.data /\ t.control = p.control /\ t.delivered = handed
        /\ t.ec = p.ec /\ t.alone = p.alone /\ t.wrapped = p.wrapped
    BY <1>7, <2>4
  <2>7. /\ q \in ProcessorRecord /\ q.frames = t.frames /\ q.wire = t.wire
        /\ q.buf = t.buf /\ q.server = t.server /\ q.m_state = t.m_state
        /\ q.m_bytes_needed = t.m_bytes_needed /\ q.current = t.current
        /\ q.data = t.data /\ q.control = NoMsg /\ q.delivered = t.delivered
        /\ q.ec = t.ec /\ q.alone = t.alone /\ q.wrapped = t.wrapped
    BY ONLY <1>8, <2>5, <2>6 DEF ProcessorRecord
  <2>8. Now(q) = Now(o) /\ Clean(q) = Clean(o)
    BY <2>6, <2>7, SameFrames
  <2>9. AfterFrame(a, f).open = a.open /\ AfterFrame(a, f).messages = handed
    BY <2>1, <2>4, AfterFrameType
  <2>10. Between(q)
    <3>1. /\ q.ec = "none" /\ q.m_state = "HEADER_BASIC" /\ q.m_bytes_needed = 2
          /\ q.control = NoMsg
      BY <1>2, <1>4, <2>6, <2>7
    <3>2. q.delivered = Now(q).messages /\ Now(q).open = a.open
      BY <1>5, <2>6, <2>7, <2>8, <2>9
    <3>3. Untouched(q, a.open)
      <4>1. q.data = p.data
        BY <2>6, <2>7
      <4> QED BY <2>1, <2>8, <4>1 DEF Untouched
    <3>4. q.current \in 0..Len(q.frames)
      <4>1. q.current \in DOMAIN q.frames /\ q.frames \in Seq(Frames)
        BY <1>3, <2>6, <2>7, RecordFields
      <4> QED BY ONLY <4>1
    <3>5. Left(q.buf, q.wire, All(q), Upto(q, q.current))
      <4>1. All(q) = All(o) /\ Upto(q, q.current) = Upto(o, o.current)
        BY <2>6, <2>7, SameFrames
      <4>2. q.buf = o.buf /\ q.wire = o.wire
        BY <2>6, <2>7
      <4> QED BY <1>4, <4>1, <4>2
    <3> QED BY ONLY <3>1, <3>2, <3>3, <3>4, <3>5 DEF Between
  <2>11. LimitsInv(q)
    BY <1>3, <1>8, <1>9, <2>6, <2>7 DEF LimitsInv
  <2>12. AcceptedInv(q)
    BY <1>3, <2>6, <2>7, <2>8 DEF AcceptedInv
  <2> QED BY <2>7, <2>10, <2>11, <2>12 DEF ProcessorInv, PhaseInv
<1>11. CASE InData(p)
  <2> PICK open \in Open : open = a.open
    BY <1>5
  <2>1. /\ ~IsControl(f) /\ f.fin /\ p.control = NoMsg /\ m = p.data
        /\ UnderWay(m, Joined(open, f).op, Earlier(open), p)
    BY <1>1, <1>3, <1>11 DEF InData, Current
  <2>2. m.op = Joined(open, f).op /\ m.out = Earlier(open) \o f.bytes
    BY <1>4, <2>1 DEF UnderWay
  <2>3. Joined(open, f) \in Delivery /\ Joined(open, f).out = Earlier(open) \o f.bytes
    BY JoinedType
  <2>4. message = Joined(open, f) /\ message \in Delivery
    <3> PICK whole \in Delivery : whole = Joined(open, f)
      BY <2>3
    <3>1. whole = [op |-> whole.op, out |-> whole.out]
      BY DEF Delivery
    <3> QED BY <2>2, <2>3, <3>1
  <2>5. q = [t EXCEPT !.data = NoMsg]
    BY <1>3, <1>6, <2>1 DEF WithCurrent
  <2>6. /\ t \in ProcessorRecord /\ t.frames = p.frames /\ t.wire = p.wire
        /\ t.buf = p.buf /\ t.server = p.server /\ t.m_state = "HEADER_BASIC"
        /\ t.m_bytes_needed = 2 /\ t.current = p.current
        /\ t.data = p.data /\ t.control = p.control /\ t.delivered = handed
        /\ t.ec = p.ec /\ t.alone = p.alone /\ t.wrapped = p.wrapped
    BY <1>7, <2>4
  <2>7. /\ q \in ProcessorRecord /\ q.frames = t.frames /\ q.wire = t.wire
        /\ q.buf = t.buf /\ q.server = t.server /\ q.m_state = t.m_state
        /\ q.m_bytes_needed = t.m_bytes_needed /\ q.current = t.current
        /\ q.data = NoMsg /\ q.control = t.control /\ q.delivered = t.delivered
        /\ q.ec = t.ec /\ q.alone = t.alone /\ q.wrapped = t.wrapped
    BY ONLY <1>8, <2>5, <2>6 DEF ProcessorRecord
  <2>8. Now(q) = Now(o) /\ Clean(q) = Clean(o)
    BY <2>6, <2>7, SameFrames
  <2>9. AfterFrame(a, f).open = <<>> /\ AfterFrame(a, f).messages = handed
    <3>1. /\ AfterFrame(a, f).open = <<>>
          /\ AfterFrame(a, f).messages = Append(a.messages, Joined(a.open, f))
      BY ONLY <2>1, AfterFrameType
    <3> QED BY <2>4, <3>1
  <2>10. Between(q)
    <3>1. /\ q.ec = "none" /\ q.m_state = "HEADER_BASIC" /\ q.m_bytes_needed = 2
          /\ q.control = NoMsg
      BY <1>2, <1>4, <2>1, <2>6, <2>7
    <3>2. q.delivered = Now(q).messages /\ Now(q).open = <<>>
      BY <1>5, <2>6, <2>7, <2>8, <2>9
    <3>3. Untouched(q, <<>>)
      BY <2>7 DEF Untouched, OpenIs
    <3>4. q.current \in 0..Len(q.frames)
      <4>1. q.current \in DOMAIN q.frames /\ q.frames \in Seq(Frames)
        BY <1>3, <2>6, <2>7, RecordFields
      <4> QED BY ONLY <4>1
    <3>5. Left(q.buf, q.wire, All(q), Upto(q, q.current))
      <4>1. All(q) = All(o) /\ Upto(q, q.current) = Upto(o, o.current)
        BY <2>6, <2>7, SameFrames
      <4>2. q.buf = o.buf /\ q.wire = o.wire
        BY <2>6, <2>7
      <4> QED BY <1>4, <4>1, <4>2
    <3> QED BY ONLY <3>1, <3>2, <3>3, <3>4, <3>5 DEF Between
  <2>11. LimitsInv(q)
    BY <1>3, <1>8, <1>9, <2>1, <2>6, <2>7 DEF LimitsInv
  <2>12. AcceptedInv(q)
    BY <1>3, <2>6, <2>7, <2>8 DEF AcceptedInv
  <2> QED BY <2>7, <2>10, <2>11, <2>12 DEF ProcessorInv, PhaseInv
<1> QED BY <1>3, <1>10, <1>11

\* Every step keeps the invariant.
LEMMA HyStepOK == HyInv /\ [Hybi13Next]_p => HyInv'
<1> SUFFICES ASSUME HyInv, [Hybi13Next]_p PROVE HyInv'
  OBVIOUS
<1>1. ProcessorInv(p)
  BY DEF HyInv
<1> SUFFICES ProcessorInv(p')
  BY DEF HyInv, ProcessorInv, LimitsInv, AcceptedInv, PhaseInv, Between, InBasic,
         InExtended, InControl, InData, Refused, InPayload, OnFrame, Untouched, OpenIs,
         UnderWay, Clean, Left, Before, Now, This, Got, Earlier, All, Upto
<1>2. CASE ChooseRole
  BY <1>1, <1>2, ChooseRoleOK
<1>3. ASSUME NEW f \in Raw, PeerSends(f, FALSE) PROVE ProcessorInv(p')
  BY <1>1, <1>3, PeerSendsOK, Hybi13Assumption
<1>4. ASSUME NEW f \in Prepared(~p.server), PeerSends(f, TRUE) PROVE ProcessorInv(p')
  <2>1. p.server \in BOOLEAN
    BY <1>1 DEF ProcessorInv, ProcessorRecord
  <2> PICK server \in BOOLEAN : server = ~p.server
    OBVIOUS
  <2>2. f \in Frames
    BY PreparedFrame
  <2> QED BY <1>1, <1>4, <2>2, PeerSendsOK
<1>5. ASSUME NEW n \in PieceSizes, Read(n) PROVE ProcessorInv(p')
  BY <1>1, <1>5, ReadOK, Hybi13Assumption
<1>6. CASE BasicHeader
  BY <1>1, <1>6, BasicHeaderOK
<1>7. CASE ExtendedHeader
  BY <1>1, <1>7, ExtendedHeaderOK
<1>8. CASE Payload
  BY <1>1, <1>8, PayloadOK
<1>9. CASE GetMessage
  BY <1>1, <1>9, GetMessageOK
<1>10. CASE UNCHANGED p
  BY <1>1, <1>10
<1> QED BY <1>2, <1>3, <1>4, <1>5, <1>6, <1>7, <1>8, <1>9, <1>10 DEF Hybi13Next

-----------------------------------------------------------------------------
(* What the invariant gives.                                               *)

\* A frame makes one more message of an account, or none.
LEMMA AfterFrameGrows ==
  ASSUME NEW a \in Account, NEW f \in Frames
  PROVE  \/ AfterFrame(a, f).messages = a.messages
         \/ \E e \in Delivery : AfterFrame(a, f).messages = Append(a.messages, e)
<1>1. a.open \in Open /\ f.op \in Opcodes /\ f.bytes \in Seq(Byte) /\ f.fin \in BOOLEAN
  BY AfterFrameType, FrameFields
<1>2. CASE ~f.fin
  BY <1>2, AfterFrameType
<1>3. CASE f.fin /\ IsControl(f)
  <2> PICK e : e = [op |-> f.op, out |-> f.bytes]
    OBVIOUS
  <2>1. e \in Delivery
    BY <1>1 DEF Delivery
  <2>2. AfterFrame(a, f).messages = Append(a.messages, [op |-> f.op, out |-> f.bytes])
    BY ONLY <1>3, AfterFrameType
  <2> QED BY <2>1, <2>2
<1>4. CASE f.fin /\ ~IsControl(f)
  <2> PICK e \in Delivery : e = Joined(a.open, f)
    BY <1>1, JoinedType
  <2>1. AfterFrame(a, f).messages = Append(a.messages, Joined(a.open, f))
    BY ONLY <1>4, AfterFrameType
  <2> QED BY <2>1
<1> QED BY <1>1, <1>2, <1>3, <1>4

\* What the first frames made are the first of what more of them make.
LEMMA MessagesGrow ==
  ASSUME NEW s \in Seq(Frames), NEW i \in 0..Len(s), NEW k \in i..Len(s)
  PROVE  LET first == Assembled(s)[i].messages
             all == Assembled(s)[k].messages IN
         /\ first \in Seq(Delivery) /\ Len(first) <= Len(all)
         /\ first = SubSeq(all, 1, Len(first))
<1> PICK g : g = Assembled(s)
  OBVIOUS
<1>0. Len(s) \in Nat /\ i \in Nat /\ k \in Nat /\ k \in 0..Len(s)
  OBVIOUS
<1>1. /\ \A j \in 1..Len(s) : g[j] = AfterFrame(g[j - 1], s[j])
      /\ \A j \in 0..Len(s) : g[j] \in Account
  BY AssembledExists
<1>2. \A j \in 0..Len(s) : g[j].messages \in Seq(Delivery)
  BY <1>1, AfterFrameType DEF Account
<1> PICK first \in Seq(Delivery) : first = g[i].messages
  BY <1>2
<1>3. Len(first) \in Nat
  OBVIOUS
<1> DEFINE Extends(m) == /\ Len(first) <= Len(g[m].messages)
                         /\ \A j \in 1..Len(first) : g[m].messages[j] = first[j]
           T == {m \in Nat : i + m <= Len(s) => Extends(i + m)}
<1>4. 0 \in T
  <2>1. i + 0 = i /\ Extends(i)
    BY <1>0, <1>3
  <2> QED BY <2>1
<1>5. ASSUME NEW m \in Nat, m \in T PROVE m + 1 \in T
  <2> SUFFICES ASSUME i + (m + 1) <= Len(s) PROVE Extends(i + (m + 1))
    OBVIOUS
  <2> PICK l \in Nat : l = i + m
    BY <1>0
  <2>1. i + (m + 1) = l + 1 /\ l + 1 \in 1..Len(s) /\ (l + 1) - 1 = l /\ l \in 0..Len(s)
    BY <1>0
  <2>2. Extends(l)
    BY <1>0, <1>5, <2>1
  <2>3. g[l + 1] = AfterFrame(g[l], s[l + 1]) /\ g[l] \in Account /\ s[l + 1] \in Frames
    BY <1>1, <2>1, ElementOfSeq
  <2> PICK old \in Seq(Delivery) : old = g[l].messages
    BY <1>2, <2>1
  <2>4. g[l + 1].messages = old \/ \E e \in Delivery : g[l + 1].messages = Append(old, e)
    BY <2>3, AfterFrameGrows
  <2>5. ASSUME NEW e \in Delivery, g[l + 1].messages = Append(old, e)
        PROVE  Extends(l + 1)
    <3> PICK new : new = Append(old, e)
      OBVIOUS
    <3>1. /\ Len(new) = Len(old) + 1 /\ Len(old) \in Nat
          /\ \A j \in 1..Len(old) : new[j] = old[j]
      OBVIOUS
    <3>2. Len(first) <= Len(old) /\ \A j \in 1..Len(first) : old[j] = first[j]
      BY <2>2
    <3>3. Len(first) <= Len(new) /\ \A j \in 1..Len(first) : new[j] = first[j]
      BY ONLY <1>3, <3>1, <3>2
    <3> QED BY <2>5, <3>3
  <2> QED BY <2>1, <2>2, <2>4, <2>5
<1>6. Nat \subseteq T
  <2> HIDE DEF T
  <2> QED BY <1>4, <1>5, SetInduction
<1>7. Extends(k)
  <2>1. k - i \in Nat /\ i + (k - i) = k /\ k <= Len(s)
    BY <1>0
  <2>2. k - i \in T
    BY <1>6, <2>1
  <2> QED BY <2>1, <2>2
<1> PICK all \in Seq(Delivery) : all = g[k].messages
  BY <1>0, <1>2
<1>8. /\ Len(first) <= Len(all)
      /\ \A j \in 1..Len(first) : all[j] = first[j]
  BY <1>7
<1>9. first = SubSeq(all, 1, Len(first))
  <2> PICK t : t = SubSeq(all, 1, Len(first))
    OBVIOUS
  <2>1. t \in Seq(Delivery) /\ Len(t) = Len(first) /\ \A j \in 1..Len(first) : t[j] = all[j]
    BY ONLY <1>3, <1>8, t = SubSeq(all, 1, Len(first)), all \in Seq(Delivery)
  <2>2. t = first
    BY ONLY <1>8, <2>1, first \in Seq(Delivery), SeqEqual
  <2> QED BY <2>2
<1> QED BY <1>8, <1>9

\* Where nothing is left to read between two frames, all of them were read.
LEMMA AllRead ==
  ASSUME NEW d \in ProcessorRecord, Between(d), d.buf = <<>>, d.wire = <<>>
  PROVE  d.current = Len(d.frames)
<1> PICK s \in Seq(Frames) : s = d.frames
  BY RecordFields
<1> PICK k \in 0..Len(s) : k = d.current
  BY DEF Between
<1> SUFFICES ASSUME k # Len(s) PROVE FALSE
  OBVIOUS
<1> PICK i \in 1..Len(s) : i = k + 1
  OBVIOUS
<1>1. i - 1 = k /\ i \in Nat /\ s[i] \in Frames
  BY ElementOfSeq
<1> PICK cells : cells = Cells(s[i], i)
  OBVIOUS
<1> PICK start \in Nat : start = Upto(d, k)
  BY UptoNat
<1>2. /\ Len(cells) \in Nat /\ Len(All(d)) \in Nat
      /\ start + Len(cells) <= Len(All(d))
  BY <1>1, FrameInStream, Zenon DEF Upto, All
<1>3. Len(cells) >= 2
  BY <1>1, CellCount
<1>4. Len(<<>>) + Len(<<>>) = Len(All(d)) - start /\ Len(<<>>) = 0
  BY DEF Between, Left
<1> QED BY ONLY <1>2, <1>3, <1>4, start \in Nat

\* What was delivered are the first of the messages, and all of them once every
\* frame was read.
LEMMA HyInvDelivers == HyInv => DeliversFrames
<1> SUFFICES ASSUME HyInv PROVE DeliversFrames
  OBVIOUS
<1>1. p \in ProcessorRecord /\ PhaseInv(p)
  BY DEF HyInv, ProcessorInv
<1> PICK s \in Seq(Frames) : s = p.frames
  BY <1>1, RecordFields
<1>2. Messages = Assembled(s)[Len(s)].messages /\ Len(s) \in Nat
  BY DEF Messages
<1>3. ASSUME NEW i \in 0..Len(s), p.delivered = Assembled(s)[i].messages
      PROVE  /\ Len(p.delivered) <= Len(Messages)
             /\ p.delivered = SubSeq(Messages, 1, Len(p.delivered))
  <2>1. Len(s) \in i..Len(s)
    BY <1>2
  <2> QED BY <1>2, <1>3, <2>1, MessagesGrow, Zenon
<1>4. CASE Between(p)
  <2>1. p.current \in 0..Len(s) /\ p.delivered = Assembled(s)[p.current].messages
    BY <1>4 DEF Between, Now
  <2>2. p.wire = <<>> /\ p.buf = <<>> => p.delivered = Messages
    BY <1>1, <1>2, <1>4, <2>1, AllRead
  <2> QED BY <1>3, <2>1, <2>2 DEF DeliversFrames
<1>5. CASE ~Between(p)
  <2>1. p.current \in DOMAIN p.frames /\ p.delivered = Before(p).messages
    BY <1>1, <1>5 DEF PhaseInv, InBasic, InExtended, InControl, InData, InPayload,
                      OnFrame, Refused
  <2>2. p.current - 1 \in 0..Len(s) /\ p.delivered = Assembled(s)[p.current - 1].messages
    BY <1>2, <2>1 DEF Before
  <2>3. ~(p.wire = <<>> /\ p.buf = <<>> /\ p.ec = "none" /\ p.m_state = "HEADER_BASIC")
    <3> SUFFICES ASSUME p.wire = <<>>, p.buf = <<>>, p.ec = "none",
                        p.m_state = "HEADER_BASIC"
                 PROVE  FALSE
      OBVIOUS
    <3>1. InBasic(p)
      BY <1>1, <1>5 DEF PhaseInv, InExtended, InControl, InData, InPayload, Refused
    <3> PICK start \in Nat : start = Upto(p, p.current - 1)
      BY <1>1, <2>1, ThisCells
    <3> PICK count \in Nat : count = Len(Cells(This(p), p.current))
      BY <1>1, <2>1, ThisCells
    <3>2. Len(<<>>) + Len(<<>>) = Len(All(p)) - (start + 1) /\ Len(<<>>) = 0
      BY <3>1 DEF InBasic, OnFrame, Left
    <3>3. count >= 2
      <4>1. p.current \in Nat /\ This(p) \in Frames
        BY <1>1, <2>1, ThisFrame
      <4> QED BY <4>1, CellCount
    <3>4. start + count <= Len(All(p)) /\ Len(All(p)) \in Nat
      BY <1>1, <2>1, ThisCells
    <3> QED BY ONLY <3>2, <3>3, <3>4, start \in Nat, count \in Nat
  <2> QED BY <1>3, <2>2, <2>3 DEF DeliversFrames
<1> QED BY <1>4, <1>5

\* What is known where every frame was prepared whole is what is claimed.
LEMMA HyInvAccepted == HyInv => PreparedIsAccepted
BY DEF HyInv, ProcessorInv, AcceptedInv, Clean, PreparedIsAccepted

\* The limits, as a reader of the two messages sees them.
LEMMA HyInvLimits == HyInv => WithinLimits
<1> SUFFICES ASSUME HyInv PROVE WithinLimits
  OBVIOUS
<1>1. LimitsInv(p)
  BY DEF HyInv, ProcessorInv
<1>2. ASSUME p.control.op \in Controls PROVE F.fin \/ ~IsControl(F)
  <2>1. NoMsg.op = "none"
    BY DEF NoMsg
  <2>2. "none" \notin Controls
    BY DEF Controls
  <2>3. p.control # NoMsg
    BY <1>2, <2>1, <2>2
  <2> QED BY <1>1, <2>3 DEF LimitsInv, F, This
<1> QED BY <1>1, <1>2 DEF LimitsInv, WithinLimits

\* Whatever frames a peer sends, as many ahead of what was read as it likes, and
\* wherever the reads cut them, a read with the end of one frame and the whole of
\* others among them, hybi13's consume() and get_message hand over each message
\* once, whole, in order and unmasked: what was delivered are always the first
\* messages of the frames, and all of them once nothing is left to read.
THEOREM FramesDelivered == Hybi13Spec => []DeliversFrames
<1>1. HyInv /\ [Hybi13Next]_p => HyInv'
  BY HyStepOK
<1> QED BY HyInitOK, <1>1, HyInvDelivers, PTL DEF Hybi13Spec

\* A frame that prepare_data_frame or prepare_control agreed to make is one the
\* other end's consume() accepts, save for a message longer than it allows.
THEOREM PreparedAccepted == Hybi13Spec => []PreparedIsAccepted
<1>1. HyInv /\ [Hybi13Next]_p => HyInv'
  BY HyStepOK
<1> QED BY HyInitOK, <1>1, HyInvAccepted, PTL DEF Hybi13Spec

\* No data message outgrows m_max_message_size unless a sum of lengths wrapped,
\* and no control frame its 125 bytes or is fragmented.
THEOREM LimitsKept == Hybi13Spec => []WithinLimits
<1>1. HyInv /\ [Hybi13Next]_p => HyInv'
  BY HyStepOK
<1> QED BY HyInitOK, <1>1, HyInvLimits, PTL DEF Hybi13Spec
=============================================================================
