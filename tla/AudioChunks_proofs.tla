------------------------- MODULE AudioChunks_proofs -------------------------
(***************************************************************************)
(* What becomes of the samples, for files and chunks of any length, any    *)
(* strengths and control notes, and an int of any width: while int can     *)
(* count its chunks, each sample is transformed once, in order, and the    *)
(* product is the prominent chunks.                                        *)
(***************************************************************************)
EXTENDS AudioChunks, NatSets, SequenceTheorems

\* int holds every length it can do sums with.
LEMMA IntHolds ==
  ASSUME NEW x \in Nat, x <= IntMax
  PROVE  AsInt(x) = x
BY ChunksAssumption DEF AsInt

\* A sum that wraps is a number all the same.
LEMMA IntIsInt == ASSUME NEW x \in Int PROVE AsInt(x) \in Int
BY ChunksAssumption DEF AsInt

\* How many chunks there are, and where they begin.
LEMMA ChunkCount ==
  ASSUME NEW len \in Nat
  PROVE  LET q == (len + m_chunkSize - 1) \div m_chunkSize IN
         /\ q \in Nat
         /\ \A k \in Nat : k < q => k * m_chunkSize \in Nat /\ k * m_chunkSize < len
         /\ \A k \in Nat : k >= q => k * m_chunkSize \in Nat /\ k * m_chunkSize >= len
         /\ \A k \in Nat : (k + 1) * m_chunkSize = k * m_chunkSize + m_chunkSize
<1> DEFINE c == m_chunkSize
           a == len + c - 1
           q == a \div c
<1>1. c \in Nat \ {0} /\ a \in Nat
  BY ChunksAssumption
<1> HIDE DEF a, c
<1>2. q \in Nat /\ q * c <= a /\ a < q * c + c
  BY <1>1
<1> HIDE DEF q
<1>3. ASSUME NEW k \in Nat, k < q PROVE k * c \in Nat /\ (k + 1) * c <= q * c
  BY <1>1, <1>2, <1>3
<1>4. ASSUME NEW k \in Nat, k >= q PROVE k * c \in Nat /\ k * c >= q * c
  BY <1>1, <1>2, <1>4
<1>5. ASSUME NEW k \in Nat PROVE (k + 1) * c = k * c + c
  BY <1>1
<1>6. a = len + c - 1
  BY DEF a
<1>7. ASSUME NEW k \in Nat, k < q PROVE k * c < len
  BY <1>1, <1>2, <1>3, <1>5, <1>6, <1>7
<1>8. ASSUME NEW k \in Nat, k >= q PROVE k * c >= len
  BY <1>1, <1>2, <1>4, <1>6, <1>8
<1> QED BY <1>2, <1>3, <1>4, <1>5, <1>7, <1>8 DEF q, a, c

-----------------------------------------------------------------------------
(* The invariant.                                                          *)

Samples == [file : Nat, at : Nat, windows : Nat, nan : BOOLEAN]
Transform == [input : [1..m_chunkSize -> Samples], kept : BOOLEAN]

FftRecord ==
  [stage : {"idle", "window", "compute", "chunks", "dead", "overrun"}, files : Nat,
   m_audioData : Seq(Samples), m_realInput : [1..m_chunkSize -> Samples],
   controlNoteBin : Int, n : Int, numChunks : Int, chunk : Nat,
   m_sampleStorage : Seq(Samples), heard : Nat, transforms : Seq(Transform),
   narrow : BOOLEAN]

Length(d) == Len(d.m_audioData)
Earlier(d) == d.heard - Length(d)
Busy(d) == d.stage \in {"window", "compute", "chunks"}

\* The audio being worked on is the last that was read, windowed or not yet.
DataInv(d) ==
  Busy(d) =>
    /\ Length(d) + m_chunkSize - 1 <= IntMax /\ Earlier(d) \in Nat
    /\ \A i \in 1..Length(d) :
         d.m_audioData[i] = IF d.stage = "window"
                            THEN Sample(d.files, Earlier(d) + i, 0, FALSE)
                            ELSE Sample(d.files, Earlier(d) + i, 1, Length(d) = 1)

LoopInv(d) ==
  d.stage = "chunks" =>
    /\ d.n = Length(d) /\ d.chunk <= d.numChunks
    /\ d.numChunks = (Length(d) + m_chunkSize - 1) \div m_chunkSize

\* How many samples have been transformed.
Done(d) ==
  IF d.stage \in {"window", "compute"} THEN Earlier(d)
  ELSE IF d.stage = "chunks" /\ d.chunk * m_chunkSize < Length(d)
       THEN Earlier(d) + d.chunk * m_chunkSize
       ELSE d.heard

OnceEach(transforms) ==
  \A i \in DOMAIN transforms :
    \A s, t \in Taken(transforms[i].input) : s.windows = 1 /\ s.file = t.file

\* The transforms and the product, when count samples have been transformed.
ProductOf(transforms, samples, count) ==
  /\ Transformed(transforms, count) /\ OnceEach(transforms)
  /\ Stored(samples, transforms)
  /\ \A s \in Range(samples) : ~s.nan

ProductInv(d) == ProductOf(d.transforms, d.m_sampleStorage, Done(d))

ChunksInv(d) ==
  ~d.narrow => d.stage # "overrun" /\ DataInv(d) /\ LoopInv(d) /\ ProductInv(d)

FftInv == fft \in FftRecord /\ ChunksInv(fft)

\* The buffer is filled with samples, before the first chunk and after the last.
LEMMA ZeroIsSample == Zero \in Samples /\ Junk \in Samples
BY DEF Zero, Junk, Sample, Samples

\* Nothing has been read, transformed or stored.
LEMMA ChunksInitHolds == ChunksInit => FftInv
<1> SUFFICES ASSUME ChunksInit PROVE FftInv
  OBVIOUS
<1>1. fft \in FftRecord
  BY ChunksAssumption, ZeroIsSample DEF ChunksInit, FftRecord
<1>2. /\ fft.stage = "idle" /\ fft.transforms = <<>> /\ fft.m_sampleStorage = <<>>
      /\ fft.heard = 0
  BY DEF ChunksInit
<1>3. ProductInv(fft)
  BY <1>2 DEF ProductInv, ProductOf, Transformed, Stored, OnceEach, Done, Range
<1>4. DataInv(fft) /\ LoopInv(fft)
  BY <1>2 DEF DataInv, LoopInv, Busy
<1> QED BY <1>1, <1>2, <1>3, <1>4 DEF FftInv, ChunksInv

\* The record of what a step that touches no chunk leaves of the product.
LEMMA ProductKept ==
  ASSUME NEW d, NEW e, ProductInv(d), e.transforms = d.transforms,
         e.m_sampleStorage = d.m_sampleStorage, Done(e) = Done(d)
  PROVE  ProductInv(e)
BY DEF ProductInv

-----------------------------------------------------------------------------
(* The steps before the loop.                                              *)

\* readAudioFileAsMono: what it reads follows all that was read before it.
LEMMA ReadStep ==
  ASSUME FftInv, NEW channels \in 1..3, NEW frames \in FileLengths,
         readAudioFileAsMono(channels, frames)
  PROVE  FftInv'
<1> DEFINE file == fft.files + 1
           full == [i \in 1..frames |-> Sample(file, fft.heard + i, 0, FALSE)]
<1>1. /\ fft \in FftRecord /\ fft.stage = "idle" /\ frames \in Nat /\ fft.heard \in Nat
      /\ file \in Nat /\ fft.narrow \in BOOLEAN
  BY ChunksAssumption DEF FftInv, FftRecord, readAudioFileAsMono
<1>2. PICK data \in {<<>>, IF channels = 2 THEN full ELSE <<>>} :
        fft' = [fft EXCEPT !.files = file, !.m_audioData = data,
                           !.narrow = fft.narrow \/ Len(data) + m_chunkSize - 1 > IntMax,
                           !.heard = fft.heard + Len(data), !.stage = "window"]
  BY <1>1 DEF readAudioFileAsMono, FftRecord
<1>3. /\ data \in Seq(Samples)
      /\ \A i \in 1..Len(data) : data[i] = Sample(file, fft.heard + i, 0, FALSE)
  <2>1. CASE data = <<>>
    BY <2>1
  <2>2. CASE data = full
    <3>1. \A i \in 1..frames : Sample(file, fft.heard + i, 0, FALSE) \in Samples
      BY <1>1 DEF Sample, Samples
    <3>2. /\ full \in [1..frames -> Samples]
          /\ \A i \in 1..frames : full[i] = Sample(file, fft.heard + i, 0, FALSE)
      <4> HIDE DEF file
      <4> QED BY <3>1
    <3> HIDE DEF full, file
    <3>3. full \in Seq(Samples) /\ Len(full) = frames
      BY <1>1, <3>2
    <3> QED BY <2>2, <3>2, <3>3
  <2> QED BY <1>2, <2>1, <2>2
<1> HIDE DEF full, file
<1> DEFINE e == fft'
           long == fft.narrow \/ Len(data) + m_chunkSize - 1 > IntMax
           count == fft.heard + Len(data)
<1>4. Len(data) \in Nat /\ count \in Nat /\ long \in BOOLEAN /\ data \in Seq(Samples)
  BY <1>1, <1>3
<1>5. e = [fft EXCEPT !.files = file, !.m_audioData = data, !.narrow = long,
                      !.heard = count, !.stage = "window"]
  BY <1>2
<1> HIDE DEF long, count, e
<1>6. /\ e \in FftRecord /\ e.stage = "window" /\ e.m_audioData = data /\ e.files = file
      /\ e.heard = count /\ e.transforms = fft.transforms /\ e.narrow = long
      /\ e.m_sampleStorage = fft.m_sampleStorage
  BY <1>1, <1>4, <1>5 DEF FftRecord
<1>7. ASSUME ~e.narrow PROVE DataInv(e) /\ LoopInv(e) /\ ProductInv(e)
  <2>1. ~fft.narrow /\ Len(data) + m_chunkSize - 1 <= IntMax
    <3>1. ~long
      BY <1>6, <1>7
    <3>2. ~fft.narrow /\ ~(Len(data) + m_chunkSize - 1 > IntMax)
      BY <3>1 DEF long
    <3>3. Len(data) + m_chunkSize - 1 \in Int /\ IntMax \in Int
      BY <1>4, ChunksAssumption
    <3> QED BY <3>2, <3>3
  <2>2. Length(e) = Len(data) /\ Earlier(e) = fft.heard
    BY <1>1, <1>4, <1>6 DEF Length, Earlier, count
  <2>3. DataInv(e)
    BY <1>1, <1>3, <1>6, <2>1, <2>2 DEF DataInv
  <2>4. Done(e) = Done(fft)
    BY <1>1, <1>6, <2>2 DEF Done
  <2>5. ProductInv(e)
    BY <1>6, <2>1, <2>4, ProductKept DEF FftInv, ChunksInv
  <2> QED BY <1>6, <2>3, <2>5 DEF LoopInv
<1> QED BY <1>6, <1>7 DEF FftInv, ChunksInv, e

\* More than two channels end the program, and touch nothing.
LEMMA CrashStep ==
  ASSUME FftInv, NEW channels \in 1..3, ReadCrashes(channels)
  PROVE  FftInv'
<1>1. fft \in FftRecord /\ fft.stage = "idle" /\ fft' = [fft EXCEPT !.stage = "dead"]
  BY DEF FftInv, ReadCrashes
<1> DEFINE e == fft'
<1>2. /\ e \in FftRecord /\ e.stage = "dead" /\ e.m_audioData = fft.m_audioData
      /\ e.heard = fft.heard /\ e.transforms = fft.transforms /\ e.narrow = fft.narrow
      /\ e.m_sampleStorage = fft.m_sampleStorage
  BY <1>1 DEF FftRecord
<1> HIDE DEF e
<1>3. Done(e) = Done(fft)
  BY <1>1, <1>2 DEF Done
<1>4. ~e.narrow => ProductInv(e)
  BY <1>2, <1>3, ProductKept DEF FftInv, ChunksInv
<1> QED BY <1>2, <1>4 DEF FftInv, ChunksInv, DataInv, LoopInv, Busy, e

\* What a sample becomes, whatever the quotient is.
LEMMA WindowedSample ==
  ASSUME NEW file \in Nat, NEW at \in Nat, NEW windows \in Nat, NEW b \in BOOLEAN
  PROVE  Sample(file, at, windows, b) \in Samples
<1>1. CASE b = TRUE
  BY <1>1 DEF Sample, Samples
<1>2. CASE b = FALSE
  BY <1>2 DEF Sample, Samples
<1> QED BY <1>1, <1>2

\* Windowing keeps the number of samples, and their types.
LEMMA WindowedData ==
  ASSUME NEW data \in Seq(Samples), NEW n \in Int
  PROVE  Windowed(data, n) \in Seq(Samples) /\ Len(Windowed(data, n)) = Len(data)
<1> DEFINE new == Windowed(data, n)
<1>1. Len(data) \in Nat /\ DOMAIN data = 1..Len(data)
  OBVIOUS
<1>2. DOMAIN new = 1..Len(data) /\ new = [i \in DOMAIN data |-> new[i]]
  BY <1>1 DEF Windowed
<1>3. ASSUME NEW i \in 1..Len(data) PROVE new[i] \in Samples
  <2> DEFINE s == data[i]
             b == (n = 1)
  <2>1. s \in Samples /\ b \in BOOLEAN
    BY <1>1, ElementOfSeq
  <2>2. new[i] = IF i > n THEN s ELSE Sample(s.file, s.at, s.windows + 1, b)
    BY <1>1 DEF Windowed
  <2> HIDE DEF s, b
  <2>3. s.file \in Nat /\ s.at \in Nat /\ s.windows + 1 \in Nat
    BY <2>1 DEF Samples
  <2>4. Sample(s.file, s.at, s.windows + 1, b) \in Samples
    BY <2>1, <2>3, WindowedSample
  <2> QED BY <2>1, <2>2, <2>4
<1> HIDE DEF new
<1>4. new \in [1..Len(data) -> Samples]
  BY <1>1, <1>2, <1>3
<1> QED BY <1>1, <1>4 DEF new

\* applyHanningWindow: each sample once, while int holds their number.
LEMMA WindowStep ==
  ASSUME FftInv, applyHanningWindow
  PROVE  FftInv'
<1> DEFINE data == fft.m_audioData
           n == AsInt(Len(data))
           new == Windowed(data, n)
           e == fft'
<1>1. /\ fft \in FftRecord /\ fft.stage = "window" /\ data \in Seq(Samples)
      /\ Len(data) \in Nat /\ DOMAIN data = 1..Len(data) /\ n \in Int
      /\ fft.heard \in Nat /\ fft.files \in Nat
  <2>1. fft \in FftRecord /\ fft.stage = "window"
    BY DEF FftInv, applyHanningWindow
  <2>2. data \in Seq(Samples) /\ fft.heard \in Nat /\ fft.files \in Nat
    BY <2>1 DEF FftRecord
  <2>3. Len(data) \in Nat /\ DOMAIN data = 1..Len(data)
    BY <2>2
  <2>4. n \in Int
    BY <2>3, IntIsInt
  <2> QED BY <2>1, <2>2, <2>3, <2>4
<1>2. e = [fft EXCEPT !.stage = "compute", !.m_audioData = new]
  BY DEF applyHanningWindow
<1> HIDE DEF n
<1>3. new \in Seq(Samples) /\ Len(new) = Len(data)
  BY <1>1, WindowedData
<1> HIDE DEF new, e
<1>4. /\ e \in FftRecord /\ e.stage = "compute" /\ e.m_audioData = new
      /\ e.files = fft.files /\ e.heard = fft.heard /\ e.transforms = fft.transforms
      /\ e.narrow = fft.narrow /\ e.m_sampleStorage = fft.m_sampleStorage
  BY <1>1, <1>2, <1>3 DEF FftRecord
<1>5. Length(e) = Length(fft) /\ Earlier(e) = Earlier(fft) /\ Length(fft) = Len(data)
  BY <1>3, <1>4 DEF Length, Earlier
<1>6. ASSUME ~e.narrow PROVE DataInv(e) /\ LoopInv(e) /\ ProductInv(e)
  <2>1. DataInv(fft) /\ ProductInv(fft)
    BY <1>4, <1>6 DEF FftInv, ChunksInv
  <2>2. /\ Length(fft) + m_chunkSize - 1 <= IntMax /\ Earlier(fft) \in Nat
        /\ \A i \in 1..Length(fft) : data[i] = Sample(fft.files, Earlier(fft) + i, 0, FALSE)
    BY <1>1, <2>1 DEF DataInv, Busy
  <2>3. n = Len(data)
    <3>1. Len(data) <= IntMax
      BY <1>1, <1>5, <2>2, ChunksAssumption
    <3> QED BY <1>1, <3>1, IntHolds DEF n
  <2>4. ASSUME NEW i \in 1..Length(fft)
        PROVE  new[i] = Sample(fft.files, Earlier(fft) + i, 1, Length(fft) = 1)
    <3> DEFINE s == data[i]
               b == (n = 1)
    <3>1. new[i] = Sample(s.file, s.at, s.windows + 1, b)
      BY <1>1, <1>5, <2>3 DEF new, Windowed
    <3>2. s = Sample(fft.files, Earlier(fft) + i, 0, FALSE) /\ b = (Length(fft) = 1)
      BY <1>5, <2>2, <2>3
    <3> HIDE DEF s, b
    <3>3. s.file = fft.files /\ s.at = Earlier(fft) + i /\ s.windows + 1 = 1
      BY <3>2 DEF Sample
    <3> QED BY <3>1, <3>2, <3>3
  <2>5. DataInv(e)
    BY <1>4, <1>5, <2>2, <2>4 DEF DataInv
  <2>6. Done(e) = Done(fft)
    BY <1>1, <1>4, <1>5 DEF Done
  <2>7. ProductInv(e)
    BY <1>4, <2>1, <2>6, ProductKept
  <2> QED BY <1>4, <2>5, <2>7 DEF LoopInv
<1> QED BY <1>4, <1>6 DEF FftInv, ChunksInv, e

\* BeginCompute: the chunks are as many as the samples need.
LEMMA BeginStep ==
  ASSUME FftInv, BeginCompute
  PROVE  FftInv'
<1> DEFINE len == Len(fft.m_audioData)
           n == AsInt(len)
           e == fft'
<1>1. /\ fft \in FftRecord /\ fft.stage = "compute" /\ len \in Nat /\ n \in Int
      /\ fft.heard \in Nat /\ m_chunkSize \in Nat \ {0}
  <2>1. fft \in FftRecord /\ fft.stage = "compute" /\ fft.heard \in Nat
    BY DEF FftInv, FftRecord, BeginCompute
  <2>2. len \in Nat
    BY <2>1 DEF FftRecord
  <2> QED BY <2>1, <2>2, IntIsInt, ChunksAssumption
<1>2. PICK bin \in ControlBins, sum \in Sums(n, m_chunkSize - 1) :
        e = [fft EXCEPT !.stage = "chunks", !.controlNoteBin = bin, !.n = n,
                        !.numChunks = Quotient(sum, m_chunkSize), !.chunk = 0]
  BY DEF BeginCompute
<1>3. sum \in Int /\ Quotient(sum, m_chunkSize) \in Int /\ bin \in Int
  <2>1. n + (m_chunkSize - 1) \in Int
    BY <1>1
  <2>2. sum \in Int
    <3> HIDE DEF n
    <3> QED BY <2>1, IntIsInt DEF Sums
  <2> QED BY <2>2, <1>1, ChunksAssumption DEF Quotient
<1> HIDE DEF n, e
<1>4. /\ e \in FftRecord /\ e.stage = "chunks" /\ e.m_audioData = fft.m_audioData
      /\ e.files = fft.files /\ e.heard = fft.heard /\ e.transforms = fft.transforms
      /\ e.narrow = fft.narrow /\ e.m_sampleStorage = fft.m_sampleStorage
      /\ e.n = n /\ e.numChunks = Quotient(sum, m_chunkSize) /\ e.chunk = 0
  BY <1>1, <1>2, <1>3 DEF FftRecord
<1>5. Length(e) = len /\ Length(fft) = len /\ Earlier(e) = Earlier(fft)
  BY <1>4 DEF Length, Earlier
<1>6. ASSUME ~e.narrow PROVE DataInv(e) /\ LoopInv(e) /\ ProductInv(e)
  <2>1. DataInv(fft) /\ ProductInv(fft)
    BY <1>4, <1>6 DEF FftInv, ChunksInv
  <2>2. /\ len + m_chunkSize - 1 <= IntMax /\ Earlier(fft) \in Nat
        /\ Earlier(fft) = fft.heard - len
    BY <1>1, <1>5, <2>1 DEF DataInv, Busy, Earlier
  <2>3. n = len /\ sum = len + m_chunkSize - 1
    <3>1. len <= IntMax /\ len + (m_chunkSize - 1) \in Nat /\ len + (m_chunkSize - 1) <= IntMax
      BY <1>1, <2>2, ChunksAssumption
    <3>2. n = len /\ AsInt(len + (m_chunkSize - 1)) = len + (m_chunkSize - 1)
      BY <1>1, <3>1, IntHolds DEF n
    <3> QED BY <1>1, <3>2 DEF Sums
  <2>4. e.numChunks = (len + m_chunkSize - 1) \div m_chunkSize
    <3>1. sum >= 0
      BY <1>1, <2>3
    <3>2. e.numChunks = sum \div m_chunkSize
      BY <1>4, <3>1 DEF Quotient
    <3> QED BY <2>3, <3>2
  <2>5. e.numChunks \in Nat
    BY <1>1, <2>4, ChunkCount
  <2>6. LoopInv(e)
    BY <1>4, <1>5, <2>3, <2>4, <2>5 DEF LoopInv
  <2>7. DataInv(e)
    BY <1>1, <1>4, <1>5, <2>1 DEF DataInv, Busy
  <2>8. Done(e) = Done(fft)
    <3>1. 0 * m_chunkSize = 0
      BY <1>1
    <3> QED BY <1>1, <1>4, <1>5, <2>2, <3>1 DEF Done
  <2>9. ProductInv(e)
    BY <1>4, <2>1, <2>8, ProductKept
  <2> QED BY <2>6, <2>7, <2>9
<1> QED BY <1>4, <1>6 DEF FftInv, ChunksInv, e

\* The loop ends when no sample is left.
LEMMA EndStep ==
  ASSUME FftInv, EndCompute
  PROVE  FftInv'
<1> DEFINE e == fft'
<1>1. /\ fft \in FftRecord /\ fft.stage = "chunks" /\ fft.chunk >= fft.numChunks
      /\ e = [fft EXCEPT !.stage = "idle"] /\ fft.chunk \in Nat /\ Length(fft) \in Nat
  BY DEF FftInv, EndCompute, FftRecord, Length
<1> HIDE DEF e
<1>2. /\ e \in FftRecord /\ e.stage = "idle" /\ e.heard = fft.heard
      /\ e.transforms = fft.transforms /\ e.narrow = fft.narrow
      /\ e.m_sampleStorage = fft.m_sampleStorage
  BY <1>1 DEF FftRecord
<1>3. ASSUME ~e.narrow PROVE ProductInv(e)
  <2>1. LoopInv(fft) /\ ProductInv(fft)
    BY <1>2, <1>3 DEF FftInv, ChunksInv
  <2>2. fft.chunk * m_chunkSize >= Length(fft) /\ fft.chunk * m_chunkSize \in Nat
    BY <1>1, <2>1, ChunkCount DEF LoopInv
  <2>3. Done(e) = Done(fft)
    BY <1>1, <1>2, <2>2 DEF Done
  <2> QED BY <1>2, <2>1, <2>3, ProductKept
<1> QED BY <1>2, <1>3 DEF FftInv, ChunksInv, DataInv, LoopInv, Busy, e

-----------------------------------------------------------------------------
(* A turn of the loop.                                                     *)

\* The sample of file F that follows the first D + i - 1 of all, windowed once.
NextOf(s, F, D, i) == s.file = F /\ s.at = D + i /\ s.windows = 1

\* The input of a chunk that holds l samples after the first D.
ChunkOf(input, F, D, l) ==
  \A i \in 1..m_chunkSize :
    (i <= l => NextOf(input[i], F, D, i)) /\ (~(i <= l) => input[i] = Zero)

\* What the transform takes from it.
Taking(input, F, D, l) ==
  /\ FromTheFront(input)
  /\ Taken(input) = {input[i] : i \in 1..l}
  /\ \A s \in Taken(input) :
       s.at \in (D + 1)..(D + l) /\ s.windows = 1 /\ s.file = F
  /\ \A x \in (D + 1)..(D + l) : \E s \in Taken(input) : s.at = x

\* A chunk of the next samples gives the transform those, in order.
LEMMA ChunkTakes ==
  ASSUME NEW input \in [1..m_chunkSize -> Samples], NEW l \in 1..m_chunkSize,
         NEW F \in Nat, NEW D \in Nat, ChunkOf(input, F, D, l)
  PROVE  Taking(input, F, D, l)
<1>1. /\ DOMAIN input = 1..m_chunkSize /\ m_chunkSize \in Nat /\ l \in Nat
      /\ \A i \in 1..l : i \in 1..m_chunkSize
  BY ChunksAssumption
<1>2. ASSUME NEW i \in 1..m_chunkSize
      PROVE  /\ i <= l => /\ input[i].at = D + i /\ input[i].windows = 1
                          /\ input[i].file = F /\ input[i] # Zero
             /\ ~(i <= l) => input[i] = Zero
  <2>1. Zero.windows = 0
    BY DEF Sample, Zero
  <2> QED BY <2>1 DEF ChunkOf, NextOf
<1>3. FromTheFront(input)
  BY <1>1, <1>2 DEF FromTheFront
<1>4. Taken(input) = {input[i] : i \in 1..l}
  BY <1>1, <1>2 DEF Taken, Range
<1>5. ASSUME NEW s \in Taken(input)
      PROVE  s.at \in (D + 1)..(D + l) /\ s.windows = 1 /\ s.file = F
  <2>1. PICK i \in 1..l : s = input[i]
    BY <1>4
  <2>2. s.at = D + i /\ s.windows = 1 /\ s.file = F
    BY <1>1, <1>2, <2>1
  <2> QED BY <2>2
<1>6. ASSUME NEW x \in (D + 1)..(D + l) PROVE \E s \in Taken(input) : s.at = x
  <2>1. x - D \in 1..l /\ D + (x - D) = x
    OBVIOUS
  <2>2. input[x - D] \in Taken(input) /\ input[x - D].at = x
    BY <1>1, <1>2, <1>4, <2>1
  <2> QED BY <2>2
<1> QED BY <1>3, <1>4, <1>5, <1>6 DEF Taking

\* Transformed, said of one transform at a time.
LEMMA TransformedIs ==
  ASSUME NEW ts \in Seq(Transform), NEW D \in Nat
  PROVE  Transformed(ts, D) <=>
           /\ \A i \in DOMAIN ts : FromTheFront(ts[i].input)
           /\ \A i \in DOMAIN ts : \A s \in Taken(ts[i].input) : s.at \in 1..D
           /\ \A x \in 1..D : \E i \in DOMAIN ts : \E s \in Taken(ts[i].input) : s.at = x
           /\ \A i, j \in DOMAIN ts :
                i < j => \A s \in Taken(ts[i].input), t \in Taken(ts[j].input) : s.at < t.at
<1> DEFINE taken == [i \in DOMAIN ts |-> Taken(ts[i].input)]
<1>1. DOMAIN taken = DOMAIN ts /\ \A i \in DOMAIN ts : taken[i] = Taken(ts[i].input)
  OBVIOUS
<1>2. Transformed(ts, D) <=>
        /\ {s.at : s \in UNION Range(taken)} = 1..D
        /\ \A i \in DOMAIN taken : FromTheFront(ts[i].input)
        /\ \A i, j \in DOMAIN taken : i < j => \A s \in taken[i], t \in taken[j] : s.at < t.at
  BY DEF Transformed
<1> HIDE DEF taken
<1>3. {s.at : s \in UNION Range(taken)} = 1..D <=>
        /\ \A i \in DOMAIN ts : \A s \in Taken(ts[i].input) : s.at \in 1..D
        /\ \A x \in 1..D : \E i \in DOMAIN ts : \E s \in Taken(ts[i].input) : s.at = x
  <2>1. \A s : s \in UNION Range(taken) <=> \E i \in DOMAIN ts : s \in Taken(ts[i].input)
    BY <1>1 DEF Range
  <2> QED BY <2>1
<1> QED BY <1>1, <1>2, <1>3

\* The next chunk takes up where the last one ended.
LEMMA TransformedGrows ==
  ASSUME NEW ts \in Seq(Transform), NEW D \in Nat, Transformed(ts, D),
         NEW t \in Transform, NEW l \in Nat, FromTheFront(t.input),
         \A s \in Taken(t.input) : s.at \in (D + 1)..(D + l),
         \A x \in (D + 1)..(D + l) : \E s \in Taken(t.input) : s.at = x
  PROVE  Transformed(Append(ts, t), D + l)
<1> DEFINE us == Append(ts, t)
<1>1. /\ us \in Seq(Transform) /\ Len(ts) \in Nat /\ DOMAIN ts = 1..Len(ts)
      /\ DOMAIN us = 1..(Len(ts) + 1) /\ us[Len(ts) + 1] = t
      /\ \A i \in 1..Len(ts) : us[i] = ts[i]
  OBVIOUS
<1> HIDE DEF us
<1>2. /\ \A i \in DOMAIN ts : FromTheFront(ts[i].input)
      /\ \A i \in DOMAIN ts : \A s \in Taken(ts[i].input) : s.at \in 1..D
      /\ \A x \in 1..D : \E i \in DOMAIN ts : \E s \in Taken(ts[i].input) : s.at = x
      /\ \A i, j \in DOMAIN ts :
           i < j => \A s \in Taken(ts[i].input), u \in Taken(ts[j].input) : s.at < u.at
  BY TransformedIs
<1>3. \A i \in DOMAIN us : i \in DOMAIN ts \/ i = Len(ts) + 1
  BY <1>1
<1>4. \A i \in DOMAIN us : FromTheFront(us[i].input)
  BY <1>1, <1>2, <1>3
<1>5. ASSUME NEW i \in DOMAIN us, NEW s \in Taken(us[i].input) PROVE s.at \in 1..(D + l)
  <2>1. CASE i \in DOMAIN ts
    <3>1. s.at \in 1..D
      BY <2>1, <1>1, <1>2
    <3> QED BY <3>1
  <2>2. CASE i = Len(ts) + 1
    <3>1. s.at \in (D + 1)..(D + l)
      BY <2>2, <1>1
    <3> QED BY <3>1
  <2> QED BY <1>3, <2>1, <2>2
<1>6. ASSUME NEW x \in 1..(D + l)
      PROVE  \E i \in DOMAIN us : \E s \in Taken(us[i].input) : s.at = x
  <2>1. CASE x \in 1..D
    <3>1. PICK i \in DOMAIN ts : \E s \in Taken(ts[i].input) : s.at = x
      BY <2>1, <1>2
    <3> QED BY <3>1, <1>1
  <2>2. CASE x \in (D + 1)..(D + l)
    <3>1. \E s \in Taken(us[Len(ts) + 1].input) : s.at = x
      BY <2>2, <1>1
    <3> QED BY <3>1, <1>1
  <2>3. x \in 1..D \/ x \in (D + 1)..(D + l)
    OBVIOUS
  <2> QED BY <2>1, <2>2, <2>3
<1>7. ASSUME NEW i \in DOMAIN us, NEW j \in DOMAIN us, i < j,
             NEW s \in Taken(us[i].input), NEW u \in Taken(us[j].input)
      PROVE  s.at < u.at
  <2>1. i \in DOMAIN ts /\ us[i] = ts[i] /\ s.at \in 1..D
    <3>1. i \in DOMAIN ts
      BY <1>1, <1>7
    <3> QED BY <3>1, <1>1, <1>2
  <2>2. CASE j \in DOMAIN ts
    BY <2>1, <2>2, <1>1, <1>2, <1>7
  <2>3. CASE j = Len(ts) + 1
    <3>1. u.at \in (D + 1)..(D + l)
      BY <2>3, <1>1
    <3> QED BY <3>1, <2>1
  <2> QED BY <1>3, <2>2, <2>3
<1>8. D + l \in Nat
  OBVIOUS
<1>9. Transformed(us, D + l)
  BY <1>1, <1>4, <1>5, <1>6, <1>7, <1>8, TransformedIs
<1> QED BY <1>9 DEF us

\* A chunk that is not kept leaves the product as it is.
LEMMA StoredSkips ==
  ASSUME NEW ts \in Seq(Transform), NEW out \in Seq(Samples), Stored(out, ts),
         NEW t \in Transform, ~t.kept
  PROVE  Stored(out, Append(ts, t))
<1> DEFINE us == Append(ts, t)
<1>1. /\ us \in Seq(Transform) /\ Len(ts) \in Nat /\ DOMAIN ts = 1..Len(ts)
      /\ DOMAIN us = 1..(Len(ts) + 1) /\ us[Len(ts) + 1] = t
      /\ \A i \in 1..Len(ts) : us[i] = ts[i]
  OBVIOUS
<1> HIDE DEF us
<1>2. {i \in DOMAIN us : us[i].kept} = {i \in DOMAIN ts : ts[i].kept}
  BY <1>1
<1>3. \A i \in {i \in DOMAIN ts : ts[i].kept} : us[i] = ts[i]
  BY <1>1
<1>4. Stored(out, us)
  BY <1>2, <1>3 DEF Stored
<1> QED BY <1>4 DEF us

\* One that is kept is added to its end.
LEMMA StoredGrows ==
  ASSUME NEW ts \in Seq(Transform), NEW out \in Seq(Samples), NEW D \in Nat,
         Stored(out, ts), Transformed(ts, D),
         NEW t \in Transform, t.kept, NEW chunk \in Seq(Samples),
         Taken(t.input) = Range(chunk),
         \A i, j \in DOMAIN chunk : i < j => chunk[i].at < chunk[j].at,
         \A s \in Range(chunk) : s.at > D
  PROVE  /\ Stored(out \o chunk, Append(ts, t)) /\ out \o chunk \in Seq(Samples)
         /\ Range(out \o chunk) = Range(out) \cup Range(chunk)
<1> DEFINE us == Append(ts, t)
           new == out \o chunk
<1>1. /\ us \in Seq(Transform) /\ Len(ts) \in Nat /\ DOMAIN ts = 1..Len(ts)
      /\ DOMAIN us = 1..(Len(ts) + 1) /\ us[Len(ts) + 1] = t
      /\ \A i \in 1..Len(ts) : us[i] = ts[i]
  OBVIOUS
<1> HIDE DEF us
<1>2. /\ new \in Seq(Samples) /\ Len(out) \in Nat /\ Len(chunk) \in Nat
      /\ DOMAIN new = 1..(Len(out) + Len(chunk)) /\ DOMAIN out = 1..Len(out)
      /\ DOMAIN chunk = 1..Len(chunk)
      /\ \A i \in 1..Len(out) : new[i] = out[i]
  OBVIOUS
<1>3. ASSUME NEW i \in DOMAIN new, i > Len(out)
      PROVE  i - Len(out) \in DOMAIN chunk /\ new[i] = chunk[i - Len(out)]
  BY <1>2, <1>3
<1>4. ASSUME NEW i \in DOMAIN chunk
      PROVE  Len(out) + i \in DOMAIN new /\ new[Len(out) + i] = chunk[i]
  BY <1>2
<1> HIDE DEF new
<1>5. Range(new) = Range(out) \cup Range(chunk)
  <2>1. ASSUME NEW x \in Range(new) PROVE x \in Range(out) \cup Range(chunk)
    <3>1. PICK i \in DOMAIN new : x = new[i]
      BY <2>1 DEF Range
    <3>2. CASE i \in 1..Len(out)
      BY <3>1, <3>2, <1>2 DEF Range
    <3>3. CASE i > Len(out)
      BY <3>1, <3>3, <1>3 DEF Range
    <3> QED BY <1>2, <3>2, <3>3
  <2>2. ASSUME NEW x \in Range(out) PROVE x \in Range(new)
    BY <1>2 DEF Range
  <2>3. ASSUME NEW x \in Range(chunk) PROVE x \in Range(new)
    <3>1. PICK i \in DOMAIN chunk : x = chunk[i]
      BY <2>3 DEF Range
    <3> QED BY <3>1, <1>4 DEF Range
  <2> QED BY <2>1, <2>2, <2>3
<1>6. Range(out) = UNION {Taken(ts[i].input) : i \in {i \in DOMAIN ts : ts[i].kept}}
  BY DEF Stored
<1>7. Range(new) = UNION {Taken(us[i].input) : i \in {i \in DOMAIN us : us[i].kept}}
  <2>1. {i \in DOMAIN us : us[i].kept} = {i \in DOMAIN ts : ts[i].kept} \cup {Len(ts) + 1}
    BY <1>1
  <2>2. \A i \in {i \in DOMAIN ts : ts[i].kept} : us[i] = ts[i]
    BY <1>1
  <2> QED BY <1>1, <1>5, <1>6, <2>1, <2>2
<1>8. ASSUME NEW s \in Range(out) PROVE s.at \in 1..D
  <2>1. PICK i \in DOMAIN ts : s \in Taken(ts[i].input)
    BY <1>6
  <2> QED BY <2>1, TransformedIs
<1>9. ASSUME NEW i \in DOMAIN new, NEW j \in DOMAIN new, i < j
      PROVE  new[i].at < new[j].at
  <2>1. CASE j \in 1..Len(out)
    BY <2>1, <1>2, <1>9 DEF Stored
  <2>2. CASE j > Len(out) /\ i \in 1..Len(out)
    <3>1. new[j] \in Range(chunk) /\ new[i] \in Range(out)
      BY <2>2, <1>2, <1>3 DEF Range
    <3>2. new[j].at > D /\ new[i].at \in 1..D
      BY <3>1, <1>8
    <3>3. new[j] \in Samples
      BY <1>2, ElementOfSeq
    <3>4. new[j].at \in Nat
      BY <3>3 DEF Samples
    <3> QED BY <3>2, <3>4
  <2>3. CASE j > Len(out) /\ i > Len(out)
    <3>1. /\ i - Len(out) \in DOMAIN chunk /\ new[i] = chunk[i - Len(out)]
          /\ j - Len(out) \in DOMAIN chunk /\ new[j] = chunk[j - Len(out)]
      BY <1>3, <2>3
    <3>2. i - Len(out) < j - Len(out)
      BY <1>2, <1>9
    <3> QED BY <3>1, <3>2
  <2> QED BY <1>2, <2>1, <2>2, <2>3
<1>10. Stored(new, us)
  BY <1>7, <1>9 DEF Stored
<1> QED BY <1>2, <1>5, <1>10 DEF new, us

\* What fill and copy make of a chunk is of the transform's size.
LEMMA FilledType ==
  ASSUME NEW input \in [1..m_chunkSize -> Samples], NEW s \in Seq(Samples)
  PROVE  /\ Filled(input, s) \in [1..m_chunkSize -> Samples]
         /\ \A i \in 1..m_chunkSize :
              Filled(input, s)[i] = IF i <= Len(s) THEN s[i] ELSE Zero
<1>1. ASSUME NEW i \in 1..m_chunkSize PROVE (IF i <= Len(s) THEN s[i] ELSE Zero) \in Samples
  <2>1. CASE i <= Len(s)
    <3>1. i \in 1..Len(s)
      BY <2>1
    <3> QED BY <3>1, <2>1, ElementOfSeq
  <2>2. CASE ~(i <= Len(s))
    BY <2>2, ZeroIsSample
  <2> QED BY <2>1, <2>2
<1> QED BY <1>1 DEF Filled

\* The samples copied, wherever the copy begins and ends in the audio.
LEMMA CopiedType ==
  ASSUME NEW data \in Seq(Samples), NEW start \in Nat, NEW end \in Nat,
         start <= end, end <= Len(data)
  PROVE  LET samples == SubSeq(data, start + 1, end) IN
         /\ samples \in Seq(Samples) /\ Len(samples) = end - start
         /\ \A i \in 1..(end - start) : samples[i] = data[start + i]
<1> DEFINE samples == SubSeq(data, start + 1, end)
<1>1. samples \in Seq(Samples) /\ Len(samples) = end - start
  OBVIOUS
<1>2. ASSUME NEW i \in 1..(end - start) PROVE samples[i] = data[start + i]
  BY <1>1
<1> QED BY <1>1, <1>2

\* Where a chunk ends when int can do the sum.
LEMMA ChunkEnds ==
  ASSUME FftInv, ~fft.narrow, fft.stage = "chunks", fft.chunk < fft.numChunks,
         NEW sum \in Sums(fft.chunk * m_chunkSize, m_chunkSize)
  PROVE  LET start == fft.chunk * m_chunkSize
             end   == IF sum < fft.n THEN sum ELSE fft.n IN
         /\ start \in Nat /\ end \in Nat /\ start < end /\ end <= Len(fft.m_audioData)
         /\ end - start \in 1..m_chunkSize
         /\ Done(fft) = Earlier(fft) + start
         /\ end = Len(fft.m_audioData) \/ end = (fft.chunk + 1) * m_chunkSize
         /\ (fft.chunk + 1) * m_chunkSize = start + m_chunkSize
<1> DEFINE start == fft.chunk * m_chunkSize
           len == Len(fft.m_audioData)
           end == IF sum < fft.n THEN sum ELSE fft.n
<1>1. fft.chunk \in Nat /\ len \in Nat /\ m_chunkSize \in Nat \ {0} /\ IntMax \in Nat
  BY ChunksAssumption DEF FftInv, FftRecord
<1>2. DataInv(fft) /\ LoopInv(fft)
  BY DEF FftInv, ChunksInv
<1>3. /\ fft.n = len /\ len + m_chunkSize - 1 <= IntMax
      /\ fft.numChunks = (len + m_chunkSize - 1) \div m_chunkSize
  BY <1>2 DEF DataInv, LoopInv, Busy, Length
<1>4. start \in Nat /\ start < len /\ (fft.chunk + 1) * m_chunkSize = start + m_chunkSize
  BY <1>1, <1>3, ChunkCount
<1> HIDE DEF start, len
<1>5. sum = start + m_chunkSize
  <2>1. start + m_chunkSize \in Nat /\ start + m_chunkSize <= IntMax
    BY <1>1, <1>3, <1>4
  <2>2. AsInt(start + m_chunkSize) = start + m_chunkSize
    BY <2>1, IntHolds
  <2>3. sum \in Sums(start, m_chunkSize)
    BY DEF start
  <2> QED BY <2>2, <2>3 DEF Sums
<1>6. /\ end \in Nat /\ start < end /\ end <= len /\ end - start \in 1..m_chunkSize
      /\ end = len \/ end = start + m_chunkSize
  BY <1>1, <1>3, <1>4, <1>5
<1>7. Done(fft) = Earlier(fft) + start
  BY <1>4 DEF Done, Length, len, start
<1> QED BY <1>4, <1>6, <1>7 DEF start, len

\* The transform of the samples copied, which is kept only without a NaN.
MadeOf(t, samples) ==
  /\ \A i \in 1..m_chunkSize : t.input[i] = IF i <= Len(samples) THEN samples[i] ELSE Zero
  /\ t.kept => \A i \in DOMAIN t.input : ~t.input[i].nan

\* What a chunk of the next samples adds to the product.
LEMMA ProductGrows ==
  ASSUME NEW ts \in Seq(Transform), NEW out \in Seq(Samples), NEW D \in Nat,
         ProductOf(ts, out, D), NEW F \in Nat,
         NEW samples \in Seq(Samples), Len(samples) \in 1..m_chunkSize,
         \A i \in 1..Len(samples) : NextOf(samples[i], F, D, i),
         NEW t \in Transform, MadeOf(t, samples)
  PROVE  ProductOf(Append(ts, t), IF t.kept THEN out \o samples ELSE out, D + Len(samples))
<1> DEFINE input == t.input
           l == Len(samples)
<1>0. /\ Transformed(ts, D) /\ OnceEach(ts) /\ Stored(out, ts)
      /\ \A s \in Range(out) : ~s.nan
  BY DEF ProductOf
<1>1. /\ input \in [1..m_chunkSize -> Samples] /\ m_chunkSize \in Nat \ {0} /\ l \in Nat
      /\ l \in 1..m_chunkSize /\ t.kept \in BOOLEAN
  BY ChunksAssumption DEF Transform
<1>2. \A i \in 1..l : i \in 1..m_chunkSize /\ i <= l
  BY <1>1
<1> HIDE DEF l
<1>3. ChunkOf(input, F, D, l)
  <2> SUFFICES ASSUME NEW i \in 1..m_chunkSize
               PROVE  (i <= l => NextOf(input[i], F, D, i)) /\ (~(i <= l) => input[i] = Zero)
    BY DEF ChunkOf
  <2>1. i <= l => i \in 1..l
    BY <1>1
  <2>2. input[i] = IF i <= l THEN samples[i] ELSE Zero
    BY DEF MadeOf, l
  <2>3. \A k \in 1..l : NextOf(samples[k], F, D, k)
    BY DEF l
  <2> QED BY ONLY <2>1, <2>2, <2>3
<1> HIDE DEF input
<1>4. /\ FromTheFront(input) /\ Taken(input) = {input[i] : i \in 1..l}
      /\ \A s \in Taken(input) :
           s.at \in (D + 1)..(D + l) /\ s.windows = 1 /\ s.file = F
      /\ \A x \in (D + 1)..(D + l) : \E s \in Taken(input) : s.at = x
  <2>1. Taking(input, F, D, l)
    BY <1>1, <1>3, ChunkTakes
  <2> QED BY <2>1 DEF Taking
<1>5. Transformed(Append(ts, t), D + l)
  BY <1>0, <1>1, <1>4, TransformedGrows DEF input
<1>6. OnceEach(Append(ts, t))
  <2> DEFINE us == Append(ts, t)
  <2>1. /\ DOMAIN us = 1..(Len(ts) + 1) /\ DOMAIN ts = 1..Len(ts) /\ Len(ts) \in Nat
        /\ us[Len(ts) + 1] = t /\ \A i \in 1..Len(ts) : us[i] = ts[i]
    OBVIOUS
  <2> HIDE DEF us
  <2> SUFFICES ASSUME NEW i \in DOMAIN us, NEW s \in Taken(us[i].input),
                      NEW u \in Taken(us[i].input)
               PROVE  s.windows = 1 /\ s.file = u.file
    BY DEF OnceEach, us
  <2>2. CASE i \in 1..Len(ts)
    BY <1>0, <2>1, <2>2 DEF OnceEach
  <2>3. CASE i = Len(ts) + 1
    <3>1. s \in Taken(input) /\ u \in Taken(input)
      BY <2>1, <2>3 DEF input
    <3> QED BY <3>1, <1>4
  <2> QED BY <2>1, <2>2, <2>3
<1>7. CASE ~t.kept
  <2>1. Stored(out, Append(ts, t))
    BY <1>0, <1>7, StoredSkips
  <2> QED BY <1>0, <1>5, <1>6, <1>7, <2>1 DEF ProductOf, l
<1>8. CASE t.kept
  <2>1. DOMAIN samples = 1..l /\ \A i \in 1..l : input[i] = samples[i]
    BY <1>1, <1>2 DEF input, l, MadeOf
  <2>2. Taken(input) = Range(samples)
    <3>1. {input[i] : i \in 1..l} = {samples[i] : i \in 1..l}
      BY <2>1
    <3>2. Range(samples) = {samples[i] : i \in 1..l}
      BY <2>1 DEF Range
    <3> QED BY <3>1, <3>2, <1>4
  <2>3. ASSUME NEW i \in DOMAIN samples, NEW j \in DOMAIN samples, i < j
        PROVE  samples[i].at < samples[j].at
    <3>1. samples[i].at = D + i /\ samples[j].at = D + j
      BY <2>1 DEF NextOf, l
    <3> QED BY <3>1, <2>1, <2>3, <1>1
  <2>4. ASSUME NEW s \in Range(samples) PROVE s.at > D /\ ~s.nan
    <3>1. s.at \in (D + 1)..(D + l)
      BY <2>2, <2>4, <1>4
    <3>2. PICK i \in 1..l : s = input[i]
      BY <2>2, <2>4, <1>4
    <3>3. i \in DOMAIN input
      BY <1>1, <1>2
    <3>4. ~s.nan
      BY <3>2, <3>3, <1>8 DEF input, MadeOf
    <3> QED BY <3>1, <3>4, <1>1
  <2>5. /\ Stored(out \o samples, Append(ts, t))
        /\ Range(out \o samples) = Range(out) \cup Range(samples)
    <3>1. \A s \in Range(samples) : s.at > D
      BY <2>4
    <3>2. Taken(t.input) = Range(samples)
      BY <2>2 DEF input
    <3>3. \A i, j \in DOMAIN samples : i < j => samples[i].at < samples[j].at
      BY <2>3
    <3>4. /\ ts \in Seq(Transform) /\ out \in Seq(Samples) /\ D \in Nat /\ t \in Transform
          /\ samples \in Seq(Samples) /\ Stored(out, ts) /\ Transformed(ts, D)
      BY <1>0
    <3> QED BY ONLY <1>8, <3>1, <3>2, <3>3, <3>4, StoredGrows
  <2>6. \A s \in Range(out \o samples) : ~s.nan
    BY <1>0, <2>4, <2>5
  <2> QED BY <1>5, <1>6, <1>8, <2>5, <2>6 DEF ProductOf, l
<1> QED BY <1>7, <1>8

\* The transforms and the product after a turn whose bounds are right.
LEMMA ComputedProduct ==
  ASSUME FftInv, ~fft.narrow, fft.stage = "chunks",
         NEW start \in Nat, NEW end \in Nat, start < end, end <= Len(fft.m_audioData),
         end - start \in 1..m_chunkSize, Done(fft) = Earlier(fft) + start,
         NEW samples, samples = SubSeq(fft.m_audioData, start + 1, end),
         NEW input, input = Filled(fft.m_realInput, samples),
         NEW kept \in BOOLEAN, kept => \A i \in DOMAIN input : ~input[i].nan,
         NEW e, e.transforms = Append(fft.transforms, [input |-> input, kept |-> kept]),
         e.m_sampleStorage = IF kept THEN fft.m_sampleStorage \o samples
                             ELSE fft.m_sampleStorage,
         Done(e) = Earlier(fft) + end
  PROVE  ProductInv(e)
<1>1. PICK data, len, F, ts, out, D, l, earlier :
        /\ data = fft.m_audioData /\ len = Len(data) /\ F = fft.files
        /\ ts = fft.transforms /\ out = fft.m_sampleStorage
        /\ D = Done(fft) /\ l = end - start /\ earlier = Earlier(fft)
  OBVIOUS
<1>3. PICK t : t = [input |-> input, kept |-> kept]
  OBVIOUS
<1>4. /\ data \in Seq(Samples) /\ fft.m_realInput \in [1..m_chunkSize -> Samples]
      /\ ts \in Seq(Transform) /\ out \in Seq(Samples) /\ F \in Nat /\ len \in Nat
      /\ m_chunkSize \in Nat \ {0}
  BY <1>1, ChunksAssumption DEF FftInv, FftRecord
<1>5. DataInv(fft) /\ ProductInv(fft)
  BY DEF FftInv, ChunksInv
<1>6. /\ earlier \in Nat
      /\ \A i \in 1..len : NextOf(data[i], F, earlier, i)
  <2>1. /\ earlier \in Nat
        /\ \A i \in 1..len : data[i] = Sample(F, earlier + i, 1, len = 1)
    BY <1>1, <1>5 DEF DataInv, Busy, Length
  <2>2. ASSUME NEW i \in 1..len PROVE NextOf(data[i], F, earlier, i)
    <3>1. CASE len = 1
      <4>1. data[i] = Sample(F, earlier + i, 1, TRUE)
        BY <2>1, <3>1
      <4> QED BY ONLY <4>1 DEF NextOf, Sample
    <3>2. CASE len # 1
      <4>1. data[i] = Sample(F, earlier + i, 1, FALSE)
        BY <2>1, <3>2
      <4> QED BY ONLY <4>1 DEF NextOf, Sample
    <3> QED BY <3>1, <3>2
  <2> QED BY <2>1, <2>2
<1>7. D = earlier + start /\ Done(e) = D + l /\ D \in Nat /\ l \in 1..m_chunkSize
  BY <1>1, <1>6
<1>8. /\ samples \in Seq(Samples) /\ Len(samples) = l
      /\ \A i \in 1..l : samples[i] = data[start + i]
  BY <1>1, <1>4, CopiedType
<1>9. /\ input \in [1..m_chunkSize -> Samples]
      /\ \A i \in 1..m_chunkSize : input[i] = IF i <= Len(samples) THEN samples[i] ELSE Zero
  BY <1>4, <1>8, FilledType
<1>10. \A i \in 1..l : NextOf(samples[i], F, D, i)
  <2> SUFFICES ASSUME NEW i \in 1..l PROVE NextOf(samples[i], F, D, i)
    OBVIOUS
  <2>1. start + i \in 1..len /\ earlier + (start + i) = D + i
    <3>1. end <= len /\ l = end - start
      BY <1>1
    <3> QED BY ONLY <1>4, <1>6, <1>7, <3>1, start \in Nat, end \in Nat
  <2>2. samples[i] = data[start + i]
    BY <1>8
  <2> QED BY ONLY <1>6, <2>1, <2>2 DEF NextOf
<1>11. t \in Transform /\ t.input = input /\ t.kept = kept
  BY <1>3, <1>9 DEF Transform
<1>12. ProductOf(ts, out, D)
  BY <1>1, <1>5 DEF ProductInv
<1>13. /\ e.transforms = Append(ts, t)
       /\ e.m_sampleStorage = IF t.kept THEN out \o samples ELSE out
  BY <1>1, <1>3, <1>11
<1>14. MadeOf(t, samples)
  BY <1>9, <1>11 DEF MadeOf
<1>15. ProductOf(Append(ts, t), IF t.kept THEN out \o samples ELSE out, D + Len(samples))
  BY ONLY <1>4, <1>7, <1>8, <1>10, <1>11, <1>12, <1>14, ProductGrows
<1> QED BY <1>7, <1>8, <1>13, <1>15 DEF ProductInv

\* A turn of the loop goes on where the last one ended, and overruns nothing.
LEMMA ComputeStep ==
  ASSUME FftInv, ComputeChunk
  PROVE  FftInv'
<1> DEFINE start == fft.chunk * m_chunkSize
           data == fft.m_audioData
           e == fft'
<1>1. /\ fft \in FftRecord /\ fft.stage = "chunks" /\ fft.chunk < fft.numChunks
      /\ fft.chunk \in Nat /\ start \in Nat /\ data \in Seq(Samples) /\ fft.n \in Int
      /\ fft.m_realInput \in [1..m_chunkSize -> Samples] /\ fft.narrow \in BOOLEAN
      /\ fft.transforms \in Seq(Transform) /\ fft.m_sampleStorage \in Seq(Samples)
  <2>1. fft \in FftRecord /\ fft.stage = "chunks" /\ fft.chunk < fft.numChunks
    BY DEF FftInv, ComputeChunk
  <2> QED BY <2>1, ChunksAssumption DEF FftRecord
<1>2. PICK sum \in Sums(start, m_chunkSize), value \in Strengths, max \in Strengths :
        LET end     == IF sum < fft.n THEN sum ELSE fft.n
            samples == SubSeq(data, start + 1, end)
            input   == Filled(fft.m_realInput, samples)
            nan     == \E i \in DOMAIN input : input[i].nan
            kept    == /\ fft.controlNoteBin \in 0..(m_fftSize - 1)
                       /\ isProminentPeak(nan, value, max) IN
        e = IF start > end \/ end > Len(data)
            THEN [fft EXCEPT !.stage = "overrun"]
            ELSE [fft EXCEPT !.chunk = fft.chunk + 1, !.m_realInput = input,
                    !.transforms = Append(fft.transforms, [input |-> input, kept |-> kept]),
                    !.m_sampleStorage = IF kept THEN fft.m_sampleStorage \o samples
                                        ELSE fft.m_sampleStorage]
  BY DEF ComputeChunk
<1> DEFINE end     == IF sum < fft.n THEN sum ELSE fft.n
           samples == SubSeq(data, start + 1, end)
           input   == Filled(fft.m_realInput, samples)
           nan     == \E i \in DOMAIN input : input[i].nan
           kept    == /\ fft.controlNoteBin \in 0..(m_fftSize - 1)
                      /\ isProminentPeak(nan, value, max)
<1>3. kept \in BOOLEAN /\ (kept => \A i \in DOMAIN input : ~input[i].nan)
  BY DEF isProminentPeak
<1>4. sum \in Int /\ end \in Int
  <2>1. start + m_chunkSize \in Int
    BY <1>1, ChunksAssumption
  <2>2. sum \in Int
    BY <2>1, IntIsInt DEF Sums
  <2> QED BY <1>1, <2>2
<1>5. CASE start > end \/ end > Len(data)
  <2>1. e = [fft EXCEPT !.stage = "overrun"]
    BY <1>2, <1>5
  <2> HIDE DEF e
  <2>2. e \in FftRecord /\ e.narrow = fft.narrow
    BY <1>1, <2>1 DEF FftRecord
  <2>3. fft.narrow
    <3> SUFFICES ASSUME ~fft.narrow PROVE FALSE
      OBVIOUS
    <3>1. start \in Nat /\ end \in Nat /\ start < end /\ end <= Len(data)
      BY <1>1, <1>2, ChunkEnds
    <3>2. Len(data) \in Nat
      BY <1>1
    <3> HIDE DEF start, end, data
    <3> QED BY <3>1, <3>2, <1>5
  <2> QED BY <2>2, <2>3 DEF FftInv, ChunksInv, e
<1>6. CASE ~(start > end \/ end > Len(data))
  <2>1. end \in Nat /\ start <= end /\ end <= Len(data)
    <3>1. Len(data) \in Nat
      BY <1>1
    <3> HIDE DEF start, end, data
    <3> QED BY <3>1, <1>1, <1>4, <1>6
  <2> HIDE DEF kept, end
  <2>2. samples \in Seq(Samples)
    BY <1>1, <2>1, CopiedType
  <2>3. input \in [1..m_chunkSize -> Samples]
    <3> HIDE DEF samples
    <3> QED BY <1>1, <2>2, FilledType
  <2> DEFINE t == [input |-> input, kept |-> kept]
             more == Append(fft.transforms, t)
             out == IF kept THEN fft.m_sampleStorage \o samples ELSE fft.m_sampleStorage
             next == fft.chunk + 1
  <2>4. e = [fft EXCEPT !.chunk = next, !.m_realInput = input, !.transforms = more,
                        !.m_sampleStorage = out]
    BY <1>2, <1>6 DEF end, kept
  <2> HIDE DEF samples, input, nan, e
  <2>5. t \in Transform
    BY <1>3, <2>3 DEF Transform
  <2> HIDE DEF t
  <2>6. more \in Seq(Transform) /\ out \in Seq(Samples) /\ next \in Nat
    BY <1>1, <2>2, <2>5
  <2> HIDE DEF more, out, next
  <2>7. e \in FftRecord
    BY <1>1, <2>3, <2>4, <2>6 DEF FftRecord
  <2>8. /\ e.stage = "chunks" /\ e.m_audioData = data /\ e.files = fft.files
        /\ e.heard = fft.heard /\ e.narrow = fft.narrow /\ e.n = fft.n
        /\ e.numChunks = fft.numChunks /\ e.chunk = next /\ e.transforms = more
        /\ e.m_sampleStorage = out
    BY <1>1, <2>4 DEF FftRecord
  <2>9. ASSUME ~e.narrow PROVE DataInv(e) /\ LoopInv(e) /\ ProductInv(e)
    <3>1. DataInv(fft) /\ LoopInv(fft) /\ ~fft.narrow
      BY <2>8, <2>9 DEF FftInv, ChunksInv
    <3>2. Length(e) = Length(fft) /\ Earlier(e) = Earlier(fft) /\ Length(fft) = Len(data)
      BY <2>8 DEF Length, Earlier
    <3>3. DataInv(e)
      BY <1>1, <2>8, <3>1, <3>2 DEF DataInv, Busy
    <3>4. LoopInv(e)
      <4>1. fft.numChunks \in Int
        BY <1>1 DEF FftRecord
      <4> QED BY <1>1, <2>8, <3>1, <3>2, <4>1 DEF LoopInv, next
    <3>5. /\ start < end /\ end - start \in 1..m_chunkSize
          /\ Done(fft) = Earlier(fft) + start
          /\ end = Len(data) \/ end = next * m_chunkSize
          /\ next * m_chunkSize = start + m_chunkSize
      BY <1>1, <1>2, <3>1, ChunkEnds DEF end, next
    <3>6. Done(e) = Earlier(fft) + end
      <4>1. /\ Earlier(fft) = fft.heard - Len(data) /\ fft.heard \in Nat /\ Len(data) \in Nat
            /\ m_chunkSize \in Nat
        BY <1>1, <3>2, ChunksAssumption DEF Earlier, FftRecord
      <4>2. Done(e) = IF next * m_chunkSize < Len(data)
                      THEN Earlier(fft) + next * m_chunkSize ELSE fft.heard
        BY <2>8, <3>2 DEF Done
      <4> HIDE DEF start, data, next
      <4>3. CASE next * m_chunkSize < Len(data)
        <5>1. end = next * m_chunkSize
          BY <4>1, <4>3, <2>1, <3>5, <1>1
        <5> QED BY <4>2, <4>3, <5>1
      <4>4. CASE ~(next * m_chunkSize < Len(data))
        <5>1. end = Len(data)
          BY <4>1, <4>4, <2>1, <3>5, <1>1
        <5> QED BY <4>1, <4>2, <4>4, <5>1
      <4> QED BY <4>3, <4>4
    <3>7. ProductInv(e)
      BY <1>1, <1>3, <2>1, <2>8, <3>1, <3>5, <3>6, ComputedProduct DEF samples, input, more, out, t
    <3> QED BY <3>3, <3>4, <3>7
  <2> QED BY <2>7, <2>8, <2>9 DEF FftInv, ChunksInv, e
<1> QED BY <1>5, <1>6

-----------------------------------------------------------------------------
\* Each step keeps the invariant.
LEMMA ChunksStep == FftInv /\ [ChunksNext]_fft => FftInv'
<1> SUFFICES ASSUME FftInv, [ChunksNext]_fft PROVE FftInv'
  OBVIOUS
<1>1. CASE UNCHANGED fft
  BY <1>1 DEF FftInv
<1>2. CASE ChunksNext
  BY <1>2, ReadStep, CrashStep, WindowStep, BeginStep, ComputeStep, EndStep DEF ChunksNext
<1> QED BY <1>1, <1>2

\* The invariant says all that StoresPeaks does, and how far the loop has come.
LEMMA InvStores == FftInv => StoresPeaks
<1> SUFFICES ASSUME FftInv, ~fft.narrow
             PROVE  /\ fft.stage # "overrun"
                    /\ fft.stage = "idle" => Transformed(fft.transforms, fft.heard)
                    /\ OnceEach(fft.transforms)
                    /\ Stored(fft.m_sampleStorage, fft.transforms)
                    /\ \A s \in Range(fft.m_sampleStorage) : ~s.nan
  BY DEF StoresPeaks, OnceEach
<1>1. fft.stage # "overrun" /\ ProductOf(fft.transforms, fft.m_sampleStorage, Done(fft))
  BY DEF FftInv, ChunksInv, ProductInv
<1>2. fft.stage = "idle" => Done(fft) = fft.heard
  BY DEF Done
<1> QED BY <1>1, <1>2 DEF ProductOf

\* Of any files in a row, of any length that int can do sums with, and of any
\* chunk size, the product is the prominent chunks and nothing else.
THEOREM ProductIsChunks == ChunksSpec => []StoresPeaks
<1>1. FftInv /\ [ChunksNext]_fft => FftInv'
  BY ChunksStep
<1>2. ChunksSpec => []FftInv
  BY <1>1, ChunksInitHolds, PTL DEF ChunksSpec
<1> QED BY <1>2, InvStores, PTL
=============================================================================
