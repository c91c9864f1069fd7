---------------------------- MODULE AudioChunks ----------------------------
(***************************************************************************)
(* What becomes of the samples of one file after another: a new            *)
(* AudioFileParse for each reads and windows it, the one FFTProcessor of   *)
(* main() cuts it into chunks, transforms them in one buffer and keeps     *)
(* those that peak at the control note.  A sample is its file, its number  *)
(* among all that were read and how often it was windowed; int is narrow   *)
(* enough to overflow.                                                     *)
(***************************************************************************)
EXTENDS Integers, SequencesExt

CONSTANTS
  m_chunkSize,   \* 8192 in the program
  IntMax,        \* 2147483647 in the program
  FileLengths,   \* frames of a file
  ControlBins,   \* what controlNoteBin may be: in range, negative or too large
  Strengths,     \* magnitudes, in tenths
  MaxFiles       \* bound: files read

ASSUME ChunksAssumption ==
  /\ m_chunkSize \in Nat \ {0} /\ IntMax \in Nat /\ MaxFiles \in Nat
  /\ FileLengths \subseteq Nat /\ ControlBins \subseteq Int /\ Strengths \subseteq Nat

VARIABLE fft

AsInt(x) == ((x + IntMax + 1) % (2 * (IntMax + 1))) - (IntMax + 1)
Quotient(a, b) == IF a >= 0 THEN a \div b ELSE -((-a) \div b)
\* A signed sum that overflows is undefined: it wraps, or is computed wider.
Sums(a, b) == {a + b, AsInt(a + b)}

Sample(file, at, windows, nan) ==
  [file |-> file, at |-> at, windows |-> windows, nan |-> nan]
Zero == Sample(0, 0, 0, FALSE)
Junk == Sample(0, 0, 1, FALSE)   \* what planning with FFTW_MEASURE leaves
m_fftSize == m_chunkSize \div 2 + 1

ChunksInit ==
  fft = [stage |-> "idle", files |-> 0, m_audioData |-> <<>>,
         m_realInput |-> [i \in 1..m_chunkSize |-> Junk],
         controlNoteBin |-> 0, n |-> 0, numChunks |-> 0, chunk |-> 0,
         m_sampleStorage |-> <<>>,
         heard |-> 0,           \* samples read, of all files
         transforms |-> <<>>,   \* the inputs, and whether the chunk was kept
         narrow |-> FALSE]      \* a length that int cannot do sums with

-----------------------------------------------------------------------------
(* AudioFileParse.                                                         *)

\* libsndfile may refuse the file; the mono branch stores nothing, and with
\* more than two channels the function ends without a return statement.
readAudioFileAsMono(channels, frames) ==
  /\ fft.stage = "idle" /\ fft.files < MaxFiles
  /\ \E data \in {<<>>, IF channels = 2
                        THEN [i \in 1..frames |->
                                Sample(fft.files + 1, fft.heard + i, 0, FALSE)]
                        ELSE <<>>} :
       fft' = [fft EXCEPT !.files = @ + 1, !.m_audioData = data,
                          !.narrow = @ \/ Len(data) + m_chunkSize - 1 > IntMax,
                          !.heard = @ + Len(data), !.stage = "window"]
ReadCrashes(channels) ==
  /\ fft.stage = "idle" /\ fft.files < MaxFiles /\ channels > 2
  /\ fft' = [fft EXCEPT !.stage = "dead"]

\* The divisor is n - 1: one sample becomes 0.0 / 0.
Windowed(samples, n) ==
  [i \in DOMAIN samples |->
     LET s == samples[i] IN
     IF i > n THEN s ELSE Sample(s.file, s.at, s.windows + 1, n = 1)]

applyHanningWindow ==
  /\ fft.stage = "window"
  /\ fft' = [fft EXCEPT !.stage = "compute",
                        !.m_audioData = Windowed(@, AsInt(Len(@)))]

-----------------------------------------------------------------------------
(* FFTProcessor.  The transform itself is fftw's.                          *)

BeginCompute ==
  /\ fft.stage = "compute"
  /\ LET n == AsInt(Len(fft.m_audioData)) IN
     \E bin \in ControlBins, sum \in Sums(n, m_chunkSize - 1) :
       fft' = [fft EXCEPT !.stage = "chunks", !.controlNoteBin = bin, !.n = n,
                          !.numChunks = Quotient(sum, m_chunkSize), !.chunk = 0]

\* Neither 0 nor NaN, which every comparison is false of, is prominent.
isProminentPeak(nan, value, max) == ~nan /\ value > 0 /\ 10 * value >= 8 * max

\* Mutant: the buffer keeps the end of the chunk before.
FilledOver(input, samples) ==
  [i \in DOMAIN input |-> IF i <= Len(samples) THEN samples[i] ELSE input[i]]

\* std::fill and std::copy.
Filled(input, samples) ==
  [i \in DOMAIN input |-> IF i <= Len(samples) THEN samples[i] ELSE Zero]

\* One turn of the loop, storeChunkIfProminent included, whose bounds are
\* those of the copy.
ComputeChunk ==
  /\ fft.stage = "chunks" /\ fft.chunk < fft.numChunks
  /\ LET start == fft.chunk * m_chunkSize IN
     \E sum \in Sums(start, m_chunkSize), value \in Strengths, max \in Strengths :
       LET end     == IF sum < fft.n THEN sum ELSE fft.n
           samples == SubSeq(fft.m_audioData, start + 1, end)
           input   == Filled(fft.m_realInput, samples)
           nan     == \E i \in DOMAIN input : input[i].nan
           kept    == /\ fft.controlNoteBin \in 0..(m_fftSize - 1)
                      /\ isProminentPeak(nan, value, max) IN
       /\ value <= max
       /\ fft' = IF start > end \/ end > Len(fft.m_audioData)
                 THEN [fft EXCEPT !.stage = "overrun"]
                 ELSE [fft EXCEPT !.chunk = @ + 1, !.m_realInput = input,
                         !.transforms = Append(@, [input |-> input, kept |-> kept]),
                         !.m_sampleStorage = IF kept THEN @ \o samples ELSE @]

EndCompute ==
  /\ fft.stage = "chunks" /\ fft.chunk >= fft.numChunks
  /\ fft' = [fft EXCEPT !.stage = "idle"]

ChunksNext ==
  \/ \E channels \in 1..3, frames \in FileLengths : readAudioFileAsMono(channels, frames)
  \/ \E channels \in 1..3 : ReadCrashes(channels)
  \/ applyHanningWindow \/ BeginCompute \/ ComputeChunk \/ EndCompute

-----------------------------------------------------------------------------
\* The samples a chunk was made of.
Taken(input) == Range(input) \ {Zero}

\* Samples in order, and zeros only after them.
FromTheFront(input) ==
  \A i, j \in DOMAIN input :
    i < j /\ input[j] # Zero => input[i] # Zero /\ input[i].at < input[j].at

\* The first count samples are transformed once, in order.
Transformed(transforms, count) ==
  LET taken == [i \in DOMAIN transforms |-> Taken(transforms[i].input)] IN
  /\ {s.at : s \in UNION Range(taken)} = 1..count
  /\ \A i \in DOMAIN taken : FromTheFront(transforms[i].input)
  /\ \A i, j \in DOMAIN taken : i < j => \A s \in taken[i], t \in taken[j] : s.at < t.at

\* The product is the samples of the prominent chunks, in order.
Stored(samples, transforms) ==
  LET kept == {i \in DOMAIN transforms : transforms[i].kept} IN
  /\ Range(samples) = UNION {Taken(transforms[i].input) : i \in kept}
  /\ \A i, j \in DOMAIN samples : i < j => samples[i].at < samples[j].at

\* Over any files in a row, every sample of the audio is transformed once, in
\* order, windowed once, and beside nothing but samples of its file and zeros
\* after the last; the product is the prominent chunks and nothing else, and
\* the NaN of a file of one sample is not in it.  Nothing of this holds of a
\* file so long that int cannot count its chunks.
StoresPeaks ==
  ~fft.narrow =>
    /\ fft.stage # "overrun"
    /\ fft.stage = "idle" => Transformed(fft.transforms, fft.heard)
    /\ \A i \in DOMAIN fft.transforms :
         \A s, t \in Taken(fft.transforms[i].input) : s.windows = 1 /\ s.file = t.file
    /\ Stored(fft.m_sampleStorage, fft.transforms)
    /\ \A s \in Range(fft.m_sampleStorage) : ~s.nan

ChunksSpec == ChunksInit /\ [][ChunksNext]_fft
=============================================================================
