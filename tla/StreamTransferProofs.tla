------------------------ MODULE StreamTransferProofs ------------------------
(***************************************************************************)
(* Safety of the data phase for every file, number of streams, window,     *)
(* word size and report size.  First, that the streams of StreamLayout     *)
(* partition the chunks of a file, and what FirstMissing returns.          *)
(***************************************************************************)
EXTENDS StreamTransfer, FiniteSetTheorems, WellFoundedInduction, TLAPS

-----------------------------------------------------------------------------
(* The streams partition the chunks, for every number of both *)

\* Every non-empty set of naturals has a least element.
LEMMA LeastElement ==
    ASSUME NEW T \in SUBSET Nat, T # {}
    PROVE  \E x \in T : \A y \in T : x <= y
  <1>1. PICK x \in T : \A y \in T : ~ (<<y, x>> \in OpToRel(<, Nat))
    BY WFMin, NatLessThanWellFounded, ZenonT(60)
  <1>2. \A y \in T : ~ (y < x)
    BY <1>1, ZenonT(60) DEF OpToRel
  <1> QED BY <1>2

\* What division leaves.
LEMMA Division ==
    ASSUME NEW total \in Nat, NEW n \in Nat \ {0}
    PROVE  /\ total \div n \in Nat
           /\ total % n \in 0 .. n - 1
           /\ total = n * (total \div n) + (total % n)
  BY SMT

\* The first stream starts at the first chunk, the next one where this one
\* ends, and the last one ends with the file.
LEMMA Bases ==
    ASSUME NEW total \in Nat, NEW n \in Nat \ {0}
    PROVE  /\ ChunkBase(total, n, 0) = 0
           /\ ChunkBase(total, n, n) = total
           /\ \A s \in Nat : /\ ChunkBase(total, n, s) \in Nat
                             /\ ChunkCount(total, n, s) \in Nat
                             /\ ChunkBase(total, n, s + 1) =
                                    ChunkBase(total, n, s) + ChunkCount(total, n, s)
  <1> DEFINE q == total \div n
             r == total % n
  <1>1. q \in Nat /\ r \in 0 .. n - 1 /\ total = n * q + r
    BY Division, ZenonT(60)
  <1> HIDE DEF q, r
  <1>2. \A s \in Nat : ChunkBase(total, n, s) = s * q + (IF s <= r THEN s ELSE r)
    BY DEF ChunkBase, Least, q, r
  <1>3. \A s \in Nat : ChunkCount(total, n, s) = q + (IF s < r THEN 1 ELSE 0)
    BY DEF ChunkCount, q, r
  <1>4. \A s \in Nat : s * q \in Nat /\ (s + 1) * q = s * q + q
    BY <1>1, SMT
  <1>5. ChunkBase(total, n, 0) = 0
    BY <1>1, <1>2
  <1>6. ChunkBase(total, n, n) = total
    BY <1>1, <1>2
  <1>7. ASSUME NEW s \in Nat
        PROVE  /\ ChunkBase(total, n, s) \in Nat
               /\ ChunkCount(total, n, s) \in Nat
               /\ ChunkBase(total, n, s + 1) =
                      ChunkBase(total, n, s) + ChunkCount(total, n, s)
    <2>1. ChunkBase(total, n, s + 1) = (s + 1) * q + (IF s + 1 <= r THEN s + 1 ELSE r)
      BY <1>2, s + 1 \in Nat
    <2>2. ChunkBase(total, n, s) = s * q + (IF s <= r THEN s ELSE r)
      BY <1>2
    <2>3. ChunkCount(total, n, s) = q + (IF s < r THEN 1 ELSE 0)
      BY <1>3
    <2> QED BY <2>1, <2>2, <2>3, <1>1, <1>4
  <1> QED BY <1>5, <1>6, <1>7

\* No stream reaches beyond the file.
LEMMA StreamInFile ==
    ASSUME NEW total \in Nat, NEW n \in Nat \ {0}, NEW s \in 0 .. n - 1
    PROVE  ChunkBase(total, n, s) + ChunkCount(total, n, s) <= total
  <1> DEFINE End(k) == ChunkBase(total, n, k + 1)
             T == {k \in Nat : k <= n - 1 /\ ChunkBase(total, n, n - 1 - k + 1) > total}
  <1>1. ASSUME T # {} PROVE FALSE
    <2>1. PICK k \in T : \A j \in T : k <= j
      BY <1>1, LeastElement, T \in SUBSET Nat, ZenonT(60)
    <2>2. k # 0
      BY <2>1, Bases
    <2>3. k - 1 \in Nat /\ k - 1 \notin T
      BY <2>1, <2>2
    <2>4. ChunkBase(total, n, n - k + 1) <= total
      <3>1. n - 1 - (k - 1) + 1 = n - k + 1 /\ k - 1 <= n - 1
        BY <2>1
      <3>2. n - k + 1 \in Nat
        BY <2>1
      <3>3. ChunkBase(total, n, n - k + 1) \in Nat
        BY <3>2, Bases
      <3> QED BY <2>3, <3>1, <3>3
    <2>5. /\ ChunkBase(total, n, n - k + 1) = ChunkBase(total, n, n - k) + ChunkCount(total, n, n - k)
          /\ ChunkBase(total, n, n - k) \in Nat
          /\ ChunkCount(total, n, n - k) \in Nat
      BY <2>1, Bases, n - k \in Nat
    <2>6. ChunkBase(total, n, n - 1 - k + 1) = ChunkBase(total, n, n - k)
      BY <2>1, n - 1 - k + 1 = n - k
    <2> QED BY <2>1, <2>4, <2>5, <2>6
  <1>2. n - 1 - s \notin T
    BY <1>1, ZenonT(60)
  <1>3. ChunkBase(total, n, n - 1 - (n - 1 - s) + 1) \in Nat /\ n - 1 - (n - 1 - s) + 1 = s + 1
    BY Bases
  <1>4. ChunkBase(total, n, s + 1) <= total
    BY <1>2, <1>3
  <1> QED BY <1>4, Bases

\* Streams that come later lie higher.
LEMMA StreamsAscend ==
    ASSUME NEW total \in Nat, NEW n \in Nat \ {0}, NEW s \in Nat, NEW k \in Nat
    PROVE  ChunkBase(total, n, s) + ChunkCount(total, n, s)
               <= ChunkBase(total, n, s + 1 + k)
  <1> DEFINE T == {j \in Nat : ~ (ChunkBase(total, n, s + 1) <= ChunkBase(total, n, s + 1 + j))}
  <1>1. ASSUME T # {} PROVE FALSE
    <2>1. PICK j \in T : \A i \in T : j <= i
      BY <1>1, LeastElement, T \in SUBSET Nat, ZenonT(60)
    <2>2. j # 0
      BY <2>1, Bases
    <2>3. j - 1 \in Nat /\ j - 1 \notin T
      BY <2>1, <2>2
    <2>4. ChunkBase(total, n, s + 1) <= ChunkBase(total, n, s + 1 + (j - 1))
      BY <2>3
    <2>5. s + 1 + (j - 1) = s + j /\ s + j \in Nat /\ s + 1 + j = s + j + 1
      BY <2>1, <2>3
    <2>6. /\ ChunkBase(total, n, s + j + 1) = ChunkBase(total, n, s + j) + ChunkCount(total, n, s + j)
          /\ ChunkBase(total, n, s + j) \in Nat
          /\ ChunkCount(total, n, s + j) \in Nat
          /\ ChunkBase(total, n, s + 1) \in Nat
      BY <2>5, Bases, s + 1 \in Nat, ZenonT(60)
    <2> QED BY <2>1, <2>4, <2>5, <2>6
  <1>2. ChunkBase(total, n, s + 1) <= ChunkBase(total, n, s + 1 + k)
    BY <1>1, ZenonT(60)
  <1> QED BY <1>2, Bases

\* build_streams and build_recv_streams give every chunk to exactly one stream:
\* to one ...
THEOREM EveryChunkHasStream ==
    ASSUME NEW total \in Nat, NEW n \in Nat \ {0}, NEW c \in 0 .. total - 1
    PROVE  \E s \in 0 .. n - 1 : c \in ChunksOf(total, n, s)
  <1> DEFINE T == {s \in Nat : c < ChunkBase(total, n, s + 1)}
  <1>1. n - 1 \in T
    BY Bases, n - 1 + 1 = n, n - 1 \in Nat
  <1>2. PICK s \in T : \A k \in T : s <= k
    BY <1>1, LeastElement, T \in SUBSET Nat, ZenonT(60)
  <1>3. s \in 0 .. n - 1
    BY <1>1, <1>2
  <1>4. ChunkBase(total, n, s) <= c
    <2>1. CASE s = 0
      BY <2>1, Bases
    <2>2. CASE s # 0
      <3>1. s - 1 \in Nat /\ s - 1 \notin T /\ s - 1 + 1 = s
        BY <1>2, <2>2
      <3>2. ChunkBase(total, n, s) \in Nat
        BY <1>2, Bases, ZenonT(60)
      <3> QED BY <3>1, <3>2
    <2> QED BY <2>1, <2>2
  <1>5. /\ c < ChunkBase(total, n, s) + ChunkCount(total, n, s)
        /\ ChunkBase(total, n, s) \in Nat /\ ChunkCount(total, n, s) \in Nat
    <2>1. s \in Nat /\ c < ChunkBase(total, n, s + 1)
      BY <1>2
    <2> QED BY <2>1, Bases, ZenonT(60)
  <1> QED BY <1>3, <1>4, <1>5 DEF ChunksOf

\* ... and to no other.
THEOREM StreamsDisjoint ==
    ASSUME NEW total \in Nat, NEW n \in Nat \ {0}, NEW s \in Nat, NEW t \in Nat,
           s # t
    PROVE  ChunksOf(total, n, s) \cap ChunksOf(total, n, t) = {}
  <1>1. ASSUME NEW a \in Nat, NEW b \in Nat, a < b
        PROVE  ChunksOf(total, n, a) \cap ChunksOf(total, n, b) = {}
    <2>1. b - a - 1 \in Nat /\ a + 1 + (b - a - 1) = b
      BY <1>1
    <2>2. ChunkBase(total, n, a) + ChunkCount(total, n, a) <= ChunkBase(total, n, b)
      BY <2>1, StreamsAscend, ZenonT(60)
    <2>3. /\ ChunkBase(total, n, a) \in Nat /\ ChunkCount(total, n, a) \in Nat
          /\ ChunkBase(total, n, b) \in Nat /\ ChunkCount(total, n, b) \in Nat
      BY Bases, ZenonT(60)
    <2> QED BY <2>2, <2>3 DEF ChunksOf
  <1>2. s < t \/ t < s
    OBVIOUS
  <1> QED BY <1>1, <1>2

\* FirstMissing is where the scan comes to rest: everything before it is in S.
LEMMA FirstMissingIs ==
    ASSUME NEW S, NEW n \in Nat
    PROVE  /\ FirstMissing(S, n) \in 0 .. n
           /\ FirstMissing(S, n) = n \/ FirstMissing(S, n) \notin S
           /\ \A j \in 0 .. FirstMissing(S, n) - 1 : j \in S
  <1> DEFINE T == {k \in 0 .. n : k = n \/ k \notin S}
  <1>1. n \in T /\ T \in SUBSET Nat
    OBVIOUS
  <1>2. PICK k \in T : \A j \in T : k <= j
    <2>1. T # {}
      BY <1>1
    <2> QED BY <1>1, <2>1, LeastElement, ZenonT(60)
  <1>3. \A j \in 0 .. k - 1 : j \in S
    BY <1>2
  <1>4. \E i \in 0 .. n : (i = n \/ i \notin S) /\ \A j \in 0 .. i - 1 : j \in S
    BY <1>2, <1>3
  <1> QED BY <1>4 DEF FirstMissing

-----------------------------------------------------------------------------

\* Leaves that need arithmetic, records or sequences name the SMT solver.
USE Zenon

-----------------------------------------------------------------------------
(* The layout of the streams *)

\* Streams lie inside the file.
LEMMA StreamFacts ==
    ASSUME NEW s \in Streams
    PROVE  /\ Base(s) \in Nat /\ Count(s) \in Nat
           /\ Base(s) + Count(s) <= TotalChunks
           /\ Of(s) = Base(s) .. Base(s) + Count(s) - 1
           /\ Of(s) \subseteq Chunks
  <1>1. TotalChunks \in Nat /\ NumStreams \in Nat \ {0} /\ s \in Nat /\ s \in 0 .. NumStreams - 1
    BY TransferAssumption, SMTT(60) DEF Streams
  <1>2. Base(s) \in Nat /\ Count(s) \in Nat
    BY <1>1, Bases DEF Base, Count
  <1>3. Base(s) + Count(s) <= TotalChunks
    BY <1>1, StreamInFile DEF Base, Count
  <1>4. Of(s) = Base(s) .. Base(s) + Count(s) - 1
    BY DEF Of, ChunksOf, Base, Count
  <1> QED BY <1>1, <1>2, <1>3, <1>4, SMTT(60) DEF Chunks

\* Every chunk is found in its stream.
LEMMA StreamOfFacts ==
    ASSUME NEW c \in Chunks
    PROVE  StreamOf(c) \in Streams /\ c \in Of(StreamOf(c))
  <1>1. \E s \in Streams : c \in Of(s)
    BY TransferAssumption, EveryChunkHasStream DEF Streams, Chunks, Of
  <1> QED BY <1>1 DEF StreamOf

\* Two streams share no chunk.
LEMMA OtherStream ==
    ASSUME NEW s \in Streams, NEW t \in Streams, s # t
    PROVE  Of(s) \cap Of(t) = {}
  BY TransferAssumption, StreamsDisjoint, SMTT(60) DEF Streams, Of

-----------------------------------------------------------------------------
(* Cursors *)

\* A cursor rests inside its stream, on a gap or at the end, behind a run.
LEMMA RunLengthFacts ==
    ASSUME NEW S \in SUBSET Chunks, NEW s \in Streams
    PROVE  /\ RunLength(S, s) \in 0 .. Count(s)
           /\ RunLength(S, s) \in 0 .. TotalChunks
           /\ \A k \in 0 .. RunLength(S, s) - 1 : Base(s) + k \in S
           /\ RunLength(S, s) = Count(s) \/ Base(s) + RunLength(S, s) \notin S
  <1> DEFINE L == {c - Base(s) : c \in S \cap Of(s)}
             r == RunLength(S, s)
  <1>1. /\ Base(s) \in Nat /\ Count(s) \in Nat /\ Base(s) + Count(s) <= TotalChunks
        /\ Of(s) = Base(s) .. Base(s) + Count(s) - 1
    BY StreamFacts
  <1>2. /\ r \in 0 .. Count(s)
        /\ r = Count(s) \/ r \notin L
        /\ \A j \in 0 .. r - 1 : j \in L
    BY <1>1, FirstMissingIs DEF RunLength
  <1> HIDE DEF r
  <1>3. \A j \in Int : j \in L => Base(s) + j \in S
    BY <1>1, SMTT(60) DEF Chunks
  <1>4. \A j \in 0 .. Count(s) - 1 : Base(s) + j \in S => j \in L
    <2> SUFFICES ASSUME NEW j \in 0 .. Count(s) - 1, Base(s) + j \in S
                 PROVE  j \in L
      OBVIOUS
    <2>1. Base(s) + j \in S \cap Of(s) /\ (Base(s) + j) - Base(s) = j
      BY <1>1, SMTT(60)
    <2> QED BY <2>1
  <1> HIDE DEF L
  <1>5. r \in 0 .. TotalChunks
    BY <1>1, <1>2, TransferAssumption, SMTT(60)
  <1>6. \A k \in 0 .. r - 1 : Base(s) + k \in S
    BY <1>2, <1>3, SMTT(60)
  <1>7. r = Count(s) \/ Base(s) + r \notin S
    BY <1>1, <1>2, <1>4, SMTT(60)
  <1> QED BY <1>2, <1>5, <1>6, <1>7 DEF r

\* A run of m chunks takes the cursor at least to m.
LEMMA RunLengthAtLeast ==
    ASSUME NEW S \in SUBSET Chunks, NEW s \in Streams, NEW m \in 0 .. Count(s),
           \A k \in 0 .. m - 1 : Base(s) + k \in S
    PROVE  m <= RunLength(S, s)
  <1>1. Count(s) \in Nat
    BY StreamFacts
  <1>2. RunLength(S, s) \in 0 .. Count(s)
    BY RunLengthFacts
  <1>3. RunLength(S, s) = Count(s) \/ Base(s) + RunLength(S, s) \notin S
    BY RunLengthFacts
  <1> QED BY <1>1, <1>2, <1>3, SMTT(60)

\* A cursor only depends on the chunks of its own stream.
LEMMA RunLengthSame ==
    ASSUME NEW S, NEW T, NEW s, S \cap Of(s) = T \cap Of(s)
    PROVE  RunLength(S, s) = RunLength(T, s)
  BY DEF RunLength

-----------------------------------------------------------------------------
(* Reports *)

Reports == [stream: Streams, report: AckReports]

Named(a) == AckedBy(a.report, Base(a.stream), Count(a.stream), 0)

\* A report built from a stream's true prefix is well formed and true.
LEMMA ReportIsTrue ==
    ASSUME NEW s \in Streams, NEW chunks \in SUBSET Chunks, NEW p \in 0 .. Count(s),
           \A k \in 0 .. p - 1 : Base(s) + k \in chunks
    PROVE  /\ Report(s, chunks, p) \in Reports
           /\ Named(Report(s, chunks, p)) \subseteq chunks
  <1> DEFINE b == Base(s)
             n == Count(s)
             r == BuildAck(b, n, chunks, p)
  <1>1. b \in Nat /\ n \in Nat /\ b + n <= TotalChunks
    BY StreamFacts
  <1>2. TotalChunks \in Nat /\ WordSize \in Nat /\ TotalChunks < WordSize
        /\ MaxAckBits \in Nat \ {0} /\ MaxAckBits <= WordSize
    BY TransferAssumption, WordAssumption, AckBitsAssumption
  <1> HIDE DEF b, n
  <1>a. p \in 0 .. n /\ \A k \in 0 .. p - 1 : b + k \in chunks
    BY DEF b, n
  <1>3. r.hc = (IF p > 0 THEN b + p - 1 ELSE IF b >= 1 THEN b - 1 ELSE b - 1 + WordSize)
    BY DEF BuildAck, WrapSub
  <1>4. r.bits = {i \in 0 .. MaxAckBits - 1 : p + i < n /\ b + p + i \in chunks}
    BY DEF BuildAck
  <1>5. r \in AckReports
    <2>1. r.hc \in Words
      BY <1>1, <1>2, <1>3, <1>a, SMTT(60) DEF Words
    <2>2. r = [hc |-> r.hc, bits |-> r.bits]
      BY DEF BuildAck
    <2> QED BY <2>1, <2>2, <1>4 DEF AckReports
  <1> HIDE DEF r
  <1>6. AckedByPrefix(r, b, n, 0) \subseteq chunks
    <2> SUFFICES ASSUME NEW c \in AckedByPrefix(r, b, n, 0) PROVE c \in chunks
      OBVIOUS
    <2>1. r.hc >= b /\ r.hc < b + n /\ c \in b .. r.hc
      BY <1>1, SMTT(60) DEF AckedByPrefix, PrefixApplies
    <2>2. p > 0
      BY <2>1, <1>1, <1>2, <1>3, <1>a, SMTT(60)
    <2>3. r.hc = b + p - 1
      BY <2>2, <1>3
    <2>4. c - b \in 0 .. p - 1 /\ b + (c - b) = c
      BY <2>1, <2>3, <1>1, <1>a, SMTT(60)
    <2> QED BY <2>4, <1>a
  <1>7. AckedByBits(r, b, n) \subseteq chunks
    <2> SUFFICES ASSUME NEW c \in b .. b + n - 1, NEW i \in r.bits,
                        c = WrapAdd(WrapAdd(r.hc, 1), i)
                 PROVE  c \in chunks
      BY DEF AckedByBits
    <2>1. i \in 0 .. MaxAckBits - 1 /\ p + i < n /\ b + p + i \in chunks
      BY <1>4
    <2>2. WrapAdd(r.hc, 1) = b + p
      BY <1>1, <1>2, <1>3, <1>a, SMTT(60) DEF WrapAdd
    <2>3. WrapAdd(b + p, i) = b + p + i
      BY <1>1, <1>2, <1>a, <2>1, SMTT(60) DEF WrapAdd
    <2> QED BY <2>1, <2>2, <2>3
  <1>8. Report(s, chunks, p) = [stream |-> s, report |-> r]
    BY DEF Report, r, b, n
  <1>9. Named(Report(s, chunks, p)) = AckedByPrefix(r, b, n, 0) \cup AckedByBits(r, b, n)
    BY <1>8, SMTT(60) DEF Named, AckedBy, b, n
  <1> QED BY <1>5, <1>6, <1>7, <1>8, <1>9, SMTT(60) DEF Reports

-----------------------------------------------------------------------------
(* Sets of chunks *)

\* Sets of chunks are finite; one as large as the file is the file.
LEMMA ChunkSets ==
    ASSUME NEW S \in SUBSET Chunks
    PROVE  /\ IsFiniteSet(S) /\ Cardinality(S) \in Nat
           /\ Cardinality(S) <= TotalChunks
           /\ Cardinality(S) >= TotalChunks <=> S = Chunks
  <1>1. IsFiniteSet(Chunks) /\ Cardinality(Chunks) = TotalChunks
    BY TransferAssumption, FS_Interval, SMTT(60) DEF Chunks
  <1>2. /\ IsFiniteSet(S) /\ Cardinality(S) <= Cardinality(Chunks)
        /\ Cardinality(Chunks) = Cardinality(S) => Chunks = S
    BY <1>1, FS_Subset
  <1>3. Cardinality(S) \in Nat
    BY <1>2, FS_CardinalityType
  <1> QED BY <1>1, <1>2, <1>3, TransferAssumption, SMTT(60)

\* A non-empty set of chunks has a last one.
LEMMA LastChunk ==
    ASSUME NEW S \in SUBSET Chunks, S # {}
    PROVE  \E m \in S : \A c \in S : c <= m
  <1> DEFINE T == {TotalChunks - c : c \in S}
  <1>1. T \in SUBSET Nat /\ T # {}
    BY TransferAssumption, SMTT(60) DEF Chunks
  <1>2. PICK x \in T : \A y \in T : x <= y
    BY <1>1, LeastElement, ZenonT(60)
  <1>3. PICK m \in S : x = TotalChunks - m
    BY <1>2
  <1>4. ASSUME NEW c \in S PROVE c <= m
    <2>1. TotalChunks - m <= TotalChunks - c
      BY <1>2, <1>3
    <2> QED BY <2>1, TransferAssumption, SMTT(60) DEF Chunks
  <1> QED BY <1>3, <1>4

\* q lists the chunks of S in ascending order.
Lists(q, S) ==
    /\ q \in [1 .. Cardinality(S) -> S]
    /\ \A c \in S : \E i \in 1 .. Cardinality(S) : q[i] = c
    /\ \A i, j \in 1 .. Cardinality(S) : i < j => q[i] < q[j]

\* Every set of chunks can be listed.
LEMMA ListExists ==
    ASSUME NEW S \in SUBSET Chunks
    PROVE  \E q : Lists(q, S)
  <1> DEFINE T == {n \in Nat : \E R \in SUBSET Chunks : Cardinality(R) = n /\ ~ \E q : Lists(q, R)}
  <1>1. ASSUME T # {} PROVE FALSE
    <2>1. PICK n \in T : \A k \in T : n <= k
      BY <1>1, LeastElement, T \in SUBSET Nat, ZenonT(60)
    <2>2. PICK R \in SUBSET Chunks : Cardinality(R) = n /\ ~ \E q : Lists(q, R)
      BY <2>1
    <2>3. IsFiniteSet(R) /\ n \in Nat
      BY <2>1, <2>2, ChunkSets
    <2>4. R # {}
      <3>1. ASSUME R = {} PROVE FALSE
        <4>1. Cardinality(R) = 0
          BY <3>1, FS_EmptySet
        <4>2. Lists([i \in 1 .. 0 |-> 0], R)
          BY <3>1, <4>1, SMTT(60) DEF Lists
        <4> QED BY <4>2, <2>2
      <3> QED BY <3>1
    <2>5. PICK m \in R : \A c \in R : c <= m
      BY <2>4, LastChunk
    <2> DEFINE P == R \ {m}
    <2>6. IsFiniteSet(P) /\ Cardinality(P) = n - 1 /\ n - 1 \in Nat
      <3>1. IsFiniteSet(P) /\ Cardinality(P) = n - 1
        BY <2>2, <2>3, <2>5, FS_RemoveElement
      <3> QED BY <3>1, FS_CardinalityType
    <2>7. PICK q : Lists(q, P)
      <3>1. n - 1 \notin T
        BY <2>1, <2>3, <2>6, SMTT(60)
      <3> QED BY <3>1, <2>6
    <2> DEFINE p == [i \in 1 .. n |-> IF i < n THEN q[i] ELSE m]
    <2>8. Lists(p, R)
      <3>1. /\ q \in [1 .. n - 1 -> P]
            /\ \A c \in P : \E i \in 1 .. n - 1 : q[i] = c
            /\ \A i, j \in 1 .. n - 1 : i < j => q[i] < q[j]
        BY <2>6, <2>7, ZenonT(60) DEF Lists
      <3>2. p \in [1 .. n -> R]
        BY <3>1, <2>3, <2>5, SMTT(60)
      <3>3. \A c \in R : \E i \in 1 .. n : p[i] = c
        <4> SUFFICES ASSUME NEW c \in R PROVE \E i \in 1 .. n : p[i] = c
          OBVIOUS
        <4>1. CASE c = m
          <5>1. n \in 1 .. n /\ p[n] = m
            BY <2>3, <2>6, SMTT(60)
          <5> QED BY <4>1, <5>1
        <4>2. CASE c # m
          <5>1. PICK i \in 1 .. n - 1 : q[i] = c
            BY <4>2, <3>1
          <5> QED BY <5>1, <2>3, SMTT(60)
        <4> QED BY <4>1, <4>2
      <3>4. \A c \in P : c < m
        BY <2>5, SMTT(60) DEF Chunks
      <3>5. \A i, j \in 1 .. n : i < j => p[i] < p[j]
        BY <3>1, <3>4, <2>3, SMTT(60)
      <3> QED BY <2>2, <3>2, <3>3, <3>5 DEF Lists
    <2> QED BY <2>2, <2>8
  <1>2. Cardinality(S) \notin T
    BY <1>1
  <1> QED BY <1>2, ChunkSets

\* Ascending and Descending are sequences of the chunks of S.
LEMMA ListFacts ==
    ASSUME NEW S \in SUBSET Chunks
    PROVE  Ascending(S) \in Seq(Chunks) /\ Descending(S) \in Seq(Chunks)
  <1>1. Lists(Ascending(S), S)
    BY ListExists, ZenonT(60) DEF Lists, Ascending
  <1>2. Ascending(S) \in [1 .. Cardinality(S) -> S]
    BY <1>1 DEF Lists
  <1>3. Cardinality(S) \in Nat
    BY ChunkSets
  <1>4. Descending(S) \in [1 .. Cardinality(S) -> S]
    BY <1>2, <1>3, SMTT(60) DEF Descending
  <1> QED BY <1>2, <1>3, <1>4, SMTT(60)

-----------------------------------------------------------------------------
(* The invariant *)

GapRecords == [expected: 0 .. TotalChunks, start: {NoGap} \cup 0 .. TotalChunks,
               counter: Nat]
Nacks == [stream: Streams, chunks: SUBSET Chunks]

SenderType ==
    /\ acked \in SUBSET Chunks
    /\ nextLocal \in [Streams -> 0 .. TotalChunks]
    /\ retx \in [Streams -> Seq(Chunks)]
    /\ inRetx \in SUBSET Chunks /\ retransmitted \in SUBSET Chunks
    /\ scanCursor \in [Streams -> 0 .. TotalChunks]
    /\ hcApplied \in [Streams -> 0 .. TotalChunks]
    /\ age \in [Chunks -> Recent .. Expired]
    /\ inFlight \in Nat
    /\ tx \in {"sending", "finishing", "ok", "stalled"}
    /\ copies \in [Chunks -> 0 .. 2]

ReceiverType ==
    /\ received \in SUBSET Chunks
    /\ nReceived \in Nat
    /\ contigPrefix \in [Streams -> 0 .. TotalChunks]
    /\ sinceAck \in [Streams -> Nat]
    /\ gap \in [Streams -> GapRecords]
    /\ nacked \in SUBSET Chunks
    /\ tail \in BOOLEAN
    /\ rx \in {"receiving", "stored", "incomplete", "silent"}

NetType ==
    /\ dataNet \in SUBSET Chunks
    /\ ackNet \in SUBSET Reports
    /\ nackNet \in SUBSET Nacks
    /\ finNet \in BOOLEAN

\* TypeOK in its three parts.
LEMMA TypeParts == TypeOK <=> SenderType /\ ReceiverType /\ NetType
  BY DEF TypeOK, SenderType, ReceiverType, NetType, Reports, Nacks, GapRecords

\* What the cursors of each end say.
SenderCursors ==
    \A s \in Streams : /\ scanCursor[s] = RunLength(acked, s)
                       /\ hcApplied[s] <= RunLength(acked, s)

ReceiverCursors ==
    /\ \A s \in Streams : contigPrefix[s] = RunLength(received, s)
    /\ nReceived = Cardinality(received)

\* Why the ends conclude what they conclude.
Endings ==
    /\ tail => received = Chunks
    /\ received = Chunks /\ Present # Chunks => tail
    /\ finNet => tx \in {"finishing", "ok"}
    /\ tx \in {"finishing", "ok"} => received = Chunks
    /\ rx # "incomplete"

IInv ==
    /\ SenderType /\ ReceiverType /\ NetType
    /\ AckedIsReceived
    /\ ReportsTrue
    /\ SenderCursors /\ ReceiverCursors
    /\ Endings

\* The invariant says what is claimed.
LEMMA InvariantImplies ==
    IInv => TypeOK /\ AckedIsReceived /\ ReportsTrue /\ FinishMeansComplete /\ CursorsExact
  BY TypeParts DEF IInv, Endings, FinishMeansComplete, SenderCursors, ReceiverCursors, CursorsExact

\* What resume and holes bring is counted once.
LEMMA InitialCountIs == InitialCount = Cardinality(Present)
  <1>1. Resume \in SUBSET Chunks /\ ZeroRuns \ Resume \in SUBSET Chunks
    BY TransferAssumption
  <1>2. IsFiniteSet(Resume) /\ IsFiniteSet(ZeroRuns \ Resume)
    BY <1>1, ChunkSets
  <1>3. Cardinality(Resume \cup (ZeroRuns \ Resume)) =
            Cardinality(Resume) + Cardinality(ZeroRuns \ Resume)
                - Cardinality(Resume \cap (ZeroRuns \ Resume))
    BY <1>2, FS_Union
  <1>4. Resume \cap (ZeroRuns \ Resume) = {} /\ Resume \cup (ZeroRuns \ Resume) = Present
    BY DEF Present
  <1>5. Cardinality(Resume) \in Nat /\ Cardinality(ZeroRuns \ Resume) \in Nat
    BY <1>1, ChunkSets
  <1>6. Cardinality(Resume \cap (ZeroRuns \ Resume)) = 0
    BY <1>4, FS_EmptySet
  <1>7. Cardinality(Present) = Cardinality(Resume) + Cardinality(ZeroRuns \ Resume)
    BY <1>3, <1>4, <1>5, <1>6, SMTT(60)
  <1> QED BY <1>7 DEF InitialCount

\* The invariant holds when the transfer starts.
LEMMA InitInv == Init => IInv
  <1> SUFFICES ASSUME Init PROVE IInv
    OBVIOUS
  <1>1. Present \in SUBSET Chunks
    BY TransferAssumption DEF Present
  <1>2. \A s \in Streams : RunLength(Present, s) \in 0 .. TotalChunks
    BY <1>1, RunLengthFacts
  <1>3. TotalChunks \in Nat
    BY TransferAssumption
  <1>4. SenderType
    BY <1>1, <1>2, <1>3, SMTT(60) DEF Init, SenderType, Recent, Expired
  <1>5. ReceiverType
    <2>1. InitialCount \in Nat
      BY <1>1, InitialCountIs, ChunkSets
    <2>2. NewGap \in GapRecords
      BY <1>3, SMTT(60) DEF NewGap, GapRecords, NoGap
    <2> QED BY <1>1, <1>2, <2>1, <2>2, ZenonT(60) DEF Init, ReceiverType
  <1>6. NetType
    BY ZenonT(60) DEF Init, NetType
  <1>7. AckedIsReceived /\ ReportsTrue
    BY DEF Init, AckedIsReceived, ReportsTrue
  <1>8. SenderCursors
    BY <1>2, <1>3, SMTT(60) DEF Init, SenderCursors
  <1>9. ReceiverCursors
    BY InitialCountIs DEF Init, ReceiverCursors
  <1>10. Endings
    BY DEF Init, Endings
  <1> QED BY <1>4, <1>5, <1>6, <1>7, <1>8, <1>9, <1>10 DEF IInv

-----------------------------------------------------------------------------
(* The sender's steps *)

\* Popping a queue leaves a queue.
LEMMA PopType ==
    ASSUME SenderType, NEW s \in Streams, NEW n \in 0 .. Len(retx[s]), Pop(s, n)
    PROVE  retx' \in [Streams -> Seq(Chunks)] /\ inRetx' \in SUBSET Chunks
  <1>1. retx \in [Streams -> Seq(Chunks)] /\ inRetx \in SUBSET Chunks
    BY DEF SenderType
  <1>2. retx[s] \in Seq(Chunks) /\ Len(retx[s]) \in Nat
    BY <1>1, SMTT(60)
  <1>3. SubSeq(retx[s], n + 1, Len(retx[s])) \in Seq(Chunks)
    <2>1. \A i \in n + 1 .. Len(retx[s]) : retx[s][i] \in Chunks
      BY <1>2, SMTT(60)
    <2> QED BY <1>2, <2>1, SMTT(60)
  <1> QED BY <1>1, <1>3 DEF Pop

\* A transmission only touches stamps, counters and the network.
LEMMA TransmitType ==
    ASSUME SenderType, NetType, NEW c \in Chunks, Transmit(c)
    PROVE  /\ age' \in [Chunks -> Recent .. Expired] /\ copies' \in [Chunks -> 0 .. 2]
           /\ inFlight' \in Nat
           /\ NetType'
  <1>1. Recent \in Recent .. Expired
    BY SMTT(60) DEF Recent, Expired
  <1>2. age' \in [Chunks -> Recent .. Expired]
    BY <1>1 DEF SenderType, Transmit
  <1>3. copies' \in [Chunks -> 0 .. 2]
    BY SMTT(60) DEF SenderType, Transmit
  <1>4. inFlight' \in Nat
    BY SMTT(60) DEF SenderType, Transmit
  <1>5. NetType'
    BY DEF NetType, Transmit
  <1> QED BY <1>2, <1>3, <1>4, <1>5

\* A step that leaves acknowledgements, reports, FINISH and the daemon alone
\* leaves everything but types alone.
LEMMA QuietStep ==
    ASSUME IInv, SenderType', NetType',
           UNCHANGED <<acked, scanCursor, hcApplied, tx, receiverVars, finNet>>,
           ackNet' \subseteq ackNet
    PROVE  IInv'
  <1>1. ReceiverType'
    BY DEF IInv, ReceiverType, receiverVars
  <1>2. AckedIsReceived' /\ ReportsTrue'
    BY DEF IInv, AckedIsReceived, ReportsTrue, receiverVars
  <1>3. SenderCursors' /\ ReceiverCursors'
    BY DEF IInv, SenderCursors, ReceiverCursors, receiverVars
  <1>4. Endings'
    BY DEF IInv, Endings, receiverVars
  <1> QED BY <1>1, <1>2, <1>3, <1>4 DEF IInv

\* The staging loop.
LEMMA StageInv ==
    ASSUME IInv, NEW s \in Streams, Stage(s)
    PROVE  IInv'
  <1>1. SenderType /\ NetType
    BY DEF IInv
  <1>2. retx[s] \in Seq(Chunks) /\ Len(retx[s]) \in Nat
    BY <1>1, SMTT(60) DEF SenderType
  <1>3. /\ Base(s) \in Nat /\ Count(s) \in Nat /\ Base(s) + Count(s) <= TotalChunks
        /\ TotalChunks \in Nat
    BY StreamFacts, TransferAssumption
  <1>4. CASE SendRetx(s)
    <2>1. PICK i \in Live(s) : Pop(s, i) /\ Transmit(retx[s][i])
      BY <1>4 DEF SendRetx
    <2>2. i \in 0 .. Len(retx[s]) /\ retx[s][i] \in Chunks
      BY <1>2, SMTT(60) DEF Live
    <2>3. retx' \in [Streams -> Seq(Chunks)] /\ inRetx' \in SUBSET Chunks
      BY <1>1, <2>1, <2>2, PopType
    <2>4. /\ age' \in [Chunks -> Recent .. Expired] /\ copies' \in [Chunks -> 0 .. 2]
          /\ inFlight' \in Nat /\ NetType'
      BY <1>1, <2>1, <2>2, TransmitType
    <2>5. UNCHANGED <<nextLocal, acked, retransmitted, scanCursor, hcApplied, tx,
                      receiverVars, ackNet, finNet>>
      BY <1>4, <2>1 DEF SendRetx, Transmit
    <2>6. SenderType'
      BY <1>1, <2>3, <2>4, <2>5 DEF SenderType
    <2> QED BY <2>4, <2>5, <2>6, QuietStep
  <1>5. CASE SendNew(s)
    <2>1. PICK n \in nextLocal[s] .. Count(s) - 1 :
              /\ nextLocal' = [nextLocal EXCEPT ![s] = n + 1]
              /\ Pop(s, Len(retx[s])) /\ Transmit(Base(s) + n)
      BY <1>5, ZenonT(60) DEF SendNew
    <2>2. nextLocal[s] \in 0 .. TotalChunks
      BY <1>1 DEF SenderType
    <2>3. Base(s) + n \in Chunks /\ n + 1 \in 0 .. TotalChunks
      BY <1>3, <2>2, SMTT(60) DEF Chunks
    <2>4. retx' \in [Streams -> Seq(Chunks)] /\ inRetx' \in SUBSET Chunks
      BY <1>1, <1>2, <2>1, PopType, SMTT(60)
    <2>5. /\ age' \in [Chunks -> Recent .. Expired] /\ copies' \in [Chunks -> 0 .. 2]
          /\ inFlight' \in Nat /\ NetType'
      BY <1>1, <2>1, <2>3, TransmitType
    <2>6. UNCHANGED <<acked, retransmitted, scanCursor, hcApplied, tx,
                      receiverVars, ackNet, finNet>>
      BY <2>1 DEF Transmit
    <2>7. nextLocal' \in [Streams -> 0 .. TotalChunks]
      BY <1>1, <2>1, <2>3 DEF SenderType
    <2>8. SenderType'
      BY <1>1, <2>4, <2>5, <2>6, <2>7 DEF SenderType
    <2> QED BY <2>5, <2>6, <2>8, QuietStep
  <1>6. CASE SendNothing(s)
    <2>1. Pop(s, Len(retx[s])) /\ nextLocal' = [nextLocal EXCEPT ![s] = Count(s)]
      BY <1>6 DEF SendNothing
    <2>2. retx' \in [Streams -> Seq(Chunks)] /\ inRetx' \in SUBSET Chunks
      BY <1>1, <1>2, <2>1, PopType, SMTT(60)
    <2>3. nextLocal' \in [Streams -> 0 .. TotalChunks]
      BY <1>1, <1>3, <2>1, SMTT(60) DEF SenderType
    <2>4. UNCHANGED <<acked, retransmitted, scanCursor, hcApplied, age, inFlight,
                      tx, copies, receiverVars, netVars>>
      BY <1>6 DEF SendNothing
    <2>5. SenderType'
      BY <1>1, <2>2, <2>3, <2>4 DEF SenderType
    <2>6. NetType' /\ ackNet' = ackNet /\ finNet' = finNet
      BY <1>1, <2>4 DEF NetType, netVars
    <2> QED BY <2>4, <2>5, <2>6, QuietStep
  <1> QED BY <1>4, <1>5, <1>6 DEF Stage

\* Chunks a report acknowledges lie in its stream and are among those it names.
LEMMA AckedByFacts ==
    ASSUME NEW s \in Streams, NEW r \in AckReports, NEW h \in Nat
    PROVE  /\ AckedBy(r, Base(s), Count(s), h) \subseteq Of(s)
           /\ AckedBy(r, Base(s), Count(s), h) \subseteq AckedBy(r, Base(s), Count(s), 0)
  <1>1. /\ Base(s) \in Nat /\ Count(s) \in Nat
        /\ Of(s) = Base(s) .. Base(s) + Count(s) - 1
    BY StreamFacts
  <1>2. r.hc \in Nat
    BY WordAssumption, SMTT(60) DEF AckReports, Words
  <1>3. AckedByBits(r, Base(s), Count(s)) \subseteq Of(s)
    BY <1>1 DEF AckedByBits
  <1>4. AckedByPrefix(r, Base(s), Count(s), h) \subseteq Of(s)
    BY <1>1, <1>2, SMTT(60) DEF AckedByPrefix, PrefixApplies
  <1>5. AckedByPrefix(r, Base(s), Count(s), h) \subseteq AckedByPrefix(r, Base(s), Count(s), 0)
    BY <1>1, <1>2, SMTT(60) DEF AckedByPrefix, PrefixApplies
  <1> QED BY <1>3, <1>4, <1>5 DEF AckedBy

\* hc_applied never passes the end of the acknowledged run.
LEMMA HcAppliedFacts ==
    ASSUME NEW s \in Streams, NEW r \in AckReports, NEW S \in SUBSET Chunks,
           NEW h \in Nat, h <= RunLength(S, s),
           NEW T \in SUBSET Chunks, S \subseteq T,
           AckedBy(r, Base(s), Count(s), h) \subseteq T
    PROVE  /\ HcAppliedAfter(r, Base(s), Count(s), h) \in 0 .. TotalChunks
           /\ HcAppliedAfter(r, Base(s), Count(s), h) <= RunLength(T, s)
  <1> DEFINE b == Base(s)
             n == Count(s)
  <1>1. b \in Nat /\ n \in Nat /\ b + n <= TotalChunks /\ TotalChunks \in Nat
    BY StreamFacts, TransferAssumption
  <1>2. r.hc \in Nat
    BY WordAssumption, SMTT(60) DEF AckReports, Words
  <1>3. /\ RunLength(S, s) \in 0 .. n /\ RunLength(S, s) <= TotalChunks
        /\ \A k \in 0 .. RunLength(S, s) - 1 : b + k \in S
    BY RunLengthFacts, <1>1, SMTT(60)
  <1>4. \A k \in 0 .. h - 1 : b + k \in T
    BY <1>3, SMTT(60)
  <1>5. CASE PrefixApplies(r, b, n) /\ b + h <= r.hc
    <2>1. HcAppliedAfter(r, b, n, h) = r.hc - b + 1
      BY <1>5 DEF HcAppliedAfter
    <2>2. r.hc >= b /\ r.hc < b + n
      BY <1>5 DEF PrefixApplies
    <2>3. b + h .. r.hc \subseteq T
      BY <1>5 DEF AckedBy, AckedByPrefix
    <2>4. \A k \in 0 .. (r.hc - b + 1) - 1 : b + k \in T
      <3> SUFFICES ASSUME NEW k \in 0 .. (r.hc - b + 1) - 1 PROVE b + k \in T
        OBVIOUS
      <3>1. CASE k < h
        BY <3>1, <1>4, SMTT(60)
      <3>2. CASE k >= h
        BY <3>2, <2>3, <1>1, <1>2, SMTT(60)
      <3> QED BY <3>1, <3>2, SMTT(60)
    <2>5. r.hc - b + 1 \in 0 .. n
      BY <2>2, <1>1, <1>2, SMTT(60)
    <2>6. r.hc - b + 1 <= RunLength(T, s)
      BY <2>4, <2>5, RunLengthAtLeast
    <2> QED BY <2>1, <2>5, <2>6, <1>1, SMTT(60)
  <1>6. CASE ~ (PrefixApplies(r, b, n) /\ b + h <= r.hc)
    <2>1. HcAppliedAfter(r, b, n, h) = h
      BY <1>6 DEF HcAppliedAfter
    <2>2. h \in 0 .. n
      BY <1>1, <1>3, SMTT(60)
    <2>3. h <= RunLength(T, s)
      BY <1>4, <2>2, RunLengthAtLeast
    <2> QED BY <2>1, <2>2, <2>3, <1>1, SMTT(60)
  <1> QED BY <1>5, <1>6

\* process_ack_bitmap.
LEMMA ProcessAckInv ==
    ASSUME IInv, NEW a \in ackNet, ProcessAck(a)
    PROVE  IInv'
  <1> DEFINE s == a.stream
             r == a.report
             named == AckedBy(r, Base(s), Count(s), hcApplied[s])
             newly == named \ acked
  <1>1. SenderType /\ NetType /\ ReceiverType
    BY DEF IInv
  <1>2. s \in Streams /\ r \in AckReports
    BY <1>1 DEF NetType, Reports
  <1>3. hcApplied[s] \in 0 .. TotalChunks /\ hcApplied[s] \in Nat
    BY <1>1, <1>2, SMTT(60) DEF SenderType
  <1>4. named \subseteq Of(s) /\ named \subseteq received
    <2>1. named \subseteq Of(s) /\ named \subseteq AckedBy(r, Base(s), Count(s), 0)
      BY <1>2, <1>3, AckedByFacts
    <2>2. AckedBy(r, Base(s), Count(s), 0) \subseteq received
      BY DEF IInv, ReportsTrue
    <2> QED BY <2>1, <2>2
  <1>5. /\ acked' = acked \cup newly
        /\ inFlight' = SatSub(inFlight, Cardinality(newly))
        /\ scanCursor' = [scanCursor EXCEPT ![s] = RunLength(acked', s)]
        /\ hcApplied' = [hcApplied EXCEPT ![s] = HcAppliedAfter(r, Base(s), Count(s), hcApplied[s])]
        /\ UNCHANGED <<nextLocal, retx, inRetx, retransmitted, age, tx, copies,
                       receiverVars, dataNet, nackNet, finNet>>
    BY DEF ProcessAck
  <1>6. ackNet' \subseteq ackNet
    BY DEF ProcessAck, Used
  <1>7. Of(s) \subseteq Chunks
    BY <1>2, StreamFacts
  <1> HIDE DEF named
  <1>8. acked \in SUBSET Chunks /\ acked' \in SUBSET Chunks /\ newly \in SUBSET Chunks
    BY <1>1, <1>4, <1>5, <1>7 DEF SenderType
  <1> HIDE DEF s, r, newly
  <1>9. AckedIsReceived'
    <2>1. acked \subseteq received /\ received' = received
      BY <1>5 DEF IInv, AckedIsReceived, receiverVars
    <2> QED BY <2>1, <1>4, <1>5 DEF AckedIsReceived, newly
  <1>10. /\ HcAppliedAfter(r, Base(s), Count(s), hcApplied[s]) \in 0 .. TotalChunks
         /\ HcAppliedAfter(r, Base(s), Count(s), hcApplied[s]) <= RunLength(acked', s)
    <2>1. hcApplied[s] <= RunLength(acked, s)
      BY <1>2 DEF IInv, SenderCursors
    <2>2. acked \subseteq acked' /\ named \subseteq acked'
      BY <1>5 DEF newly
    <2> QED BY <1>2, <1>3, <1>8, <2>1, <2>2, HcAppliedFacts DEF named
  <1>11. RunLength(acked', s) \in 0 .. TotalChunks
    BY <1>2, <1>8, RunLengthFacts
  <1>12. SenderCursors'
    <2> SUFFICES ASSUME NEW t \in Streams
                 PROVE  /\ scanCursor'[t] = RunLength(acked', t)
                        /\ hcApplied'[t] <= RunLength(acked', t)
      BY DEF SenderCursors
    <2>1. scanCursor[t] = RunLength(acked, t) /\ hcApplied[t] <= RunLength(acked, t)
      BY DEF IInv, SenderCursors
    <2>2. CASE t = s
      BY <2>2, <1>1, <1>2, <1>5, <1>10 DEF SenderType
    <2>3. CASE t # s
      <3>1. Of(s) \cap Of(t) = {}
        BY <1>2, <2>3, OtherStream
      <3>2. acked' \cap Of(t) = acked \cap Of(t)
        BY <3>1, <1>4, <1>5 DEF newly
      <3>3. RunLength(acked', t) = RunLength(acked, t)
        BY <3>2, RunLengthSame, ZenonT(60)
      <3>4. scanCursor'[t] = scanCursor[t] /\ hcApplied'[t] = hcApplied[t]
        BY <2>3, <1>1, <1>5 DEF SenderType
      <3> QED BY <2>1, <3>3, <3>4, ZenonT(60)
    <2> QED BY <2>2, <2>3
  <1>13. SenderType'
    <2>1. Cardinality(newly) \in Nat
      BY <1>8, ChunkSets
    <2>2. inFlight' \in Nat
      BY <1>1, <1>5, <2>1, SMTT(60) DEF SenderType, SatSub
    <2>3. scanCursor' \in [Streams -> 0 .. TotalChunks]
      BY <1>1, <1>5, <1>11, ZenonT(60) DEF SenderType
    <2>4. hcApplied' \in [Streams -> 0 .. TotalChunks]
      BY <1>1, <1>5, <1>10, ZenonT(60) DEF SenderType
    <2> QED BY <1>1, <1>5, <1>8, <2>2, <2>3, <2>4 DEF SenderType
  <1>14. NetType' /\ ReceiverType'
    BY <1>1, <1>5, <1>6 DEF NetType, ReceiverType, receiverVars
  <1>15. ReportsTrue' /\ ReceiverCursors' /\ Endings'
    BY <1>5, <1>6, ZenonT(60) DEF IInv, ReportsTrue, ReceiverCursors, Endings, receiverVars
  <1> QED BY <1>9, <1>12, <1>13, <1>14, <1>15 DEF IInv

\* process_nack.
LEMMA ProcessNackInv ==
    ASSUME IInv, NEW m \in nackNet, ProcessNack(m)
    PROVE  IInv'
  <1> DEFINE lost == NackedHere(m.stream, m.chunks)
  <1>1. SenderType /\ NetType
    BY DEF IInv
  <1>2. m.stream \in Streams /\ m.chunks \in SUBSET Chunks
    BY <1>1 DEF NetType, Nacks
  <1>3. lost \in SUBSET Chunks
    BY <1>2 DEF NackedHere
  <1>4. /\ retx' = [retx EXCEPT ![m.stream] = Descending(lost) \o @]
        /\ inRetx' = inRetx \cup lost
        /\ retransmitted' = retransmitted \cup lost
        /\ nackNet' \subseteq nackNet
        /\ UNCHANGED <<acked, nextLocal, scanCursor, hcApplied, age, inFlight, tx,
                       copies, receiverVars, dataNet, ackNet, finNet>>
    BY DEF ProcessNack, Used
  <1> HIDE DEF lost
  <1>5. Descending(lost) \o retx[m.stream] \in Seq(Chunks)
    <2>1. retx[m.stream] \in Seq(Chunks) /\ Descending(lost) \in Seq(Chunks)
      BY <1>1, <1>2, <1>3, ListFacts DEF SenderType
    <2> QED BY <2>1, SMTT(60)
  <1>6. retx' \in [Streams -> Seq(Chunks)]
    BY <1>1, <1>4, <1>5, ZenonT(60) DEF SenderType
  <1>7. SenderType'
    BY <1>1, <1>3, <1>4, <1>6 DEF SenderType
  <1>8. NetType'
    BY <1>1, <1>4 DEF NetType
  <1> QED BY <1>4, <1>7, <1>8, QuietStep

\* The set of all queue entries is finite.
LEMMA QueueSlotsFinite ==
    ASSUME SenderType
    PROVE  IsFiniteSet(QueueSlots) /\ Cardinality(QueueSlots) \in Nat
  <1> DEFINE Slots(s) == {<<s, i>> : i \in 1 .. Len(retx[s])}
             All == {Slots(s) : s \in Streams}
  <1>1. IsFiniteSet(Streams)
    BY TransferAssumption, FS_Interval, SMTT(60) DEF Streams
  <1>2. ASSUME NEW s \in Streams PROVE IsFiniteSet(Slots(s))
    <2>1. Len(retx[s]) \in Nat
      BY SMTT(60) DEF SenderType
    <2>2. IsFiniteSet(1 .. Len(retx[s]))
      BY <2>1, FS_Interval, SMTT(60)
    <2>3. [i \in 1 .. Len(retx[s]) |-> <<s, i>>] \in Surjection(1 .. Len(retx[s]), Slots(s))
      BY DEF Surjection
    <2> QED BY <2>2, <2>3, FS_Surjection, SMTT(60)
  <1>3. IsFiniteSet(All)
    <2>1. [s \in Streams |-> Slots(s)] \in Surjection(Streams, All)
      BY ZenonT(60) DEF Surjection
    <2> QED BY <1>1, <2>1, FS_Surjection
  <1>4. \A T \in All : IsFiniteSet(T)
    BY <1>2
  <1> HIDE DEF All
  <1>5. IsFiniteSet(UNION All)
    BY <1>3, <1>4, FS_UNION
  <1>6. QueueSlots = UNION All
    BY DEF QueueSlots, All
  <1> QED BY <1>5, <1>6, FS_CardinalityType

\* The set of chunks gone past is finite.
LEMMA SentSlotsFinite ==
    ASSUME SenderType
    PROVE  IsFiniteSet(SentSlots) /\ Cardinality(SentSlots) \in Nat
  <1>1. ASSUME NEW c \in SentSlots PROVE c \in 0 .. TotalChunks + TotalChunks
    <2>1. PICK s \in Streams : \E n \in 0 .. nextLocal[s] - 1 : c = Base(s) + n
      BY DEF SentSlots
    <2>2. PICK n \in 0 .. nextLocal[s] - 1 : c = Base(s) + n
      BY <2>1
    <2>3. nextLocal[s] \in 0 .. TotalChunks
      BY DEF SenderType
    <2>4. Base(s) \in Nat /\ Count(s) \in Nat /\ Base(s) + Count(s) <= TotalChunks
      BY StreamFacts
    <2> QED BY <2>2, <2>3, <2>4, TransferAssumption, SMTT(60)
  <1>2. IsFiniteSet(0 .. TotalChunks + TotalChunks)
    BY TransferAssumption, FS_Interval, SMTT(60)
  <1>3. IsFiniteSet(SentSlots)
    BY <1>1, <1>2, FS_Subset, ZenonT(60)
  <1> QED BY <1>3, FS_CardinalityType

\* The retransmit scan.
LEMMA RetxScanInv ==
    ASSUME IInv, RetxScan
    PROVE  IInv'
  <1> DEFINE lost == UNION {TimedOut(s) : s \in Streams}
             outstanding == SatSub(Cardinality(SentSlots), Cardinality(acked))
             derived == SatSub(outstanding, Cardinality(QueueSlots))
  <1>1. SenderType /\ NetType
    BY DEF IInv
  <1>2. \A s \in Streams : TimedOut(s) \in SUBSET Chunks
    BY StreamFacts DEF TimedOut
  <1>3. lost \in SUBSET Chunks
    BY <1>2
  <1>4. /\ retx' = [s \in Streams |-> retx[s] \o Ascending(TimedOut(s))]
        /\ inRetx' = inRetx \cup lost
        /\ retransmitted' = retransmitted \cup lost
        /\ inFlight' = SatSub(derived, Cardinality(lost))
        /\ UNCHANGED <<acked, nextLocal, scanCursor, hcApplied, age, tx, copies,
                       receiverVars, netVars>>
    BY DEF RetxScan, MarkRetransmitted
  <1>5. inFlight' \in Nat
    <2>1. /\ Cardinality(SentSlots) \in Nat /\ Cardinality(QueueSlots) \in Nat
          /\ Cardinality(acked) \in Nat /\ Cardinality(lost) \in Nat
      BY <1>1, <1>3, SentSlotsFinite, QueueSlotsFinite, ChunkSets DEF SenderType
    <2>2. \A x, y \in Nat : SatSub(x, y) \in Nat
      BY SMTT(60) DEF SatSub
    <2> HIDE DEF lost
    <2>3. outstanding \in Nat
      BY <2>1, <2>2
    <2> HIDE DEF outstanding
    <2>4. derived \in Nat
      BY <2>1, <2>2, <2>3, ZenonT(60)
    <2> QED BY <1>4, <2>1, <2>2, <2>4
  <1> HIDE DEF lost, derived
  <1>6. retx' \in [Streams -> Seq(Chunks)]
    <2>1. ASSUME NEW s \in Streams PROVE retx[s] \o Ascending(TimedOut(s)) \in Seq(Chunks)
      <3>1. retx[s] \in Seq(Chunks) /\ Ascending(TimedOut(s)) \in Seq(Chunks)
        BY <1>1, <1>2, ListFacts DEF SenderType
      <3> QED BY <3>1, SMTT(60)
    <2> QED BY <2>1, <1>4
  <1>7. SenderType'
    BY <1>1, <1>3, <1>4, <1>5, <1>6 DEF SenderType
  <1>8. NetType' /\ ackNet' = ackNet /\ finNet' = finNet
    BY <1>1, <1>4 DEF NetType, netVars
  <1> QED BY <1>4, <1>7, <1>8, QuietStep

\* The clock.
LEMMA ElapseInv ==
    ASSUME IInv, NEW c \in Chunks, Elapse(c)
    PROVE  IInv'
  <1>1. SenderType /\ NetType
    BY DEF IInv
  <1>2. age \in [Chunks -> 0 .. 2] /\ age[c] < 2 /\ age' = [age EXCEPT ![c] = age[c] + 1]
    BY <1>1 DEF Elapse, SenderType, Recent, Expired
  <1>3. age[c] + 1 \in 0 .. 2
    BY <1>2, SMTT(60)
  <1>4. age' \in [Chunks -> Recent .. Expired]
    BY <1>2, <1>3 DEF Recent, Expired
  <1>5. SenderType'
    BY <1>1, <1>4 DEF Elapse, SenderType
  <1>6. NetType' /\ ackNet' = ackNet /\ finNet' = finNet
    BY <1>1 DEF Elapse, NetType, netVars
  <1> QED BY <1>5, <1>6, QuietStep DEF Elapse

\* FINISH is sent, and success or a stall returned.
LEMMA SenderEndsInv ==
    ASSUME IInv, Finish \/ ReturnOk \/ Stall
    PROVE  IInv'
  <1>1. SenderType /\ NetType /\ ReceiverType
    BY DEF IInv
  <1>2. /\ UNCHANGED <<acked, nextLocal, retx, inRetx, retransmitted, scanCursor,
                       hcApplied, age, inFlight, copies, receiverVars>>
        /\ UNCHANGED <<dataNet, ackNet, nackNet>>
    BY DEF Finish, ReturnOk, Stall, netVars
  <1>3. /\ tx' \in {"finishing", "ok", "stalled"}
        /\ finNet' \in BOOLEAN
        /\ finNet' => tx' \in {"finishing", "ok"}
        /\ tx' \in {"finishing", "ok"} => received = Chunks
    <2>1. CASE Finish
      <3>1. Cardinality(acked) >= TotalChunks /\ acked \in SUBSET Chunks
        BY <1>1, <2>1 DEF Finish, AllAcked, SenderType
      <3>2. acked = Chunks
        BY <3>1, ChunkSets
      <3>3. received = Chunks
        BY <3>2, <1>1, ZenonT(60) DEF IInv, AckedIsReceived, ReceiverType
      <3> QED BY <2>1, <3>3 DEF Finish
    <2>2. CASE ReturnOk
      BY <2>2, <1>1 DEF ReturnOk, netVars, IInv, Endings, NetType
    <2>3. CASE Stall
      BY <2>3, <1>1 DEF Stall, netVars, IInv, Endings, NetType
    <2> QED BY <2>1, <2>2, <2>3
  <1>4. SenderType' /\ NetType' /\ ReceiverType'
    BY <1>1, <1>2, <1>3 DEF SenderType, NetType, ReceiverType, receiverVars
  <1>5. AckedIsReceived' /\ ReportsTrue' /\ SenderCursors' /\ ReceiverCursors'
    BY <1>2, ZenonT(60) DEF IInv, AckedIsReceived, ReportsTrue, SenderCursors, ReceiverCursors, receiverVars
  <1>6. Endings'
    BY <1>2, <1>3 DEF IInv, Endings, receiverVars
  <1> QED BY <1>4, <1>5, <1>6 DEF IInv

-----------------------------------------------------------------------------
(* The daemon's steps *)

\* Reports of the present state are well formed and true.
LEMMA PresentReports ==
    ASSUME NEW S \in SUBSET Chunks, NEW s \in Streams
    PROVE  /\ Report(s, S, RunLength(S, s)) \in Reports
           /\ Named(Report(s, S, RunLength(S, s))) \subseteq S
  <1>1. /\ RunLength(S, s) \in 0 .. Count(s)
        /\ \A k \in 0 .. RunLength(S, s) - 1 : Base(s) + k \in S
    BY RunLengthFacts
  <1> QED BY <1>1, ReportIsTrue, ZenonT(60)

\* The gap detector.
LEMMA DetectGapType ==
    ASSUME ReceiverType, NetType, NEW c \in Chunks, NEW late \in BOOLEAN, DetectGap(c, late)
    PROVE  /\ gap' \in [Streams -> GapRecords]
           /\ nacked' \in SUBSET Chunks
           /\ nackNet' \in SUBSET Nacks
  <1> DEFINE s == StreamOf(c)
             l == c - Base(s)
             g == gap[s]
             lost == {Base(s) + m : m \in
                        LostInGap(g, l, {r - Base(s) : r \in received'},
                                  {r - Base(s) : r \in nacked})}
  <1>1. s \in Streams /\ c \in Of(s)
    BY StreamOfFacts
  <1>2. /\ Base(s) \in Nat /\ Count(s) \in Nat /\ Base(s) + Count(s) <= TotalChunks
        /\ Of(s) = Base(s) .. Base(s) + Count(s) - 1 /\ TotalChunks \in Nat
    BY <1>1, StreamFacts, TransferAssumption
  <1>3. l \in Nat /\ l + 1 \in 0 .. TotalChunks /\ Base(s) + l = c
    BY <1>1, <1>2, SMTT(60)
  <1>4. g \in GapRecords
    BY <1>1 DEF ReceiverType
  <1> HIDE DEF l, g, s
  <1>5. /\ g.expected \in 0 .. TotalChunks
        /\ g.start = NoGap \/ g.start \in 0 .. TotalChunks
        /\ g.counter \in Nat
    BY <1>4 DEF GapRecords
  <1>6. GapStart(g) \in 0 .. TotalChunks /\ GapCount(g) \in Nat
    BY <1>5, SMTT(60) DEF GapStart, GapCount
  <1>7. GapAfter(g, l, late) \in GapRecords
    <2>1. (IF l + 1 > g.expected THEN l + 1 ELSE g.expected) \in 0 .. TotalChunks
      BY <1>3, <1>5
    <2> QED BY <2>1, <1>5, <1>6 DEF GapAfter, GapRecords
  <1>8. lost \in SUBSET Chunks
    <2> SUFFICES ASSUME NEW m \in GapStart(g) .. l - 1 PROVE Base(s) + m \in Chunks
      BY DEF LostInGap
    <2> QED BY <1>2, <1>3, <1>6, SMTT(60) DEF Chunks
  <1> HIDE DEF lost
  <1>9. CASE ~ NackEnabled
    BY <1>9, ZenonT(60) DEF DetectGap, ReceiverType, NetType
  <1>10. CASE NackEnabled
    <2>1. /\ gap' = [gap EXCEPT ![s] = GapAfter(g, l, late)]
          /\ nacked' = Forget(s, IF Fires(g, l, late) THEN nacked \cup lost ELSE nacked)
          /\ nackNet' = IF Fires(g, l, late) /\ lost # {}
                        THEN nackNet \cup {[stream |-> s, chunks |-> lost]} ELSE nackNet
      BY <1>10, ZenonT(60) DEF DetectGap, s, g, l, lost
    <2>2. gap' \in [Streams -> GapRecords]
      BY <2>1, <1>7, ZenonT(60) DEF ReceiverType
    <2>3. nacked' \in SUBSET Chunks
      BY <2>1, <1>8 DEF ReceiverType, Forget
    <2>4. nackNet' \in SUBSET Nacks
      BY <2>1, <1>1, <1>8, SMTT(60) DEF NetType, Nacks
    <2> QED BY <2>2, <2>3, <2>4
  <1> QED BY <1>9, <1>10

\* A DATA packet.
LEMMA RecvDataInv ==
    ASSUME IInv, NEW c \in dataNet, NEW late \in BOOLEAN, RecvData(c, late)
    PROVE  IInv'
  <1> DEFINE s == StreamOf(c)
  <1>1. SenderType /\ NetType /\ ReceiverType
    BY DEF IInv
  <1>2. c \in Chunks
    BY <1>1 DEF NetType
  <1>3. s \in Streams /\ c \in Of(s)
    BY <1>2, StreamOfFacts
  <1>4. /\ received' = received \cup {c}
        /\ nReceived' = (IF c \in received THEN nReceived ELSE nReceived + 1)
        /\ contigPrefix' = [contigPrefix EXCEPT ![s] = RunLength(received', s)]
        /\ dataNet' \subseteq dataNet
        /\ rx = "receiving" /\ UNCHANGED <<senderVars, rx, finNet>>
    BY DEF RecvData, CountReceived, AdvancePrefix, Used
  <1>5. received \in SUBSET Chunks /\ received' \in SUBSET Chunks
    BY <1>1, <1>2, <1>4 DEF ReceiverType
  <1>6. nReceived' = Cardinality(received')
    <2>1. IsFiniteSet(received) /\ nReceived = Cardinality(received)
      BY <1>5, ChunkSets DEF IInv, ReceiverCursors
    <2> QED BY <1>4, <2>1, FS_AddElement
  <1>7. \A t \in Streams : contigPrefix'[t] = RunLength(received', t)
    <2> SUFFICES ASSUME NEW t \in Streams PROVE contigPrefix'[t] = RunLength(received', t)
      OBVIOUS
    <2>1. CASE t = s
      BY <2>1, <1>1, <1>3, <1>4, ZenonT(60) DEF ReceiverType
    <2>2. CASE t # s
      <3>1. received' \cap Of(t) = received \cap Of(t)
        BY <2>2, <1>3, <1>4, OtherStream
      <3>2. RunLength(received', t) = RunLength(received, t)
        BY <3>1, RunLengthSame, ZenonT(60)
      <3>3. contigPrefix'[t] = contigPrefix[t]
        BY <2>2, <1>1, <1>4 DEF ReceiverType
      <3> QED BY <3>2, <3>3, ZenonT(60) DEF IInv, ReceiverCursors
    <2> QED BY <2>1, <2>2
  <1>8. /\ gap' \in [Streams -> GapRecords] /\ nacked' \in SUBSET Chunks
        /\ nackNet' \in SUBSET Nacks
    BY <1>1, <1>2, DetectGapType DEF RecvData
  <1>9. /\ sinceAck' \in [Streams -> Nat]
        /\ tail' = (tail \/ (~ tail /\ nReceived' >= TotalChunks))
        /\ ackNet' \subseteq ackNet \cup {Report(q, received', contigPrefix'[q]) : q \in Streams}
    <2>1. AckData(s)
      BY DEF RecvData
    <2>2. sinceAck[s] \in Nat
      BY <1>1, <1>3 DEF ReceiverType
    <2>3. sinceAck' \in [Streams -> Nat]
      <3> DEFINE n == IF sinceAck[s] + 1 >= AckEvery THEN 0 ELSE sinceAck[s] + 1
      <3>1. n \in Nat
        BY <2>2, SMTT(60)
      <3>2. sinceAck' = [sinceAck EXCEPT ![s] = n]
        BY <2>1, ZenonT(60) DEF AckData
      <3> HIDE DEF n
      <3> QED BY <1>1, <3>1, <3>2, ZenonT(60) DEF ReceiverType
    <2>4. tail' = (tail \/ (~ tail /\ nReceived' >= TotalChunks))
      BY <2>1, ZenonT(60) DEF AckData, Completes
    <2>5. ackNet' \subseteq ackNet \cup {Report(q, received', contigPrefix'[q]) : q \in Streams}
      BY <2>1, <1>3 DEF AckData
    <2> QED BY <2>3, <2>4, <2>5
  <1>10. ASSUME NEW q \in Streams
         PROVE  /\ Report(q, received', contigPrefix'[q]) \in Reports
                /\ Named(Report(q, received', contigPrefix'[q])) \subseteq received'
    BY <1>5, <1>7, PresentReports, ZenonT(60)
  <1>11. ReceiverType'
    <2>1. contigPrefix' \in [Streams -> 0 .. TotalChunks]
      <3>1. RunLength(received', s) \in 0 .. TotalChunks
        BY <1>3, <1>5, RunLengthFacts
      <3> QED BY <3>1, <1>1, <1>4, ZenonT(60) DEF ReceiverType
    <2>2. nReceived' \in Nat
      BY <1>5, <1>6, ChunkSets
    <2> QED BY <2>1, <2>2, <1>1, <1>4, <1>5, <1>8, <1>9, ZenonT(60) DEF ReceiverType
  <1>12. NetType'
    BY <1>1, <1>4, <1>8, <1>9, <1>10, ZenonT(60) DEF NetType
  <1>13. SenderType' /\ SenderCursors'
    BY <1>1, <1>4 DEF IInv, SenderType, SenderCursors, senderVars
  <1>14. AckedIsReceived'
    BY <1>4 DEF IInv, AckedIsReceived, senderVars
  <1>15. ReportsTrue'
    <2> SUFFICES ASSUME NEW a \in ackNet' PROVE Named(a) \subseteq received'
      BY DEF ReportsTrue, Named
    <2>1. CASE a \in ackNet
      BY <2>1, <1>4 DEF IInv, ReportsTrue, Named
    <2>2. CASE a \notin ackNet
      BY <2>2, <1>9, <1>10
    <2> QED BY <2>1, <2>2
  <1>16. ReceiverCursors'
    BY <1>6, <1>7 DEF ReceiverCursors
  <1>17. Endings'
    <2>1. nReceived' >= TotalChunks <=> received' = Chunks
      BY <1>5, <1>6, ChunkSets
    <2>2. tail => received' = Chunks
      BY <1>2, <1>4 DEF IInv, Endings
    <2>3. tail' = (received' = Chunks)
      BY <1>1, <1>9, <2>1, <2>2 DEF ReceiverType
    <2>4. tx \in {"finishing", "ok"} => received' = Chunks
      BY <1>2, <1>4 DEF IInv, Endings
    <2> QED BY <2>3, <2>4, <1>4, ZenonT(60) DEF IInv, Endings, senderVars
  <1> QED BY <1>11, <1>12, <1>13, <1>14, <1>15, <1>16, <1>17 DEF IInv

\* A step of the daemon or the network that stores nothing: what it may report
\* is the present state, and what it may change otherwise is its verdict.
LEMMA NothingStored ==
    ASSUME IInv,
           UNCHANGED <<senderVars, received, nReceived, contigPrefix, gap, nacked, tail>>,
           sinceAck' \in [Streams -> Nat],
           rx' \in {rx, "stored", "silent"},
           dataNet' \subseteq dataNet, nackNet' \subseteq nackNet,
           ackNet' \subseteq ackNet \cup {Report(s, received, contigPrefix[s]) : s \in Streams},
           finNet' \in BOOLEAN, finNet' => finNet
    PROVE  IInv'
  <1>1. SenderType /\ NetType /\ ReceiverType
    BY DEF IInv
  <1>2. ASSUME NEW s \in Streams
        PROVE  /\ Report(s, received, contigPrefix[s]) \in Reports
               /\ Named(Report(s, received, contigPrefix[s])) \subseteq received
    BY <1>1, PresentReports, ZenonT(60) DEF IInv, ReceiverType, ReceiverCursors
  <1>3. SenderType' /\ SenderCursors'
    BY <1>1 DEF IInv, SenderType, SenderCursors, senderVars
  <1>4. ReceiverType'
    BY <1>1 DEF ReceiverType
  <1>5. NetType'
    BY <1>1, <1>2, ZenonT(60) DEF NetType
  <1>6. AckedIsReceived' /\ ReceiverCursors'
    BY DEF IInv, AckedIsReceived, ReceiverCursors, senderVars
  <1>7. ReportsTrue'
    <2> SUFFICES ASSUME NEW a \in ackNet' PROVE Named(a) \subseteq received
      BY DEF ReportsTrue, Named
    <2>1. CASE a \in ackNet
      BY <2>1 DEF IInv, ReportsTrue, Named
    <2>2. CASE a \notin ackNet
      BY <2>2, <1>2
    <2> QED BY <2>1, <2>2
  <1>8. Endings'
    BY DEF IInv, Endings, senderVars
  <1> QED BY <1>3, <1>4, <1>5, <1>6, <1>7, <1>8, ZenonT(60) DEF IInv

\* Whenever the thread ends with success, the file is whole.
LEMMA OutcomeStored ==
    ASSUME IInv, finNet \/ tail
    PROVE  received = Chunks /\ Outcome = "stored"
  <1>1. received = Chunks
    BY DEF IInv, Endings
  <1>2. nReceived = Cardinality(received)
    BY DEF IInv, ReceiverCursors
  <1>3. nReceived >= TotalChunks
    BY <1>1, <1>2, ChunkSets
  <1> QED BY <1>1, <1>3 DEF Outcome

\* The ACK timer, FINISH, the end of the grace period, silence.
LEMMA DaemonStepsInv ==
    ASSUME IInv, AckTimer \/ RecvFinish \/ TailExpired \/ PeerSilent
    PROVE  IInv'
  <1>1. finNet \in BOOLEAN /\ sinceAck \in [Streams -> Nat] /\ Remember \in BOOLEAN
    BY TransferAssumption, ZenonT(60) DEF IInv, NetType, ReceiverType
  <1>2. CASE AckTimer
    <2>1. sinceAck' \in [Streams -> Nat]
      BY <1>2, ZenonT(60) DEF AckTimer
    <2>2. ackNet' \subseteq ackNet \cup {Report(s, received, contigPrefix[s]) : s \in Streams}
      BY <1>2, ZenonT(60) DEF AckTimer
    <2> QED BY <1>1, <1>2, <2>1, <2>2, NothingStored DEF AckTimer
  <1>3. CASE RecvFinish
    <2>1. rx' = "stored"
      BY <1>3, OutcomeStored, ZenonT(60) DEF RecvFinish
    <2> QED BY <1>1, <1>3, <2>1, NothingStored DEF RecvFinish
  <1>4. CASE TailExpired
    <2>1. rx' = "stored"
      BY <1>4, OutcomeStored DEF TailExpired
    <2> QED BY <1>1, <1>4, <2>1, NothingStored DEF TailExpired, netVars
  <1>5. CASE PeerSilent
    BY <1>1, <1>5, NothingStored DEF PeerSilent, netVars
  <1> QED BY <1>2, <1>3, <1>4, <1>5

\* The network.
LEMMA LoseInv ==
    ASSUME IInv, Lose
    PROVE  IInv'
  <1>1. finNet \in BOOLEAN /\ sinceAck \in [Streams -> Nat]
    BY DEF IInv, NetType, ReceiverType
  <1>2. /\ dataNet' \subseteq dataNet /\ ackNet' \subseteq ackNet /\ nackNet' \subseteq nackNet
        /\ finNet' \in BOOLEAN /\ (finNet' => finNet)
    <2>1. /\ dataNet' = dataNet \/ \E c \in dataNet : dataNet' = dataNet \ {c}
          /\ ackNet' = ackNet \/ \E a \in ackNet : ackNet' = ackNet \ {a}
          /\ nackNet' = nackNet \/ \E m \in nackNet : nackNet' = nackNet \ {m}
          /\ finNet' = finNet \/ (finNet' = FALSE)
      BY Zenon DEF Lose
    <2>2. /\ dataNet' \subseteq dataNet /\ ackNet' \subseteq ackNet
          /\ nackNet' \subseteq nackNet
      BY <2>1
    <2>3. finNet' \in BOOLEAN /\ (finNet' => finNet)
      <3>1. CASE finNet' = finNet
        BY <1>1, <3>1
      <3>2. CASE finNet' = FALSE
        BY <3>2, ZenonT(60)
      <3> QED BY <2>1, <3>1, <3>2, ZenonT(60)
    <2> QED BY <2>2, <2>3
  <1>3. UNCHANGED <<senderVars, receiverVars>>
    BY DEF Lose
  <1> QED BY <1>1, <1>2, <1>3, NothingStored DEF receiverVars

\* Nothing happens.
LEMMA StutterInv ==
    ASSUME IInv, UNCHANGED vars
    PROVE  IInv'
  <1>1. UNCHANGED <<senderVars, receiverVars, netVars>>
    BY DEF vars
  <1>2. finNet \in BOOLEAN /\ sinceAck \in [Streams -> Nat]
    BY DEF IInv, NetType, ReceiverType
  <1> QED BY <1>1, <1>2, NothingStored DEF receiverVars, netVars

-----------------------------------------------------------------------------
(* The theorems *)

\* Every step preserves the invariant.
LEMMA StepInv == IInv /\ [Next]_vars => IInv'
  <1> SUFFICES ASSUME IInv, [Next]_vars PROVE IInv'
    OBVIOUS
  <1>1. ASSUME NEW s \in Streams, Stage(s) PROVE IInv'
    BY <1>1, StageInv
  <1>2. ASSUME NEW a \in ackNet, ProcessAck(a) PROVE IInv'
    BY <1>2, ProcessAckInv
  <1>3. ASSUME NEW m \in nackNet, ProcessNack(m) PROVE IInv'
    BY <1>3, ProcessNackInv
  <1>4. ASSUME RetxScan PROVE IInv'
    BY <1>4, RetxScanInv
  <1>5. ASSUME NEW c \in Chunks, Elapse(c) PROVE IInv'
    BY <1>5, ElapseInv
  <1>6. ASSUME Finish \/ ReturnOk \/ Stall PROVE IInv'
    BY <1>6, SenderEndsInv
  <1>7. ASSUME NEW c \in dataNet, NEW late \in BOOLEAN, RecvData(c, late) PROVE IInv'
    BY <1>7, RecvDataInv
  <1>8. ASSUME AckTimer \/ RecvFinish \/ TailExpired \/ PeerSilent PROVE IInv'
    BY <1>8, DaemonStepsInv
  <1>9. ASSUME Lose PROVE IInv'
    BY <1>9, LoseInv
  <1>10. ASSUME UNCHANGED vars PROVE IInv'
    BY <1>10, StutterInv
  <1> QED
    BY <1>1, <1>2, <1>3, <1>4, <1>5, <1>6, <1>7, <1>8, <1>9, <1>10, ZenonT(60) DEF Next

\* The inductive invariant holds of every reachable state of a transfer, for
\* every file length, number of streams, set of chunks already present, window,
\* and every order, loss and repetition of packets.
THEOREM Invariance == Spec => []IInv
  BY InitInv, StepInv, PTL DEF Spec

\* The typing of both ends and of the network.
THEOREM TypeCorrect == Spec => []TypeOK
  <1>1. IInv => TypeOK
    BY InvariantImplies
  <1> QED BY <1>1, Invariance, PTL

\* A chunk the sender takes off its list (mark_acked) is one the daemon wrote,
\* in the receive thread's account of it.
THEOREM AckedChunksReceived == Spec => []AckedIsReceived
  <1>1. IInv => AckedIsReceived
    BY InvariantImplies
  <1> QED BY <1>1, Invariance, PTL

\* Every ACK_BITMAP under way, however old, names only received chunks.
THEOREM ReportsAreTrue == Spec => []ReportsTrue
  <1>1. IInv => ReportsTrue
    BY InvariantImplies
  <1> QED BY <1>1, Invariance, PTL

\* FINISH, and success at either end, only once every chunk is there.
THEOREM FinishAfterAll == Spec => []FinishMeansComplete
  <1>1. IInv => FinishMeansComplete
    BY InvariantImplies
  <1> QED BY <1>1, Invariance, PTL

\* The incremental cursors and counters of both ends are what a recount of the
\* bitmaps would give.
THEOREM CursorsAreExact == Spec => []CursorsExact
  <1>1. IInv => CursorsExact
    BY InvariantImplies
  <1> QED BY <1>1, Invariance, PTL

\* Reports and cursors together: what process_ack_bitmap applies is true of the
\* daemon's chunks, and both ends' cursors are exact.
THEOREM ReportsAreFaithful == Spec => []ReportsFaithful
  <1>1. TypeOK /\ AckedIsReceived /\ ReportsTrue /\ CursorsExact => ReportsFaithful
    BY DEF ReportsFaithful
  <1> QED BY <1>1, TypeCorrect, AckedChunksReceived, ReportsAreTrue, CursorsAreExact, PTL

-----------------------------------------------------------------------------
(* The transfer implements FileDelivery *)

\* A step that touches neither the file nor a verdict is invisible.
LEMMA Invisible ==
    ASSUME received' = received, rx' = rx, tx' = tx
    PROVE  [Delivery!Next]_Delivery!vars
  BY DEF Delivery!vars

\* The sender's verdict.
LEMMA SenderRefines ==
    ASSUME IInv, Finish \/ ReturnOk \/ Stall
    PROVE  [Delivery!Next]_Delivery!vars
  <1>1. received' = received /\ rx' = rx
    BY DEF Finish, ReturnOk, Stall, receiverVars
  <1>2. CASE Finish
    <2>1. tx \notin {"ok", "stalled"} /\ tx' \notin {"ok", "stalled"}
      BY <1>2 DEF Finish
    <2> QED BY <1>1, <2>1 DEF Delivery!vars
  <1>3. CASE ReturnOk
    <2>1. tx = "finishing" /\ tx' = "ok"
      BY <1>3 DEF ReturnOk
    <2>2. received = Chunks
      BY <2>1 DEF IInv, Endings
    <2>3. Delivery!SenderOk
      BY <1>1, <2>1, <2>2 DEF Delivery!SenderOk
    <2> QED BY <2>3 DEF Delivery!Next
  <1>4. CASE Stall
    <2>1. tx = "sending" /\ tx' = "stalled"
      BY <1>4 DEF Stall
    <2>2. Delivery!SenderError
      BY <1>1, <2>1 DEF Delivery!SenderError
    <2> QED BY <2>2 DEF Delivery!Next
  <1> QED BY <1>2, <1>3, <1>4

\* A DATA packet stores its chunk.
LEMMA RecvDataRefines ==
    ASSUME IInv, NEW c \in dataNet, NEW late \in BOOLEAN, RecvData(c, late)
    PROVE  [Delivery!Next]_Delivery!vars
  <1>1. c \in Chunks
    BY DEF IInv, NetType
  <1>2. rx = "receiving" /\ rx' = rx /\ tx' = tx /\ received' = received \cup {c}
    BY DEF RecvData, senderVars
  <1>3. Delivery!Store(c)
    BY <1>1, <1>2 DEF Delivery!Store
  <1> QED BY <1>1, <1>3 DEF Delivery!Next

\* The daemon's verdict.
LEMMA DaemonRefines ==
    ASSUME IInv, RecvFinish \/ TailExpired \/ PeerSilent
    PROVE  [Delivery!Next]_Delivery!vars
  <1>1. received' = received /\ tx' = tx /\ rx = "receiving"
    BY DEF RecvFinish, TailExpired, PeerSilent, senderVars
  <1>2. CASE RecvFinish \/ TailExpired
    <2>1. received = Chunks /\ rx' = "stored"
      BY <1>2, OutcomeStored DEF RecvFinish, TailExpired
    <2>2. Delivery!DaemonOk
      BY <1>1, <2>1 DEF Delivery!DaemonOk
    <2> QED BY <2>2 DEF Delivery!Next
  <1>3. CASE PeerSilent
    <2>1. ~ tail /\ rx' = "silent"
      BY <1>3 DEF PeerSilent
    <2>2. received # Chunks \/ Present = Chunks
      BY <2>1 DEF IInv, Endings
    <2>3. Delivery!DaemonError
      BY <1>1, <2>1, <2>2 DEF Delivery!DaemonError
    <2> QED BY <2>3 DEF Delivery!Next
  <1> QED BY <1>2, <1>3

\* Every step maps to a step of FileDelivery or to none.
LEMMA StepRefines == IInv /\ [Next]_vars => [Delivery!Next]_Delivery!vars
  <1> SUFFICES ASSUME IInv, [Next]_vars PROVE [Delivery!Next]_Delivery!vars
    OBVIOUS
  <1> USE DEF receiverVars
  <1>1. ASSUME NEW s \in Streams, Stage(s) PROVE [Delivery!Next]_Delivery!vars
    BY <1>1, Invisible, ZenonT(60) DEF Stage, SendRetx, SendNew, SendNothing, Transmit
  <1>2. ASSUME NEW a \in ackNet, ProcessAck(a) PROVE [Delivery!Next]_Delivery!vars
    BY <1>2, Invisible DEF ProcessAck
  <1>3. ASSUME NEW m \in nackNet, ProcessNack(m) PROVE [Delivery!Next]_Delivery!vars
    BY <1>3, Invisible DEF ProcessNack
  <1>4. ASSUME RetxScan PROVE [Delivery!Next]_Delivery!vars
    BY <1>4, Invisible DEF RetxScan
  <1>5. ASSUME NEW c \in Chunks, Elapse(c) PROVE [Delivery!Next]_Delivery!vars
    BY <1>5, Invisible DEF Elapse
  <1>6. ASSUME Finish \/ ReturnOk \/ Stall PROVE [Delivery!Next]_Delivery!vars
    BY <1>6, SenderRefines
  <1>7. ASSUME NEW c \in dataNet, NEW late \in BOOLEAN, RecvData(c, late)
        PROVE  [Delivery!Next]_Delivery!vars
    BY <1>7, RecvDataRefines
  <1>8. ASSUME AckTimer PROVE [Delivery!Next]_Delivery!vars
    BY <1>8, Invisible DEF AckTimer, senderVars
  <1>9. ASSUME RecvFinish \/ TailExpired \/ PeerSilent PROVE [Delivery!Next]_Delivery!vars
    BY <1>9, DaemonRefines
  <1>10. ASSUME Lose PROVE [Delivery!Next]_Delivery!vars
    BY <1>10, Invisible DEF Lose, senderVars
  <1>11. ASSUME UNCHANGED vars PROVE [Delivery!Next]_Delivery!vars
    BY <1>11, Invisible DEF vars, senderVars
  <1> QED
    BY <1>1, <1>2, <1>3, <1>4, <1>5, <1>6, <1>7, <1>8, <1>9, <1>10, <1>11, ZenonT(60) DEF Next

\* The packet-level transfer implements FileDelivery: the sender's Ok (after
\* the FINISH wait, confirmed or not) and the daemon's success each come only
\* when the whole file is there, and the daemon fails only a file that lacks
\* something, unless nothing had to be sent.
THEOREM TransferDeliversFile == Spec => DeliversFile
  <1>1. Init => Delivery!Init
    BY DEF Init, Delivery!Init
  <1> QED BY <1>1, Invariance, StepRefines, PTL DEF Spec, DeliversFile, Delivery!Spec

-----------------------------------------------------------------------------
(* The retransmit queues *)

\* q holds the chunks of S, each once.
QueueHolds(q, S) ==
    /\ {q[i] : i \in 1 .. Len(q)} = S
    /\ \A i, j \in 1 .. Len(q) : q[i] = q[j] => i = j

\* Popping entries takes them out of what the queue holds.
LEMMA HoldsRest ==
    ASSUME NEW q \in Seq(Chunks), NEW n \in 0 .. Len(q), NEW S, QueueHolds(q, S)
    PROVE  QueueHolds(SubSeq(q, n + 1, Len(q)), S \ {q[i] : i \in 1 .. n})
  <1> DEFINE r == SubSeq(q, n + 1, Len(q))
  <1>1. Len(q) \in Nat /\ n \in Nat /\ Len(r) = Len(q) - n /\ \A i \in 1 .. Len(q) - n : r[i] = q[n + i]
    BY SMTT(60)
  <1> HIDE DEF r
  <1>2. \A i, j \in 1 .. Len(r) : r[i] = r[j] => i = j
    BY <1>1, SMTT(60) DEF QueueHolds
  <1>3. ASSUME NEW c \in S \ {q[i] : i \in 1 .. n} PROVE \E i \in 1 .. Len(r) : r[i] = c
    <2>1. PICK k \in 1 .. Len(q) : q[k] = c
      BY DEF QueueHolds
    <2>2. k > n
      BY <1>1, <2>1, SMTT(60)
    <2>3. k - n \in 1 .. Len(r) /\ n + (k - n) = k
      BY <1>1, <2>2, SMTT(60)
    <2> QED BY <1>1, <2>1, <2>3, ZenonT(60)
  <1>4. ASSUME NEW i \in 1 .. Len(r) PROVE r[i] \in S \ {q[k] : k \in 1 .. n}
    <2>1. n + i \in 1 .. Len(q) /\ r[i] = q[n + i] /\ n + i \notin 1 .. n
      BY <1>1, SMTT(60)
    <2>2. 1 .. n \subseteq 1 .. Len(q)
      BY <1>1, SMTT(60)
    <2> QED BY <2>1, <2>2 DEF QueueHolds
  <1>5. {r[i] : i \in 1 .. Len(r)} = S \ {q[i] : i \in 1 .. n}
    BY <1>3, <1>4, ZenonT(60)
  <1> QED BY <1>2, <1>5, ZenonT(60) DEF QueueHolds, r

\* Two queues without a common chunk, one behind the other.
LEMMA HoldsBoth ==
    ASSUME NEW p \in Seq(Chunks), NEW q \in Seq(Chunks), NEW S, NEW T,
           QueueHolds(p, S), QueueHolds(q, T), S \cap T = {}
    PROVE  QueueHolds(p \o q, S \cup T)
  <1> DEFINE r == p \o q
  <1>1. /\ Len(p) \in Nat /\ Len(q) \in Nat /\ Len(r) = Len(p) + Len(q)
        /\ \A i \in 1 .. Len(p) : r[i] = p[i]
        /\ \A i \in Len(p) + 1 .. Len(p) + Len(q) : r[i] = q[i - Len(p)]
    BY SMTT(60)
  <1> HIDE DEF r
  <1>2. /\ \A i \in 1 .. Len(p) : p[i] \in S
        /\ \A i \in 1 .. Len(q) : q[i] \in T
        /\ \A c \in S : \E i \in 1 .. Len(p) : p[i] = c
        /\ \A c \in T : \E i \in 1 .. Len(q) : q[i] = c
    BY DEF QueueHolds
  <1>3. \A i \in 1 .. Len(r) : i \in 1 .. Len(p) \/ i - Len(p) \in 1 .. Len(q)
    BY <1>1, SMTT(60)
  <1>4. \A i \in 1 .. Len(r) : IF i <= Len(p) THEN i \in 1 .. Len(p) /\ r[i] = p[i]
                                              ELSE i - Len(p) \in 1 .. Len(q) /\ r[i] = q[i - Len(p)]
    BY <1>1, SMTT(60)
  <1>5. ASSUME NEW i \in 1 .. Len(r), NEW j \in 1 .. Len(r), r[i] = r[j] PROVE i = j
    <2>1. i <= Len(p) <=> j <= Len(p)
      BY <1>2, <1>4, <1>5, ZenonT(60)
    <2>2. CASE i <= Len(p)
      BY <2>1, <2>2, <1>4, <1>5 DEF QueueHolds
    <2>3. CASE ~ (i <= Len(p))
      <3>1. i - Len(p) = j - Len(p)
        BY <2>1, <2>3, <1>4, <1>5 DEF QueueHolds
      <3> QED BY <3>1, <1>1, SMTT(60)
    <2> QED BY <2>2, <2>3
  <1>6. ASSUME NEW c \in S \cup T PROVE \E i \in 1 .. Len(r) : r[i] = c
    <2>1. CASE c \in S
      <3>1. PICK i \in 1 .. Len(p) : p[i] = c
        BY <2>1, <1>2
      <3> QED BY <3>1, <1>1, SMTT(60)
    <2>2. CASE c \in T
      <3>1. PICK i \in 1 .. Len(q) : q[i] = c
        BY <2>2, <1>2
      <3>2. /\ Len(p) + i \in Len(p) + 1 .. Len(p) + Len(q) /\ Len(p) + i \in 1 .. Len(r)
            /\ (Len(p) + i) - Len(p) = i
        BY <3>1, <1>1, SMTT(60)
      <3> QED BY <3>1, <3>2, <1>1
    <2> QED BY <2>1, <2>2
  <1>7. \A i \in 1 .. Len(r) : r[i] \in S \cup T
    BY <1>2, <1>4
  <1>8. {r[i] : i \in 1 .. Len(r)} = S \cup T
    BY <1>6, <1>7, SMTT(60)
  <1> QED BY <1>5, <1>8 DEF QueueHolds, r

\* A list of chunks, either way round, is a queue that holds them.
LEMMA HoldsList ==
    ASSUME NEW S \in SUBSET Chunks
    PROVE  QueueHolds(Ascending(S), S) /\ QueueHolds(Descending(S), S)
  <1> DEFINE n == Cardinality(S)
             a == Ascending(S)
             d == Descending(S)
  <1>1. n \in Nat
    BY ChunkSets
  <1>2. Lists(a, S)
    BY ListExists, ZenonT(60) DEF Lists, Ascending
  <1>3. d = [i \in 1 .. n |-> a[n + 1 - i]]
    BY DEF Descending
  <1> HIDE DEF n, a, d
  <1>4. /\ a \in [1 .. n -> S]
        /\ \A c \in S : \E i \in 1 .. n : a[i] = c
        /\ \A i, j \in 1 .. n : i < j => a[i] < a[j]
    BY <1>2 DEF Lists, n
  <1>5. \A i \in 1 .. n : a[i] \in Int
    <2>1. \A c \in S : c \in Int
      BY TransferAssumption, SMTT(60) DEF Chunks
    <2> QED BY <1>4, <2>1
  <1>6. \A i, j \in 1 .. n : a[i] = a[j] => i = j
    <2> SUFFICES ASSUME NEW i \in 1 .. n, NEW j \in 1 .. n, a[i] = a[j], i # j PROVE FALSE
      OBVIOUS
    <2>1. i < j \/ j < i
      BY <1>1, SMTT(60)
    <2> QED BY <2>1, <1>4, <1>5, SMTT(60)
  <1>7. \A i \in 1 .. n : n + 1 - i \in 1 .. n /\ n + 1 - (n + 1 - i) = i
    BY <1>1, SMTT(60)
  <1>8. Len(a) = n /\ Len(d) = n
    BY <1>1, <1>3, <1>4, SMTT(60)
  <1>9. QueueHolds(a, S)
    BY <1>4, <1>6, <1>8, SMTT(60) DEF QueueHolds
  <1>10. \A i, j \in 1 .. n : d[i] = d[j] => i = j
    <2> SUFFICES ASSUME NEW i \in 1 .. n, NEW j \in 1 .. n, d[i] = d[j] PROVE i = j
      OBVIOUS
    <2>1. n + 1 - i = n + 1 - j
      BY <1>3, <1>6, <1>7
    <2> QED BY <2>1, <1>1, SMTT(60)
  <1>11. \A i \in 1 .. n : d[i] \in S
    BY <1>3, <1>4, <1>7
  <1>12. ASSUME NEW c \in S PROVE \E i \in 1 .. n : d[i] = c
    <2>1. PICK i \in 1 .. n : a[i] = c
      BY <1>4
    <2> QED BY <2>1, <1>3, <1>7
  <1>13. QueueHolds(d, S)
    BY <1>8, <1>10, <1>11, <1>12, SMTT(60) DEF QueueHolds
  <1> QED BY <1>9, <1>13 DEF a, d

-----------------------------------------------------------------------------
(* The sender's books *)

\* The queues hold what CHUNK_IN_RETX marks.
Queues == \A s \in Streams : QueueHolds(retx[s], inRetx \cap Of(s))

\* next_local parts the chunks that were sent, or found acked, from the rest.
Sent ==
    \A s \in Streams : \A c \in Of(s) :
        IF c < Base(s) + nextLocal[s] THEN c \in acked \/ copies[c] > 0 ELSE copies[c] = 0

\* What the flags and the stamp of a chunk say of its transmissions.
Flags ==
    \A c \in Chunks :
        /\ c \in inRetx => c \in retransmitted /\ copies[c] > 0
        /\ c \notin retransmitted => copies[c] <= 1
        /\ age[c] # Recent => copies[c] > 0

Books == Queues /\ Sent /\ Flags

\* The books together with the cursors leave nothing out.
LEMMA BooksImply ==
    ASSUME IInv, Books
    PROVE  QueueMatchesFlags /\ KarnSound /\ NothingForgotten
  <1>1. SenderType /\ SenderCursors
    BY DEF IInv
  <1>2. ASSUME NEW s \in Streams, NEW i \in 1 .. Len(retx[s])
        PROVE  /\ retx[s][i] \in inRetx \cap Of(s)
               /\ retx[s][i] < Base(s) + nextLocal[s] /\ copies[retx[s][i]] > 0
    <2>1. retx[s][i] \in inRetx \cap Of(s)
      BY SMTT(60) DEF Books, Queues, QueueHolds
    <2>2. copies[retx[s][i]] > 0 /\ copies[retx[s][i]] \in 0 .. 2
      BY <1>1, <2>1 DEF Books, Flags, SenderType
    <2> QED BY <2>1, <2>2, SMTT(60) DEF Books, Sent
  <1>3. QueueMatchesFlags
    BY <1>2 DEF QueueMatchesFlags, Books, Queues, QueueHolds
  <1>4. KarnSound
    BY DEF KarnSound, Books, Flags
  <1>5. NothingForgotten
    <2> SUFFICES ASSUME NEW s \in Streams, NEW c \in Of(s),
                        c < Base(s) + nextLocal[s], c \notin acked,
                        ~ \E i \in 1 .. Len(retx[s]) : retx[s][i] = c
                 PROVE  c \notin inRetx /\ copies[c] > 0 /\ c >= Base(s) + scanCursor[s]
      BY DEF NothingForgotten
    <2>1. c \notin inRetx
      BY SMTT(60) DEF Books, Queues, QueueHolds
    <2>2. copies[c] > 0
      BY DEF Books, Sent
    <2>3. /\ Base(s) \in Nat /\ Count(s) \in Nat /\ Of(s) = Base(s) .. Base(s) + Count(s) - 1
      BY StreamFacts
    <2>4. /\ scanCursor[s] \in 0 .. Count(s)
          /\ \A k \in 0 .. scanCursor[s] - 1 : Base(s) + k \in acked
      <3>1. acked \in SUBSET Chunks /\ scanCursor[s] = RunLength(acked, s)
        BY <1>1 DEF SenderType, SenderCursors
      <3>2. /\ RunLength(acked, s) \in 0 .. Count(s)
            /\ \A k \in 0 .. RunLength(acked, s) - 1 : Base(s) + k \in acked
        BY <3>1, RunLengthFacts
      <3> QED BY <3>1, <3>2
    <2>5. c >= Base(s) + scanCursor[s]
      <3> SUFFICES ASSUME c < Base(s) + scanCursor[s] PROVE FALSE
        BY <2>3, <2>4, SMTT(60)
      <3>1. c - Base(s) \in 0 .. scanCursor[s] - 1 /\ Base(s) + (c - Base(s)) = c
        BY <2>3, <2>4, SMTT(60)
      <3> QED BY <3>1, <2>4
    <2> QED BY <2>1, <2>2, <2>5
  <1> QED BY <1>3, <1>4, <1>5

\* Nothing has been sent.
LEMMA InitBooks == Init => Books
  <1> SUFFICES ASSUME Init PROVE Books
    OBVIOUS
  <1>1. Queues
    BY SMTT(60) DEF Init, Queues, QueueHolds
  <1>2. Sent
    <2> SUFFICES ASSUME NEW s \in Streams, NEW c \in Of(s)
                 PROVE  ~ (c < Base(s) + nextLocal[s]) /\ copies[c] = 0
      BY DEF Sent
    <2>1. /\ Base(s) \in Nat /\ Count(s) \in Nat /\ Of(s) = Base(s) .. Base(s) + Count(s) - 1
          /\ Of(s) \subseteq Chunks
      BY StreamFacts
    <2> QED BY <2>1, SMTT(60) DEF Init
  <1>3. Flags
    BY SMTT(60) DEF Init, Flags
  <1> QED BY <1>1, <1>2, <1>3 DEF Books

\* Acknowledgements and everything the daemon and the network do.
LEMMA IdleBooks ==
    ASSUME Books, acked \subseteq acked',
           UNCHANGED <<nextLocal, retx, inRetx, retransmitted, age, copies>>
    PROVE  Books'
  <1>1. Queues'
    BY DEF Books, Queues
  <1>2. Sent'
    BY DEF Books, Sent
  <1>3. Flags'
    BY DEF Books, Flags
  <1> QED BY <1>1, <1>2, <1>3 DEF Books

\* Popping entries of one stream.
LEMMA PopQueues ==
    ASSUME SenderType, Queues, NEW s \in Streams, NEW n \in 0 .. Len(retx[s]), Pop(s, n)
    PROVE  Queues' /\ inRetx' \subseteq inRetx
  <1> DEFINE out == {retx[s][i] : i \in 1 .. n}
  <1>1. /\ retx' = [retx EXCEPT ![s] = SubSeq(retx[s], n + 1, Len(retx[s]))]
        /\ inRetx' = inRetx \ out
    BY DEF Pop
  <1>2. retx \in [Streams -> Seq(Chunks)] /\ retx[s] \in Seq(Chunks)
    BY DEF SenderType
  <1>3. QueueHolds(retx[s], inRetx \cap Of(s))
    BY ZenonT(60) DEF Queues
  <1>4. out \subseteq Of(s)
    <2>1. 1 .. n \subseteq 1 .. Len(retx[s])
      BY <1>2, SMTT(60)
    <2> QED BY <1>3, <2>1 DEF QueueHolds
  <1>5. QueueHolds(SubSeq(retx[s], n + 1, Len(retx[s])), (inRetx \cap Of(s)) \ out)
    BY <1>2, <1>3, HoldsRest
  <1> HIDE DEF out
  <1>6. ASSUME NEW t \in Streams PROVE QueueHolds(retx'[t], inRetx' \cap Of(t))
    <2>1. CASE t = s
      <3>1. retx'[t] = SubSeq(retx[s], n + 1, Len(retx[s]))
        BY <1>1, <1>2, <2>1
      <3>2. inRetx' \cap Of(t) = (inRetx \cap Of(s)) \ out
        BY <1>1, <2>1
      <3> QED BY <1>5, <3>1, <3>2, ZenonT(60)
    <2>2. CASE t # s
      <3>1. retx'[t] = retx[t]
        BY <1>1, <1>2, <2>2
      <3>2. inRetx' \cap Of(t) = inRetx \cap Of(t)
        BY <1>1, <1>4, <2>2, OtherStream
      <3> QED BY <3>1, <3>2, ZenonT(60) DEF Queues
    <2> QED BY <2>1, <2>2
  <1> QED BY <1>1, <1>6, ZenonT(60) DEF Queues

\* The staging loop pops what it looks at.
LEMMA StageQueues ==
    ASSUME SenderType, Queues, NEW s \in Streams, Stage(s)
    PROVE  Queues' /\ inRetx' \subseteq inRetx
  <1>1. retx[s] \in Seq(Chunks) /\ Len(retx[s]) \in Nat
    BY SMTT(60) DEF SenderType
  <1>2. Live(s) \subseteq 0 .. Len(retx[s]) /\ Len(retx[s]) \in 0 .. Len(retx[s])
    BY <1>1, SMTT(60) DEF Live
  <1>3. \E n \in 0 .. Len(retx[s]) : Pop(s, n)
    BY <1>2, ZenonT(60) DEF Stage, SendRetx, SendNew, SendNothing
  <1> QED BY <1>3, PopQueues, ZenonT(60)

\* A transmission of a chunk that is marked retransmitted, or is the first.
LEMMA TransmitFlags ==
    ASSUME SenderType, Flags, NEW c \in Chunks, Transmit(c),
           c \in retransmitted \/ copies[c] = 0,
           inRetx' \subseteq inRetx, retransmitted' = retransmitted
    PROVE  Flags'
  <1>1. copies \in [Chunks -> 0 .. 2] /\ age \in [Chunks -> Recent .. Expired]
    BY DEF SenderType
  <1>2. /\ age' = [age EXCEPT ![c] = Recent]
        /\ copies' = [copies EXCEPT ![c] = IF copies[c] = 0 THEN 1 ELSE 2]
    BY DEF Transmit
  <1>3. copies'[c] > 0 /\ age'[c] = Recent /\ (c \notin retransmitted => copies'[c] <= 1)
    BY <1>1, <1>2, SMTT(60)
  <1>4. \A d \in Chunks : d # c => copies'[d] = copies[d] /\ age'[d] = age[d]
    BY <1>1, <1>2
  <1> QED BY <1>3, <1>4 DEF Flags

\* A transmission of a chunk next_local has passed.
LEMMA TransmitSent ==
    ASSUME SenderType, Sent, NEW c \in Chunks, Transmit(c), copies[c] > 0,
           UNCHANGED <<acked, nextLocal>>
    PROVE  Sent'
  <1>1. copies' = [copies EXCEPT ![c] = IF copies[c] = 0 THEN 1 ELSE 2]
        /\ copies \in [Chunks -> 0 .. 2]
    BY DEF Transmit, SenderType
  <1>2. copies'[c] > 0 /\ copies[c] # 0 /\ \A d \in Chunks : d # c => copies'[d] = copies[d]
    BY <1>1, SMTT(60)
  <1>3. \A s \in Streams : Of(s) \subseteq Chunks
    BY StreamFacts
  <1> QED BY <1>2, <1>3 DEF Sent

\* next_local passes chunks that are acked or have just been sent.
LEMMA PassSent ==
    ASSUME SenderType, Sent, NEW s \in Streams, NEW n \in Nat,
           \A c \in Of(s) : c < Base(s) + nextLocal[s] => c < Base(s) + n,
           nextLocal' = [nextLocal EXCEPT ![s] = n], acked' = acked,
           \A c \in Of(s) : Base(s) + nextLocal[s] <= c /\ c < Base(s) + n
                                => c \in acked \/ copies'[c] > 0,
           \A c \in Chunks : copies'[c] # copies[c]
                                => c \in Of(s) /\ Base(s) + nextLocal[s] <= c /\ c < Base(s) + n
    PROVE  Sent'
  <1>1. /\ nextLocal[s] \in Nat /\ nextLocal'[s] = n
        /\ \A t \in Streams : t # s => nextLocal'[t] = nextLocal[t]
    BY SMTT(60) DEF SenderType
  <1>2. \A t \in Streams : Of(t) \subseteq Chunks
    BY StreamFacts
  <1>3. Base(s) \in Nat /\ Of(s) \subseteq Int
    BY StreamFacts, SMTT(60)
  <1>4. ASSUME NEW t \in Streams, NEW c \in Of(t), t # s
        PROVE  IF c < Base(t) + nextLocal'[t] THEN c \in acked \/ copies'[c] > 0 ELSE copies'[c] = 0
    <2>1. copies'[c] = copies[c] /\ nextLocal'[t] = nextLocal[t]
      BY <1>1, <1>2, <1>4, OtherStream
    <2> QED BY <2>1 DEF Sent
  <1>5. ASSUME NEW c \in Of(s)
        PROVE  IF c < Base(s) + n THEN c \in acked \/ copies'[c] > 0 ELSE copies'[c] = 0
    <2>1. CASE Base(s) + nextLocal[s] <= c /\ c < Base(s) + n
      BY <2>1
    <2>2. CASE ~ (Base(s) + nextLocal[s] <= c /\ c < Base(s) + n)
      <3>1. copies'[c] = copies[c]
        BY <2>2, <1>2
      <3>2. c < Base(s) + nextLocal[s] <=> c < Base(s) + n
        BY <2>2, <1>1, <1>3, SMTT(60)
      <3> QED BY <3>1, <3>2 DEF Sent
    <2> QED BY <2>1, <2>2
  <1> QED BY <1>1, <1>4, <1>5, ZenonT(60) DEF Sent

\* The staging loop: a retransmission is of a chunk that was sent and is marked,
\* a first transmission of one that never was.
LEMMA SendRetxBooks ==
    ASSUME SenderType, Books, NEW s \in Streams, SendRetx(s)
    PROVE  Sent' /\ Flags'
  <1>1. retx[s] \in Seq(Chunks) /\ QueueHolds(retx[s], inRetx \cap Of(s)) /\ Flags /\ Sent /\ Queues
    BY DEF SenderType, Books, Queues
  <1>2. inRetx' \subseteq inRetx
    BY <1>1, StageQueues, ZenonT(60) DEF Stage
  <1>3. PICK i \in Live(s) : Transmit(retx[s][i])
    BY DEF SendRetx
  <1>4. UNCHANGED <<acked, nextLocal, retransmitted>>
    BY ZenonT(60) DEF SendRetx, Transmit
  <1> DEFINE c == retx[s][i]
  <1>5. c \in inRetx /\ c \in Of(s)
    BY <1>1 DEF QueueHolds, Live
  <1>6. c \in Chunks
    BY <1>5, StreamFacts
  <1> HIDE DEF c
  <1>7. Transmit(c)
    BY <1>3 DEF c
  <1>8. c \in retransmitted /\ copies[c] > 0
    BY <1>1, <1>5, <1>6 DEF Flags
  <1> QED BY <1>1, <1>2, <1>4, <1>6, <1>7, <1>8, TransmitFlags, TransmitSent, ZenonT(60)

\* Sending a new chunk keeps the books of the sender.
LEMMA SendNewBooks ==
    ASSUME SenderType, Books, NEW s \in Streams, SendNew(s)
    PROVE  Sent' /\ Flags'
  <1>1. Flags /\ Sent /\ Queues /\ nextLocal[s] \in Nat /\ copies \in [Chunks -> 0 .. 2]
    BY SMTT(60) DEF SenderType, Books
  <1>2. inRetx' \subseteq inRetx
    BY <1>1, StageQueues, ZenonT(60) DEF Stage
  <1>3. PICK n \in nextLocal[s] .. Count(s) - 1 :
            /\ \A k \in nextLocal[s] .. n - 1 : Base(s) + k \in acked
            /\ nextLocal' = [nextLocal EXCEPT ![s] = n + 1]
            /\ Transmit(Base(s) + n)
    BY ZenonT(60) DEF SendNew
  <1>4. UNCHANGED <<acked, retransmitted>>
    BY ZenonT(60) DEF SendNew, Transmit
  <1>5. /\ Base(s) \in Nat /\ Count(s) \in Nat /\ Of(s) = Base(s) .. Base(s) + Count(s) - 1
        /\ Of(s) \subseteq Chunks
    BY StreamFacts
  <1> DEFINE c == Base(s) + n
  <1>6. /\ n \in Nat /\ n + 1 \in Nat /\ c \in Of(s) /\ c \in Int
        /\ Base(s) + nextLocal[s] <= c /\ c < Base(s) + (n + 1)
        /\ ~ (c < Base(s) + nextLocal[s])
    BY <1>1, <1>3, <1>5, SMTT(60)
  <1>7. \A d \in Of(s) : d < Base(s) + nextLocal[s] => d < Base(s) + (n + 1)
    BY <1>1, <1>3, <1>5, SMTT(60)
  <1>8. copies[c] = 0
    BY <1>1, <1>6 DEF Sent
  <1>9. Transmit(c) /\ c \in Chunks
    BY <1>3, <1>5, <1>6
  <1>10. Flags'
    BY <1>1, <1>2, <1>4, <1>8, <1>9, TransmitFlags, ZenonT(60)
  <1>11. copies'[c] > 0 /\ \A d \in Chunks : copies'[d] # copies[d] => d = c
    BY <1>1, <1>9, SMTT(60) DEF Transmit
  <1>12. ASSUME NEW d \in Of(s), Base(s) + nextLocal[s] <= d, d < Base(s) + (n + 1)
         PROVE  d \in acked \/ copies'[d] > 0
    <2>1. CASE d = c
      BY <2>1, <1>11
    <2>2. CASE d # c
      <3>1. d - Base(s) \in nextLocal[s] .. n - 1 /\ Base(s) + (d - Base(s)) = d
        BY <2>2, <1>1, <1>5, <1>6, <1>12, SMTT(60)
      <3> QED BY <3>1, <1>3
    <2> QED BY <2>1, <2>2
  <1>13. \A d \in Chunks : copies'[d] # copies[d]
            => d \in Of(s) /\ Base(s) + nextLocal[s] <= d /\ d < Base(s) + (n + 1)
    BY <1>6, <1>11, ZenonT(60)
  <1> HIDE DEF c
  <1>14. Sent'
    BY <1>1, <1>3, <1>4, <1>6, <1>7, <1>12, <1>13, PassSent, ZenonT(60)
  <1> QED BY <1>10, <1>14

\* Passing over an acknowledged chunk keeps them.
LEMMA SendNothingBooks ==
    ASSUME SenderType, Books, NEW s \in Streams, SendNothing(s)
    PROVE  Sent' /\ Flags'
  <1>1. Flags /\ Sent /\ Queues /\ nextLocal \in [Streams -> 0 .. TotalChunks]
        /\ nextLocal[s] \in Nat
    BY SMTT(60) DEF SenderType, Books
  <1>2. inRetx' \subseteq inRetx
    BY <1>1, StageQueues, ZenonT(60) DEF Stage
  <1>3. /\ \A n \in nextLocal[s] .. Count(s) - 1 : Base(s) + n \in acked
        /\ nextLocal' = [nextLocal EXCEPT ![s] = Count(s)]
        /\ UNCHANGED <<acked, retransmitted, age, copies>>
    BY ZenonT(60) DEF SendNothing
  <1>4. /\ Base(s) \in Nat /\ Count(s) \in Nat /\ Of(s) = Base(s) .. Base(s) + Count(s) - 1
    BY StreamFacts
  <1>5. Flags'
    BY <1>1, <1>2, <1>3 DEF Flags
  <1>6. ASSUME NEW d \in Of(s), Base(s) + nextLocal[s] <= d PROVE d \in acked
    <2>1. d - Base(s) \in nextLocal[s] .. Count(s) - 1 /\ Base(s) + (d - Base(s)) = d
      BY <1>1, <1>4, <1>6, SMTT(60)
    <2> QED BY <2>1, <1>3
  <1>7. \A d \in Of(s) : d < Base(s) + Count(s)
    BY <1>1, <1>4, SMTT(60)
  <1>8. Sent'
    BY <1>1, <1>3, <1>4, <1>6, <1>7, PassSent, ZenonT(60)
  <1> QED BY <1>5, <1>8

\* Staging a chunk of either kind keeps them.
LEMMA StageBooks ==
    ASSUME IInv, Books, NEW s \in Streams, Stage(s)
    PROVE  Books'
  <1>1. SenderType /\ Queues
    BY DEF IInv, Books
  <1>2. Sent' /\ Flags'
    BY <1>1, SendRetxBooks, SendNewBooks, SendNothingBooks, ZenonT(60) DEF Stage
  <1> QED BY <1>1, <1>2, StageQueues, ZenonT(60) DEF Books

\* Chunks that were sent and are not queued are queued, each in its stream.
LEMMA QueueMore ==
    ASSUME SenderType, Books, NEW lost \in SUBSET Chunks,
           \A c \in lost : copies[c] > 0,
           inRetx' = inRetx \cup lost, retransmitted' = retransmitted \cup lost,
           \A s \in Streams : QueueHolds(retx'[s], (inRetx \cap Of(s)) \cup (lost \cap Of(s))),
           UNCHANGED <<acked, nextLocal, age, copies>>
    PROVE  Books'
  <1>1. ASSUME NEW s \in Streams PROVE QueueHolds(retx'[s], inRetx' \cap Of(s))
    <2>1. inRetx' \cap Of(s) = (inRetx \cap Of(s)) \cup (lost \cap Of(s))
      OBVIOUS
    <2> QED BY <2>1
  <1>2. Queues'
    BY <1>1 DEF Queues
  <1>3. Sent'
    BY DEF Books, Sent
  <1>4. Flags'
    BY DEF Books, Flags
  <1> QED BY <1>2, <1>3, <1>4 DEF Books

\* process_nack.
LEMMA ProcessNackBooks ==
    ASSUME IInv, Books, NEW m \in nackNet, ProcessNack(m)
    PROVE  Books'
  <1> DEFINE lost == NackedHere(m.stream, m.chunks)
             s == m.stream
  <1>1. SenderType /\ NetType /\ Queues /\ Flags
    BY DEF IInv, Books
  <1>2. s \in Streams
    BY <1>1 DEF NetType, Nacks
  <1>3. lost \subseteq Of(s) /\ Of(s) \subseteq Chunks /\ lost \cap inRetx = {}
    BY <1>2, StreamFacts DEF NackedHere
  <1>4. \A c \in lost : copies[c] > 0
    BY <1>1, <1>3 DEF NackedHere, Flags
  <1>5. /\ retx' = [retx EXCEPT ![s] = Descending(lost) \o retx[s]]
        /\ inRetx' = inRetx \cup lost /\ retransmitted' = retransmitted \cup lost
        /\ UNCHANGED <<acked, nextLocal, age, copies>>
    BY DEF ProcessNack
  <1> HIDE DEF lost, s
  <1>6. retx \in [Streams -> Seq(Chunks)] /\ retx[s] \in Seq(Chunks)
        /\ QueueHolds(retx[s], inRetx \cap Of(s))
    BY <1>1, <1>2 DEF SenderType, Queues
  <1>7. QueueHolds(Descending(lost), lost) /\ Descending(lost) \in Seq(Chunks)
    BY <1>3, HoldsList, ListFacts
  <1>8. QueueHolds(Descending(lost) \o retx[s], lost \cup (inRetx \cap Of(s)))
    <2>1. lost \cap (inRetx \cap Of(s)) = {}
      BY <1>3
    <2> QED BY <1>6, <1>7, <2>1, HoldsBoth
  <1>9. ASSUME NEW t \in Streams
        PROVE  QueueHolds(retx'[t], (inRetx \cap Of(t)) \cup (lost \cap Of(t)))
    <2>1. CASE t = s
      <3>1. retx'[t] = Descending(lost) \o retx[s]
        BY <1>5, <1>6, <2>1
      <3>2. (inRetx \cap Of(t)) \cup (lost \cap Of(t)) = lost \cup (inRetx \cap Of(s))
        BY <1>3, <2>1
      <3> QED BY <1>8, <3>1, <3>2, ZenonT(60)
    <2>2. CASE t # s
      <3>1. retx'[t] = retx[t]
        BY <1>5, <1>6, <2>2
      <3>2. (inRetx \cap Of(t)) \cup (lost \cap Of(t)) = inRetx \cap Of(t)
        BY <1>2, <1>3, <2>2, OtherStream
      <3> QED BY <1>1, <3>1, <3>2 DEF Queues
    <2> QED BY <2>1, <2>2
  <1>10. lost \in SUBSET Chunks
    BY <1>3
  <1> QED BY <1>1, <1>4, <1>5, <1>9, <1>10, QueueMore, ZenonT(60)

\* The retransmit scan.
LEMMA RetxScanBooks ==
    ASSUME IInv, Books, RetxScan
    PROVE  Books'
  <1> DEFINE lost == UNION {TimedOut(s) : s \in Streams}
  <1>1. SenderType /\ Queues /\ Flags
    BY DEF IInv, Books
  <1>2. \A s \in Streams : /\ TimedOut(s) \subseteq Of(s) /\ TimedOut(s) \in SUBSET Chunks
                           /\ TimedOut(s) \cap inRetx = {}
    BY StreamFacts DEF TimedOut
  <1>3. \A s \in Streams : \A c \in TimedOut(s) : copies[c] > 0
    BY <1>1, <1>2, SMTT(60) DEF TimedOut, Flags, Recent, Expired
  <1>4. /\ retx' = [s \in Streams |-> retx[s] \o Ascending(TimedOut(s))]
        /\ inRetx' = inRetx \cup lost /\ retransmitted' = retransmitted \cup lost
        /\ UNCHANGED <<acked, nextLocal, age, copies>>
    BY DEF RetxScan, MarkRetransmitted
  <1>5. ASSUME NEW s \in Streams
        PROVE  QueueHolds(retx'[s], (inRetx \cap Of(s)) \cup (lost \cap Of(s)))
    <2>1. retx[s] \in Seq(Chunks) /\ QueueHolds(retx[s], inRetx \cap Of(s))
      BY <1>1 DEF SenderType, Queues
    <2>2. QueueHolds(Ascending(TimedOut(s)), TimedOut(s)) /\ Ascending(TimedOut(s)) \in Seq(Chunks)
      BY <1>2, HoldsList, ListFacts
    <2>3. (inRetx \cap Of(s)) \cap TimedOut(s) = {}
      BY <1>2
    <2>4. QueueHolds(retx[s] \o Ascending(TimedOut(s)), (inRetx \cap Of(s)) \cup TimedOut(s))
      BY <2>1, <2>2, <2>3, HoldsBoth
    <2>5. lost \cap Of(s) = TimedOut(s)
      <3>1. ASSUME NEW t \in Streams, NEW c \in TimedOut(t), c \in Of(s) PROVE t = s
        BY <3>1, <1>2, OtherStream
      <3> QED BY <3>1, <1>2
    <2>6. retx'[s] = retx[s] \o Ascending(TimedOut(s))
      BY <1>4
    <2> QED BY <2>4, <2>5, <2>6, ZenonT(60)
  <1>6. lost \in SUBSET Chunks /\ \A c \in lost : copies[c] > 0
    BY <1>2, <1>3
  <1> HIDE DEF lost
  <1> QED BY <1>1, <1>4, <1>5, <1>6, QueueMore, ZenonT(60)

\* The clock only ages what was sent.
LEMMA ElapseBooks ==
    ASSUME IInv, Books, NEW c \in Chunks, Elapse(c)
    PROVE  Books'
  <1>1. /\ copies[c] > 0 /\ age' = [age EXCEPT ![c] = age[c] + 1]
        /\ UNCHANGED <<acked, nextLocal, retx, inRetx, retransmitted, copies>>
    BY DEF Elapse
  <1>2. age \in [Chunks -> Recent .. Expired]
    BY DEF IInv, SenderType
  <1>3. Queues'
    BY <1>1 DEF Books, Queues
  <1>4. Sent'
    BY <1>1 DEF Books, Sent
  <1>5. Flags'
    BY <1>1, <1>2 DEF Books, Flags
  <1> QED BY <1>3, <1>4, <1>5 DEF Books

\* Every step keeps the books.
LEMMA StepBooks == IInv /\ Books /\ [Next]_vars => Books'
  <1> SUFFICES ASSUME IInv, Books, [Next]_vars PROVE Books'
    OBVIOUS
  <1>1. ASSUME NEW s \in Streams, Stage(s) PROVE Books'
    BY <1>1, StageBooks
  <1>2. ASSUME NEW a \in ackNet, ProcessAck(a) PROVE Books'
    BY <1>2, IdleBooks DEF ProcessAck
  <1>3. ASSUME NEW m \in nackNet, ProcessNack(m) PROVE Books'
    BY <1>3, ProcessNackBooks
  <1>4. ASSUME RetxScan PROVE Books'
    BY <1>4, RetxScanBooks
  <1>5. ASSUME NEW c \in Chunks, Elapse(c) PROVE Books'
    BY <1>5, ElapseBooks
  <1>6. ASSUME Finish \/ ReturnOk \/ Stall PROVE Books'
    BY <1>6, IdleBooks DEF Finish, ReturnOk, Stall
  <1>7. ASSUME UNCHANGED senderVars PROVE Books'
    BY <1>7, IdleBooks DEF senderVars
  <1>8. ASSUME NEW c \in dataNet, NEW late \in BOOLEAN, RecvData(c, late) PROVE Books'
    BY <1>8, <1>7 DEF RecvData
  <1>9. ASSUME AckTimer \/ RecvFinish \/ TailExpired \/ PeerSilent PROVE Books'
    BY <1>9, <1>7 DEF AckTimer, RecvFinish, TailExpired, PeerSilent
  <1>10. ASSUME Lose PROVE Books'
    BY <1>10, <1>7 DEF Lose
  <1>11. ASSUME UNCHANGED vars PROVE Books'
    BY <1>11, <1>7 DEF vars
  <1> QED
    BY <1>1, <1>2, <1>3, <1>4, <1>5, <1>6, <1>8, <1>9, <1>10, <1>11 DEF Next

\* A daemon that has everything waits with its tail responder, not for its peer.
LEMMA StepSilence ==
    ASSUME Present # Chunks, IInv, SilenceMeansIncomplete, [Next]_vars
    PROVE  SilenceMeansIncomplete'
  <1>1. CASE \E c \in dataNet, late \in BOOLEAN : RecvData(c, late)
    BY <1>1 DEF RecvData, SilenceMeansIncomplete
  <1>2. CASE PeerSilent
    <2>1. received' = received /\ ~ tail
      BY <1>2 DEF PeerSilent
    <2>2. received # Chunks
      BY <2>1 DEF IInv, Endings
    <2> QED BY <2>1, <2>2 DEF SilenceMeansIncomplete
  <1>3. CASE RecvFinish \/ TailExpired
    <2>1. rx' = "stored"
      BY <1>3, OutcomeStored DEF RecvFinish, TailExpired
    <2> QED BY <2>1 DEF SilenceMeansIncomplete
  <1>4. CASE UNCHANGED <<received, rx>>
    BY <1>4 DEF SilenceMeansIncomplete
  <1>5. ASSUME NEW s \in Streams, Stage(s) PROVE UNCHANGED <<received, rx>>
    BY <1>5, ZenonT(60) DEF Stage, SendRetx, SendNew, SendNothing, Transmit, receiverVars
  <1>6. ASSUME NEW a \in ackNet, ProcessAck(a) PROVE UNCHANGED <<received, rx>>
    BY <1>6 DEF ProcessAck, receiverVars
  <1>7. ASSUME NEW m \in nackNet, ProcessNack(m) PROVE UNCHANGED <<received, rx>>
    BY <1>7 DEF ProcessNack, receiverVars
  <1>8. ASSUME NEW c \in Chunks, Elapse(c) PROVE UNCHANGED <<received, rx>>
    BY <1>8 DEF Elapse, receiverVars
  <1>9. ASSUME RetxScan \/ Finish \/ ReturnOk \/ Stall \/ AckTimer \/ Lose \/ UNCHANGED vars
        PROVE  UNCHANGED <<received, rx>>
    BY <1>9, ZenonT(60) DEF RetxScan, Finish, ReturnOk, Stall, AckTimer, Lose, vars, receiverVars
  <1> QED
    BY <1>1, <1>2, <1>3, <1>4, <1>5, <1>6, <1>7, <1>8, <1>9, ZenonT(60) DEF Next

\* The retransmit queue and CHUNK_IN_RETX agree, a chunk that may give an RTT
\* sample was sent once, no chunk next_local has passed is forgotten by both
\* the queue and the timeout scan, and the daemon gives up on a silent peer only
\* while chunks are missing, in every transfer that has a chunk to send.
THEOREM NothingIsOverlooked ==
    ASSUME Present # Chunks
    PROVE  Spec => []NothingOverlooked
  <1>1. Init => Books /\ SilenceMeansIncomplete
    BY InitBooks DEF Init, SilenceMeansIncomplete
  <1>2. IInv /\ Books /\ SilenceMeansIncomplete /\ [Next]_vars => Books' /\ SilenceMeansIncomplete'
    BY StepBooks, StepSilence
  <1>3. IInv /\ Books /\ SilenceMeansIncomplete => NothingOverlooked
    BY BooksImply DEF NothingOverlooked
  <1> QED BY <1>1, <1>2, <1>3, Invariance, PTL DEF Spec
=============================================================================
