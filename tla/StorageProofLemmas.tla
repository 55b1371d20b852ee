------------------------- MODULE StorageProofLemmas -------------------------
(***************************************************************************)
(* Facts about storageProofSegment and buildStorageProof's sector lookup, *)
(* for every word width, leaf size and sector size.                        *)
(***************************************************************************)
EXTENDS StorageProof, TLAPS

\* A remainder modulo a positive number lies below it.
LEMMA ModRange ==
    ASSUME NEW a \in Nat, NEW n \in Nat \ {0}
    PROVE  a % n \in 0..(n - 1)
  BY SMT

\* The number of segments of a non-empty file is positive.
LEMMA NumSegmentsPositive ==
    ASSUME NEW fs \in Nat, fs > 0
    PROVE  NumSegments(fs) \in Nat \ {0}
<1>1. fs \div LeafSize \in Nat /\ fs % LeafSize \in Nat
  BY StorageProofAssumption, SMT
<1>2. CASE fs % LeafSize # 0
  BY <1>1, <1>2, SMT DEF NumSegments
<1>3. CASE fs % LeafSize = 0
  <2>1. fs \div LeafSize # 0
    BY <1>1, <1>3, StorageProofAssumption, SMT
  <2>. QED  BY <1>1, <1>3, <2>1, SMT DEF NumSegments
<1>. QED  BY <1>2, <1>3

\* The remainder bits.Div64 returns lies below the divisor.
LEMMA Div64RemRange ==
    ASSUME NEW hi \in Nat, NEW lo \in Nat, NEW y \in Nat \ {0}
    PROVE  Div64Rem(hi, lo, y) \in 0..(y - 1)
<1>1. hi * WordBase + lo \in Nat
  BY StorageProofAssumption, SMT
<1>2. Div64Rem(hi, lo, y) = (hi * WordBase + lo) % y
  BY DEF Div64Rem
<1>. QED  BY <1>1, <1>2, ModRange

\* Every running remainder of the loop is below the number of segments.
LEMMA RemaindersInRange ==
    ASSUME NEW sd \in Seeds, NEW fs \in Nat, fs > 0
    PROVE  \A i \in 1..5 :
              SegmentRemainders(sd, fs)[i] \in 0..(NumSegments(fs) - 1)
<1>. DEFINE n  == NumSegments(fs)
            r1 == Div64Rem(0, sd[1], n)
            r2 == Div64Rem(r1, sd[2], n)
            r3 == Div64Rem(r2, sd[3], n)
            r4 == Div64Rem(r3, sd[4], n)
<1>1. n \in Nat \ {0}
  BY NumSegmentsPositive
<1>2. sd[1] \in Nat /\ sd[2] \in Nat /\ sd[3] \in Nat /\ sd[4] \in Nat
  <2>1. SeedWords \subseteq Nat
    BY StorageProofAssumption, SMT
  <2>2. \A i \in 1..4 : sd[i] \in SeedWords
    BY DEF Seeds
  <2>3. {1, 2, 3, 4} \subseteq 1..4
    BY SMT
  <2>. QED  BY <2>1, <2>2, <2>3
<1>3. r1 \in 0..(n - 1)
  BY <1>1, <1>2, Div64RemRange DEF r1
<1>4. r2 \in 0..(n - 1)
  <2>1. r1 \in Nat
    BY <1>1, <1>3, SMT
  <2>. QED  BY <1>1, <1>2, <2>1, Div64RemRange DEF r2
<1>5. r3 \in 0..(n - 1)
  <2>1. r2 \in Nat
    BY <1>1, <1>4, SMT
  <2>. QED  BY <1>1, <1>2, <2>1, Div64RemRange DEF r3
<1>6. r4 \in 0..(n - 1)
  <2>1. r3 \in Nat
    BY <1>1, <1>5, SMT
  <2>. QED  BY <1>1, <1>2, <2>1, Div64RemRange DEF r4
<1>7. 0 \in 0..(n - 1)
  BY <1>1, SMT
<1>8. SegmentRemainders(sd, fs) = <<0, r1, r2, r3, r4>>
  BY DEF SegmentRemainders
<1>. QED  BY <1>3, <1>4, <1>5, <1>6, <1>7, <1>8

\* No Div64 step of storageProofSegment panics, and the segment it returns
\* for a non-empty file is one of the file's segments.
THEOREM SegmentNeverPanics ==
    ASSUME NEW sd \in Seeds, NEW fs \in Nat, fs > 0
    PROVE  /\ ~SegmentPanics(sd, fs)
           /\ StorageProofSegment(sd, fs) \in 0..(NumSegments(fs) - 1)
<1>1. \A i \in 1..5 : SegmentRemainders(sd, fs)[i] \in 0..(NumSegments(fs) - 1)
  BY RemaindersInRange
<1>2. ~SegmentPanics(sd, fs)
  BY <1>1, NumSegmentsPositive DEF SegmentPanics, Div64Panics
<1>. QED  BY <1>1, <1>2 DEF StorageProofSegment

\* A file of k whole sectors has k * LeavesPerSector segments.
LEMMA WholeSectorSegments ==
    ASSUME NEW k \in Nat
    PROVE  NumSegments(k * SectorSize) = k * LeavesPerSector
<1>1. k * SectorSize = (k * LeavesPerSector) * LeafSize
  BY StorageProofAssumption, SMT DEF SectorSize
<1>2. k * LeavesPerSector \in Nat
  BY StorageProofAssumption, SMT
<1>3. ((k * LeavesPerSector) * LeafSize) \div LeafSize = k * LeavesPerSector
      /\ ((k * LeavesPerSector) * LeafSize) % LeafSize = 0
  BY <1>2, StorageProofAssumption, SMT
<1>4. NumSegments((k * LeavesPerSector) * LeafSize) = k * LeavesPerSector
  BY <1>2, <1>3, SMT DEF NumSegments
<1>. QED  BY <1>1, <1>4

\* For a contract of k > 0 sectors, the sector buildStorageProof reads for
\* the challenged segment is one of the contract's k sector roots.
THEOREM SectorInFile ==
    ASSUME NEW sd \in Seeds, NEW k \in Nat \ {0}
    PROVE  ~BuildProofPanics(StorageProofSegment(sd, k * SectorSize), k)
<1>. DEFINE seg == StorageProofSegment(sd, k * SectorSize)
<1>1. k * SectorSize \in Nat /\ k * SectorSize > 0
  BY StorageProofAssumption, SMT DEF SectorSize
<1>2. seg \in 0..(k * LeavesPerSector - 1)
  BY <1>1, SegmentNeverPanics, WholeSectorSegments
<1>3. seg \div LeavesPerSector < k
  BY <1>2, StorageProofAssumption, SMT
<1>4. seg \div LeavesPerSector \in Nat
  BY <1>2, StorageProofAssumption, SMT
<1>. QED  BY <1>3, <1>4 DEF BuildProofPanics, SectorIndex


\* Adding a multiple of n leaves the remainder modulo n unchanged.
LEMMA ModShift ==
    ASSUME NEW k \in Nat, NEW x \in Nat, NEW n \in Nat \ {0}
    PROVE  (n * k + x) % n = x % n
<1>. DEFINE q == x \div n
            r == x % n
<1>1. q \in Nat /\ r \in 0..(n - 1) /\ x = n * q + r
  BY SMT
<1>2. n * k + x = n * (k + q) + r /\ k + q \in Nat
  BY <1>1, SMT
<1>3. \A m, d \in Nat : \A e \in 0..(n - 1) : m = n * d + e => m % n = e
  BY SMT
<1>4. n * k + x \in Nat
  BY SMT
<1>. QED  BY <1>1, <1>2, <1>3, <1>4

\* The remainder carried into the next Div64 step may stand for the whole
\* high part: (a % n) * w + b and a * w + b agree modulo n.
LEMMA ModCarry ==
    ASSUME NEW a \in Nat, NEW b \in Nat, NEW w \in Nat, NEW n \in Nat \ {0}
    PROVE  ((a % n) * w + b) % n = (a * w + b) % n
<1>1. a = n * (a \div n) + (a % n) /\ a \div n \in Nat /\ a % n \in Nat
  BY SMT
<1>2. a * w + b = n * ((a \div n) * w) + ((a % n) * w + b)
  BY <1>1, SMT
<1>3. (a \div n) * w \in Nat /\ (a % n) * w + b \in Nat
  BY <1>1, SMT
<1>4. (n * ((a \div n) * w) + ((a % n) * w + b)) % n = ((a % n) * w + b) % n
  BY <1>3, ModShift
<1>. QED  BY <1>2, <1>4

\* The quotient of m by n is the d with d * n <= m < (d + 1) * n.
LEMMA DivChar ==
    ASSUME NEW m \in Nat, NEW d \in Nat, NEW n \in Nat \ {0},
           d * n <= m, m < d * n + n
    PROVE  m \div n = d
  BY SMT

\* numSegments rounds up: it is ceil(filesize / LeafSize) as the consensus
\* rule computes it.
LEMMA NumSegmentsCeil ==
    ASSUME NEW fs \in Nat, fs > 0
    PROVE  NumSegments(fs) = (fs + LeafSize - 1) \div LeafSize
<1>. DEFINE q == fs \div LeafSize
            r == fs % LeafSize
<1>1. q \in Nat /\ r \in 0..(LeafSize - 1) /\ fs = q * LeafSize + r
  BY StorageProofAssumption, SMT
<1>2. fs + LeafSize - 1 \in Nat
  BY StorageProofAssumption, SMT
<1>3. CASE r = 0
  <2>1. (fs + LeafSize - 1) \div LeafSize = q
    <3>1. q * LeafSize <= fs + LeafSize - 1 /\ fs + LeafSize - 1 < q * LeafSize + LeafSize
      BY <1>1, <1>3, StorageProofAssumption, SMT
    <3>. QED  BY <1>1, <1>2, <3>1, StorageProofAssumption, DivChar
  <2>2. NumSegments(fs) = q
    BY <1>3, <1>1, SMT DEF NumSegments
  <2>. QED  BY <2>1, <2>2
<1>4. CASE r # 0
  <2>1. (fs + LeafSize - 1) \div LeafSize = q + 1
    <3>1. (q + 1) * LeafSize <= fs + LeafSize - 1
          /\ fs + LeafSize - 1 < (q + 1) * LeafSize + LeafSize
      BY <1>1, <1>4, StorageProofAssumption, SMT
    <3>2. q + 1 \in Nat
      BY <1>1, SMT
    <3>. QED  BY <1>2, <3>1, <3>2, StorageProofAssumption, DivChar
  <2>2. NumSegments(fs) = q + 1
    BY <1>4, <1>1, SMT DEF NumSegments
  <2>. QED  BY <2>1, <2>2
<1>. QED  BY <1>3, <1>4

\* The four Div64 steps compute the digest, read as one big-endian number,
\* modulo the number of segments.
LEMMA RemainderIsSeedValue ==
    ASSUME NEW sd \in Seeds, NEW fs \in Nat, fs > 0
    PROVE  SegmentRemainders(sd, fs)[5] = SeedValue(sd) % NumSegments(fs)
<1>. DEFINE n  == NumSegments(fs)
            W  == WordBase
            v2 == sd[1] * W + sd[2]
            v3 == v2 * W + sd[3]
            r1 == Div64Rem(0, sd[1], n)
            r2 == Div64Rem(r1, sd[2], n)
            r3 == Div64Rem(r2, sd[3], n)
            r4 == Div64Rem(r3, sd[4], n)
<1>1. n \in Nat \ {0} /\ W \in Nat
  BY NumSegmentsPositive, StorageProofAssumption
<1>2. sd[1] \in Nat /\ sd[2] \in Nat /\ sd[3] \in Nat /\ sd[4] \in Nat
  <2>1. SeedWords \subseteq Nat
    BY StorageProofAssumption, SMT
  <2>2. \A i \in 1..4 : sd[i] \in SeedWords
    BY DEF Seeds
  <2>3. {1, 2, 3, 4} \subseteq 1..4
    BY SMT
  <2>. QED  BY <2>1, <2>2, <2>3
<1>3. v2 \in Nat /\ v3 \in Nat
  BY <1>1, <1>2, SMT
<1>4. r1 = sd[1] % n
  BY <1>1, <1>2, SMT DEF Div64Rem
<1>5. r2 = v2 % n
  <2>1. r2 = (r1 * W + sd[2]) % n
    BY <1>1 DEF Div64Rem
  <2>. QED  BY <1>1, <1>2, <1>4, <2>1, ModCarry
<1>6. r3 = v3 % n
  <2>1. r3 = (r2 * W + sd[3]) % n
    BY <1>1 DEF Div64Rem
  <2>. QED  BY <1>1, <1>2, <1>3, <1>5, <2>1, ModCarry
<1>7. r4 = SeedValue(sd) % n
  <2>1. r4 = (r3 * W + sd[4]) % n
    BY <1>1 DEF Div64Rem
  <2>2. SeedValue(sd) = v3 * W + sd[4]
    BY DEF SeedValue
  <2>. QED  BY <1>1, <1>2, <1>3, <1>6, <2>1, <2>2, ModCarry
<1>8. SegmentRemainders(sd, fs)[5] = r4
  BY DEF SegmentRemainders
<1>. QED  BY <1>7, <1>8

\* storageProofSegment reproduces the consensus rule for every seed and
\* file size: no Div64 step panics and the segment is the digest modulo
\* the rounded-up number of segments.
THEOREM SegmentIsChallenged ==
    ASSUME NEW sd \in Seeds, NEW fs \in Nat
    PROVE  /\ ~SegmentPanics(sd, fs)
           /\ StorageProofSegment(sd, fs) = ChallengedSegment(sd, fs)
<1>1. CASE fs = 0
  BY <1>1 DEF SegmentPanics, StorageProofSegment, ChallengedSegment
<1>2. CASE fs # 0
  <2>1. fs > 0
    BY <1>2, SMT
  <2>2. ~SegmentPanics(sd, fs)
    BY <2>1, SegmentNeverPanics
  <2>3. StorageProofSegment(sd, fs) = SeedValue(sd) % NumSegments(fs)
    BY <1>2, <2>1, RemainderIsSeedValue DEF StorageProofSegment
  <2>4. ChallengedSegment(sd, fs) = SeedValue(sd) % NumSegments(fs)
    BY <1>2, <2>1, NumSegmentsCeil DEF ChallengedSegment
  <2>. QED  BY <2>2, <2>3, <2>4
<1>. QED  BY <1>1, <1>2

=============================================================================
