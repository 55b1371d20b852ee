---------------------------- MODULE StorageProof ----------------------------
(***************************************************************************)
(* The segment a storage proof must cover (storageProofSegment in          *)
(* host/contracts/actions.go) and the indexing of buildStorageProof.       *)
(*                                                                         *)
(* A machine word takes WordBase values (2^64 in the code). The BLAKE2b   *)
(* seed is four words, big-endian; the code reduces it modulo the number   *)
(* of segments with four bits.Div64 steps carrying the remainder. A segment*)
(* index splits into the sector that holds it and the leaf in the sector.  *)
(***************************************************************************)
EXTENDS Naturals

CONSTANTS
    WordBase,         \* the values of a uint64 (2^64)
    LeafSize,         \* merkle.LeafSize: bytes of a segment (64)
    LeavesPerSector,  \* merkle.LeavesPerSector: segments of a sector
    SeedWords         \* the words a digest is made of (every word in the code)

ASSUME StorageProofAssumption ==
    /\ WordBase \in Nat \ {0}
    /\ LeafSize \in Nat \ {0}
    /\ LeavesPerSector \in Nat \ {0}
    /\ SeedWords \subseteq 0..(WordBase - 1)

Word == 0..(WordBase - 1)

\* The four words of the digest blake2b.Sum256(bid ++ fcid).
Seeds == [1..4 -> SeedWords]

SectorSize == LeafSize * LeavesPerSector

\* bits.Div64(hi, lo, y) divides the double word hi:lo by y; it panics when
\* y = 0 (divide by zero) or y <= hi (the quotient overflows a word).
Div64Panics(hi, y) == y <= hi

\* The remainder bits.Div64 returns (none when it panics on y = 0).
Div64Rem(hi, lo, y) == IF y = 0 THEN 0 ELSE (hi * WordBase + lo) % y

\* Mutant: the number of segments is not rounded up.
NumSegmentsFloor(filesize) == filesize \div LeafSize

\* Mutant: numSegments is incremented without the remainder check.
NumSegmentsAlwaysUp(filesize) == filesize \div LeafSize + 1

\* numSegments: the segments of the file, the last one possibly partial.
NumSegments(filesize) ==
    filesize \div LeafSize + (IF filesize % LeafSize # 0 THEN 1 ELSE 0)

\* The running remainders of the loop over the four words (r after i steps).
SegmentRemainders(seed, filesize) ==
    LET n  == NumSegments(filesize)
        r1 == Div64Rem(0, seed[1], n)
        r2 == Div64Rem(r1, seed[2], n)
        r3 == Div64Rem(r2, seed[3], n)
    IN  <<0, r1, r2, r3, Div64Rem(r3, seed[4], n)>>

\* storageProofSegment: 0 for an empty file, else the last remainder.
StorageProofSegment(seed, filesize) ==
    IF filesize = 0 THEN 0 ELSE SegmentRemainders(seed, filesize)[5]

\* Some Div64 step of storageProofSegment panics.
SegmentPanics(seed, filesize) ==
    /\ filesize # 0
    /\ \E i \in 1..4 :
          Div64Panics(SegmentRemainders(seed, filesize)[i], NumSegments(filesize))

\* buildStorageProof: sectorIndex := index / merkle.LeavesPerSector.
SectorIndex(index) == index \div LeavesPerSector

\* buildStorageProof: segmentIndex := index % merkle.LeavesPerSector.
SegmentIndex(index) == index % LeavesPerSector

\* roots[sectorIndex] reads past the end of the contract's sector roots.
BuildProofPanics(index, numRoots) == SectorIndex(index) >= numRoots

-----------------------------------------------------------------------------
(* The on-chain definition the code must reproduce (spec section 4.5, step *)
(* 3): the digest as one big-endian number modulo ceil(S / leaf_size).     *)

SeedValue(seed) ==
    ((seed[1] * WordBase + seed[2]) * WordBase + seed[3]) * WordBase
        + seed[4]

ChallengedSegment(seed, filesize) ==
    IF filesize = 0 THEN 0
    ELSE SeedValue(seed) % ((filesize + LeafSize - 1) \div LeafSize)

=============================================================================
