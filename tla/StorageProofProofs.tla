------------------------- MODULE StorageProofProofs -------------------------
(***************************************************************************)
(* The invariants of the StorageProofCalls runs, for every word width,     *)
(* leaf size and sector size, from the facts of StorageProofLemmas.        *)
(***************************************************************************)
EXTENDS StorageProofCalls, StorageProofLemmas, TLAPS

\* Every call the model makes satisfies ProofSectorInFile.
THEOREM ProofSectorInFileHolds == Spec => []ProofSectorInFile
<1>1. TypeOK => ProofSectorInFile
  <2>. SUFFICES ASSUME TypeOK, filesize > 0, filesize % SectorSize = 0
                PROVE  ~BuildProofPanics(StorageProofSegment(seed, filesize),
                                         filesize \div SectorSize)
    BY DEF ProofSectorInFile
  <2>1. SectorSize \in Nat \ {0} /\ filesize \in Nat
    BY StorageProofAssumption, SMT DEF SectorSize, TypeOK, Word
  <2>2. filesize \div SectorSize \in Nat \ {0}
        /\ filesize = (filesize \div SectorSize) * SectorSize
    BY <2>1, SMT
  <2>. QED  BY <2>2, SectorInFile DEF TypeOK
<1>2. Init => TypeOK
  BY DEF Init, TypeOK
<1>3. TypeOK /\ [Next]_vars => TypeOK'
  BY DEF Next, vars, TypeOK
<1>. QED  BY <1>1, <1>2, <1>3, PTL DEF Spec

\* Every call the model makes satisfies SegmentMatchesChallenge.
THEOREM SegmentMatchesChallengeHolds == Spec => []SegmentMatchesChallenge
<1>1. TypeOK => SegmentMatchesChallenge
  <2>1. TypeOK => filesize \in Nat
    BY StorageProofAssumption, SMT DEF TypeOK, Word
  <2>. QED  BY <2>1, SegmentIsChallenged DEF TypeOK, SegmentMatchesChallenge
<1>2. Init => TypeOK
  BY DEF Init, TypeOK
<1>3. TypeOK /\ [Next]_vars => TypeOK'
  BY DEF Next, vars, TypeOK
<1>. QED  BY <1>1, <1>2, <1>3, PTL DEF Spec

=============================================================================
