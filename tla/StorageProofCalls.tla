--------------------------- MODULE StorageProofCalls -------------------------
(***************************************************************************)
(* Every call of storageProofSegment and the sector lookup of              *)
(* buildStorageProof on bounded inputs. A state is the input of one call:  *)
(* the seed digest and the contract's file size; the inputs never change,  *)
(* so the behaviours are the calls themselves.                             *)
(***************************************************************************)
EXTENDS StorageProof

VARIABLES
    seed,       \* the four words of blake2b(bid ++ fcid)
    filesize    \* contract.Revision.NewFileSize

vars == <<seed, filesize>>

Init ==
    /\ seed \in Seeds
    /\ filesize \in Word

Next == UNCHANGED vars

Spec == Init /\ [][Next]_vars

TypeOK ==
    /\ seed \in Seeds
    /\ filesize \in Word

\* storageProofSegment reproduces the consensus rule (spec section 4.5 and
\* section 9): the four Div64 steps never panic and leave the digest,
\* read as one big-endian number, modulo the rounded-up number of segments.
SegmentMatchesChallenge ==
    /\ ~SegmentPanics(seed, filesize)
    /\ StorageProofSegment(seed, filesize) = ChallengedSegment(seed, filesize)

\* For a contract that holds filesize / SectorSize sectors (spec section 3),
\* the sector buildStorageProof reads for a non-empty file is one of them.
ProofSectorInFile ==
    filesize > 0 /\ filesize % SectorSize = 0 =>
        ~BuildProofPanics(StorageProofSegment(seed, filesize),
                          filesize \div SectorSize)

=============================================================================
