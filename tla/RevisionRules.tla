--------------------------- MODULE RevisionRules ---------------------------
(***************************************************************************)
(* The host's revision validators (package rhp, the second file of         *)
(* src/internal/test/host.go) as predicates.                               *)
(*                                                                         *)
(* A file contract revision is a record: its revision number, the file it  *)
(* commits to (filesize and Merkle root, which the validators only compare *)
(* for equality), the proof window, the unlock hash and unlock conditions, *)
(* and the valid and missed proof outputs as sequences of [addr, value].   *)
(* Go index 0 (renter) is index 1 here, 1 (host) is 2, 2 (void) is 3.      *)
(*                                                                         *)
(* Each validator returns the first violated rule as an error or nil; Go   *)
(* indexing past the end of a slice and Currency.Sub below zero panic.     *)
(* Every validator V is split into V_Accepts (it returns nil) and          *)
(* V_Panics (it panics before returning): what is neither is a rejection.  *)
(***************************************************************************)
EXTENDS Naturals, Sequences

CONSTANTS
    RenterAddr, HostAddr, VoidAddr,  \* output addresses; HostAddr is settings.Address
    RenterKey, HostKey,              \* the parties' public keys
    MaxRevision,                     \* types.MaxRevisionNumber: 2^64 - 1 in the code
    WindowSize, MaxDuration,         \* host settings used by formation
    ContractPrice, MaxCollateral

ASSUME RevisionRulesAssumption ==
    /\ MaxRevision \in Nat \ {0}
    /\ WindowSize \in Nat /\ MaxDuration \in Nat
    /\ ContractPrice \in Nat /\ MaxCollateral \in Nat

\* contractUnlockConditions: the renter's and the host's key, two signatures.
ContractUnlockConditions(hostKey, renterKey) == <<renterKey, hostKey>>

\* UnlockConditions.UnlockHash: a hash, modelled as an injective tag.
UnlockHash(uc) == <<"unlockhash", uc>>

\* The sum of the values of a list of proof outputs, as the loops of
\* validateStdRevision compute it.
SumValues(outs) ==
    LET s[i \in 0..Len(outs)] == IF i = 0 THEN 0 ELSE s[i - 1] + outs[i].value
    IN  s[Len(outs)]

-----------------------------------------------------------------------------
(* validateStdRevision                                                      *)

\* The address loop over the revision's outputs returns no error: every
\* output of rev has the address of the output of cur at that index.
AddressLoopPasses(rev, cur) ==
    /\ Len(rev) <= Len(cur)
    /\ \A i \in 1..Len(rev) : rev[i].addr = cur[i].addr

\* The loop reads cur[i] past its end: rev is longer and no earlier address
\* differs, so current.ValidProofOutputs[i] is indexed out of range.
AddressLoopPanics(rev, cur) ==
    /\ Len(rev) > Len(cur)
    /\ \A i \in 1..Len(cur) : rev[i].addr = cur[i].addr

\* Mutant: the missed outputs' sum is not compared.
StdSwitchPassesNoMissedSum(cur, rev) ==
    /\ SumValues(rev.valid) = SumValues(cur.valid)
    /\ rev.unlockHash = cur.unlockHash
    /\ rev.unlockConds = cur.unlockConds
    /\ rev.num > cur.num
    /\ rev.windowStart = cur.windowStart
    /\ rev.windowEnd = cur.windowEnd
    /\ Len(rev.valid) = Len(cur.valid)
    /\ Len(rev.missed) = Len(cur.missed)

\* Mutant: the revision number is not compared.
StdSwitchPassesNoNumber(cur, rev) ==
    /\ SumValues(rev.valid) = SumValues(cur.valid)
    /\ SumValues(rev.missed) = SumValues(cur.valid)
    /\ rev.unlockHash = cur.unlockHash
    /\ rev.unlockConds = cur.unlockConds
    /\ rev.windowStart = cur.windowStart
    /\ rev.windowEnd = cur.windowEnd
    /\ Len(rev.valid) = Len(cur.valid)
    /\ Len(rev.missed) = Len(cur.missed)

\* The cases of the switch of validateStdRevision that precede the reads of
\* index 0. The missed sum is compared with the sum of the current VALID
\* outputs, as the code does.
StdSwitchPasses(cur, rev) ==
    /\ SumValues(rev.valid) = SumValues(cur.valid)
    /\ SumValues(rev.missed) = SumValues(cur.valid)
    /\ rev.unlockHash = cur.unlockHash
    /\ rev.unlockConds = cur.unlockConds
    /\ rev.num > cur.num
    /\ rev.windowStart = cur.windowStart
    /\ rev.windowEnd = cur.windowEnd
    /\ Len(rev.valid) = Len(cur.valid)
    /\ Len(rev.missed) = Len(cur.missed)

\* The current lists are never empty (formation gives 2 and 3 outputs and the
\* switch keeps the lengths), so the reads of index 0 never panic.
StdAccepts(cur, rev) ==
    /\ AddressLoopPasses(rev.valid, cur.valid)
    /\ AddressLoopPasses(rev.missed, cur.missed)
    /\ StdSwitchPasses(cur, rev)
    /\ rev.valid[1].value <= cur.valid[1].value
    /\ rev.missed[1].value <= cur.missed[1].value

StdPanics(cur, rev) ==
    \/ AddressLoopPanics(rev.valid, cur.valid)
    \/ /\ AddressLoopPasses(rev.valid, cur.valid)
       /\ AddressLoopPanics(rev.missed, cur.missed)

-----------------------------------------------------------------------------
(* ValidateRevision: a revision paying `payment` and moving `collateral`.    *)

\* Mutant: the minimum host valid value forgets the payment.
RevisionAcceptsNoMinValid(cur, rev, payment, collateral) ==
    /\ StdAccepts(cur, rev)
    /\ cur.valid[1].value >= payment
    /\ cur.missed[1].value >= payment
    /\ cur.missed[2].value >= collateral
    /\ rev.valid[2].value >= cur.valid[2].value
    /\ rev.missed[2].value <= cur.missed[2].value - collateral

RevisionAccepts(cur, rev, payment, collateral) ==
    /\ StdAccepts(cur, rev)
    /\ cur.valid[1].value >= payment
    /\ cur.missed[1].value >= payment
    /\ cur.missed[2].value >= collateral
    /\ rev.valid[2].value >= cur.valid[2].value + payment
    /\ rev.missed[2].value <= cur.missed[2].value - collateral

RevisionPanics(cur, rev, payment, collateral) == StdPanics(cur, rev)

(* ValidateProgramRevision: the host may burn at most storage + collateral. *)

ProgramRevisionAccepts(cur, rev, storage, collateral) ==
    /\ StdAccepts(cur, rev)
    /\ storage + collateral <= cur.missed[2].value
    /\ rev.missed[2].value >= cur.missed[2].value - (storage + collateral)

ProgramRevisionPanics(cur, rev, storage, collateral) == StdPanics(cur, rev)

(* ValidatePaymentRevision: exactly `payment` moves from renter to host.    *)
(* current...Value.Sub(payment) panics when payment exceeds the value.      *)

PaymentRevisionAccepts(cur, rev, payment) ==
    /\ StdAccepts(cur, rev)
    /\ payment <= cur.valid[1].value
    /\ rev.valid[1].value = cur.valid[1].value - payment
    /\ payment <= cur.missed[1].value
    /\ rev.missed[1].value = cur.missed[1].value - payment
    /\ rev.valid[2].value = cur.valid[2].value + payment
    /\ rev.missed[2].value = cur.missed[2].value + payment

PaymentRevisionPanics(cur, rev, payment) ==
    \/ StdPanics(cur, rev)
    \/ /\ StdAccepts(cur, rev)
       /\ \/ payment > cur.valid[1].value
          \/ /\ rev.valid[1].value = cur.valid[1].value - payment
             /\ payment > cur.missed[1].value

-----------------------------------------------------------------------------
(* ValidateClearingRevision                                                 *)

ClearingSwitchPasses(cur, final) ==
    /\ final.file = cur.file
    /\ final.windowStart = cur.windowStart
    /\ final.windowEnd = cur.windowEnd
    /\ Len(final.valid) = Len(final.missed)
    /\ final.num = MaxRevision
    /\ final.unlockHash = cur.unlockHash
    /\ final.unlockConds = cur.unlockConds

\* Output i of the final revision keeps the current valid output and its
\* missed output equals it.
OutputCleared(cur, final, i) ==
    /\ final.valid[i].value = cur.valid[i].value
    /\ final.valid[i].addr = cur.valid[i].addr
    /\ final.valid[i].value = final.missed[i].value
    /\ final.valid[i].addr = final.missed[i].addr

\* The loop runs over the FINAL valid outputs only: nothing compares their
\* number with the current number.
ClearingAccepts(cur, final) ==
    /\ ClearingSwitchPasses(cur, final)
    /\ Len(final.valid) <= Len(cur.valid)
    /\ \A i \in 1..Len(final.valid) : OutputCleared(cur, final, i)

ClearingPanics(cur, final) ==
    /\ ClearingSwitchPasses(cur, final)
    /\ Len(final.valid) > Len(cur.valid)
    /\ \A i \in 1..Len(cur.valid) : OutputCleared(cur, final, i)

-----------------------------------------------------------------------------
(* ValidateContractFormation and InitialRevision                            *)

EmptyFile == "empty"   \* filesize 0 and the zero Merkle root

FormationAccepts(fc, currentHeight) ==
    /\ fc.file = EmptyFile
    /\ fc.num = 0
    /\ fc.windowStart >= currentHeight + WindowSize
    /\ fc.windowStart <= currentHeight + MaxDuration
    /\ fc.windowEnd >= fc.windowStart + WindowSize
    /\ Len(fc.valid) = 2
    /\ Len(fc.missed) = 3
    /\ fc.valid[2].addr = HostAddr
    /\ fc.missed[2].addr = HostAddr
    /\ fc.valid[2].value >= ContractPrice
    /\ fc.valid[2].value = fc.missed[2].value
    /\ fc.valid[2].value <= MaxCollateral
    /\ fc.unlockHash = UnlockHash(ContractUnlockConditions(HostKey, RenterKey))

\* Mutant: the unlock conditions are left unset.
InitialRevisionNoConds(fc) == [fc EXCEPT !.num = 1]

\* The first revision of a formed contract: revision number 1 and the
\* contract's unlock conditions.
InitialRevision(fc) ==
    [fc EXCEPT !.num = 1,
               !.unlockConds = ContractUnlockConditions(HostKey, RenterKey)]

-----------------------------------------------------------------------------
(* ValidateContractRenewal: a new contract renewing the existing revision. *)
(* The switch reads outputs [1] and [2] without checking the lengths, and   *)
(* subtracts hostBurn from the host's valid output without comparing them. *)

\* The cases before the first read of an output.
RenewalHeadPasses(existing, renewal, currentHeight) ==
    /\ renewal.num = 0
    /\ renewal.file = existing.file
    /\ renewal.windowEnd >= existing.windowEnd
    /\ renewal.windowStart >= currentHeight + WindowSize
    /\ renewal.windowStart <= currentHeight + MaxDuration
    /\ renewal.windowEnd >= renewal.windowStart + WindowSize

\* The cases on the host's valid output.
RenewalHostValidPasses(renewal, renterCost) ==
    /\ renewal.valid[2].addr = HostAddr
    /\ renewal.valid[2].value >= renterCost

\* The cases on the host's missed output. The last one rejects a missed
\* payout BELOW the valid payout, as the code compares them.
RenewalHostMissedPasses(renewal, renterCost) ==
    /\ renewal.missed[2].value >= renterCost
    /\ renewal.valid[2].value - renterCost <= MaxCollateral
    /\ renewal.missed[2].value >= renewal.valid[2].value

RenewalAccepts(existing, renewal, renterCost, hostBurn, currentHeight) ==
    /\ RenewalHeadPasses(existing, renewal, currentHeight)
    /\ Len(renewal.valid) >= 2
    /\ RenewalHostValidPasses(renewal, renterCost)
    /\ Len(renewal.missed) >= 2
    /\ RenewalHostMissedPasses(renewal, renterCost)
    /\ Len(renewal.missed) >= 3
    /\ renewal.missed[3].value >= hostBurn
    /\ hostBurn <= renewal.valid[2].value
    /\ renewal.missed[2].value >= renewal.valid[2].value - hostBurn
    /\ renewal.unlockHash = UnlockHash(ContractUnlockConditions(HostKey, RenterKey))

\* The first read past the end of an output list, or the subtraction of a
\* burn larger than the host's valid output, is reached.
RenewalPanics(existing, renewal, renterCost, hostBurn, currentHeight) ==
    /\ RenewalHeadPasses(existing, renewal, currentHeight)
    /\ \/ Len(renewal.valid) < 2
       \/ /\ Len(renewal.valid) >= 2
          /\ RenewalHostValidPasses(renewal, renterCost)
          /\ \/ Len(renewal.missed) < 2
             \/ /\ Len(renewal.missed) >= 2
                /\ RenewalHostMissedPasses(renewal, renterCost)
                /\ \/ Len(renewal.missed) < 3
                   \/ /\ Len(renewal.missed) >= 3
                      /\ renewal.missed[3].value >= hostBurn
                      /\ hostBurn > renewal.valid[2].value

=============================================================================
