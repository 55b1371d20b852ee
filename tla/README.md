# Verification of hostd's contract core, lifecycle actions and wallet store

TLA+ models of the host side of PiotrZSL/hostd: what the host accepts as a
new revision of a file contract and what a renter can make it do; which
segment a storage proof covers; how the lifecycle actions fund and
broadcast transactions concurrently; and how the wallet store follows the
chain through errors and crashes. The sources are under `src/`; `spec.md`
describes the full host.

## The system

The repository's sources (`src/`) hold five parts:

| Part | Source | What it does |
|---|---|---|
| Revision validators | `src/internal/test/host.go` 188-480 (package `rhp`) | Pure checks of a proposed contract revision against the current one: formation, standard revision, payment, program, clearing, renewal; `Revise` and `InitialRevision` build revisions |
| Test host | `src/internal/test/host.go` 26-177 | Wires a full host (store, chain, wallet, storage, RHP2/RHP3 servers) |
| Lifecycle actions | `src/host/contracts/actions.go` | Storage proof segment selection, storage proof construction, and the height-triggered actions: rebroadcast formation, broadcast final revision, broadcast resolution |
| Wallet store | `src/internal/persist/sqlite/wallet.go` | The wallet's UTXOs, transactions and consensus-change cursor, updated in one SQL transaction per consensus change |
| Schema | `src/internal/persist/sqlite/init.sql` | Tables of volumes, sectors, locks, contracts, sector roots, wallet, settings |

`src/internal/persist/sqlite/volumes_test.go` and `src/unnamed/part_000`
are tests of the volume store and volume manager (and the node wiring of
the daemon); the implementation they test is not under `src/`.

How they interact: a renter session hands the host a proposed revision;
the session handler calls one validator with the current revision from the
contracts table and stores the proposal on nil (`update_contract_revision`
in spec section 6). On chain events the contract manager runs
`handleContractAction`, which builds a storage proof from the contract's
sector roots and funds, signs and broadcasts transactions through the
wallet and the transaction pool. The wallet store is driven by consensus
changes and remembers the last one it applied.

### What is hard here

* The validators read slices by index and subtract currencies; Go panics on
  an index out of range and `Currency.Sub` panics below zero. A panic in a
  session handler ends the host process; the database is unchanged.
* The renter chooses every field of a proposal. What matters is a sequence
  of accepted revisions over different RPCs: a revision one validator
  accepts becomes the current revision of the next.
* Revision numbers are 64-bit; the clearing revision must carry
  `types.MaxRevisionNumber`.
* Crashes between a consensus change and its cursor (wallet), deferred
  releases of funding outputs (actions), persisted sector locks (schema).

## Modules

| Module | Models | State |
|---|---|---|
| `RevisionRules` | the validators of `host.go`, each split into `XAccepts` (returns nil) and `XPanics` (panics before returning); anything else is a rejection | none: predicates on (current, proposed) revisions |
| `ContractRevisions` | one contract as the host stores it, revised by an adversarial renter through the four revision RPCs and renewed through the renewal RPC | `rev` (contracts row), `formation` (the initial revision), `paid` (history: payments charged), `panicked` (a validator panicked the process) |
| `MCContractRevisions` | TLC instance: model values for addresses and keys, 2-bit revision numbers | |
| `ContractRevisionsProofs` | TLAPS proofs about `ContractRevisions` | |
| `StorageProof` | `storageProofSegment` and the indexing of `buildStorageProof` (actions.go 30-54), plus the on-chain reference `ChallengedSegment` | none: operators on a seed and a file size |
| `StorageProofCalls` | every call of `storageProofSegment` on a bounded domain | `seed`, `filesize` (fixed per behaviour) |
| `StorageProofLemmas` | TLAPS facts about `StorageProof`'s operators for every word width | |
| `StorageProofProofs` | TLAPS proofs of the `StorageProofCalls` invariants | |
| `WalletSync` | what the wallet store promises: the wallet after the first `cursor` consensus changes, advanced one whole change at a time | `utxos`, `txns`, `cursor` |
| `WalletStore` | wallet.go: the `updateWalletTxn` statements with their key constraints, `LastWalletChange`, `UnspentSiacoinElements`, `Transactions`, `UpdateWallet`'s SQL transaction; the consensus subscriber (from the spec) | `db` (committed tables), `tx` (the open transaction's view), `open`, `todo` (calls still to make), `applying`, `sub`, `subCursor`, `faults` |
| `MCWalletStore` | TLC instance: three changes with a reorg | |
| `WalletStoreProofs` | TLAPS proof that `WalletStore` implements `WalletSync` | |
| `ContractActions` | actions.go `handleContractAction`, with the wallet, pool, miners and dispatcher from the spec | `pc`, `held` (per contract handler), `reserved` (wallet), `pool`, `spent`, `confirmed` (chain), `errors`, `crashes`, `panicked` |
| `MCContractActions` | TLC instances: two contracts, four outputs; a contract with no sectors | |
| `ContractActionsProofs` | TLAPS proof of `ReservationsHeld` | |

A revision is a record `[num, file, windowStart, windowEnd, unlockHash,
unlockConds, valid, missed]`; the outputs are sequences of `[addr, value]`
with Go index 0 (renter) at 1, 1 (host) at 2, 2 (void) at 3. Filesize and
Merkle root are a single `file` value, since the validators only compare
them for equality. Unlock hashes are injective tags of the unlock
conditions.

`Init` is every formation contract that `ValidateContractFormation`
accepts and whose valid and missed outputs both sum to the payout (what
consensus confirms), followed by `InitialRevision`. Each RPC action is one
handler: an existential choice of payment / burn and proposal, then either
the validator panics (`Crash`: `panicked` set, database unchanged, the
restarted host continues from the same row) or it accepts (`Store`: the
proposal becomes the row). A rejected proposal is a stutter. Proposals
come in three families: `Revised` (current lengths, any values, as
`Revise` builds), `Reshaped` (other lengths), `Tampered` (one fixed field
changed), with the revision number not greater, next (wrapping at the
width) or maximal.

`RenewRPC` is `ValidateContractRenewal` on the stored revision with a renter
cost and host burn from `Burns`. The renewals (`RenewalProposals`) keep the
file, start the window at the earliest height the code allows, carry the
correct unlock hash and have every value of the renter, host and void
outputs, with lists cut to `RenewValidLens` and `RenewMissedLens` outputs
(so the index panics of lines 347-359 are reachable); further renewals
change one checked field. A panic is `Crash`. On nil the host forms the
renewal as a new contract row, which this model does not follow, so the
accepting branch leaves the state unchanged; what the validator accepts is
checked by a state invariant over the renewals of the current revision.

### Storage proofs

A word takes `WordBase` values (2^64 in the code; the proofs hold for
every `WordBase`). The BLAKE2b digest is four words (`Seeds`), since the
hash itself is data; `SegmentRemainders` is the loop of four `bits.Div64`
steps carrying the remainder, and `SegmentPanics` the Div64 panic
condition (divisor not above the high word, or zero). `StorageProofSegment`
keeps the `filesize == 0` early return. `BuildProofPanics` is the
unchecked `roots[sectorIndex]`. The reference `ChallengedSegment` is spec
section 4.5 step 3: the digest as one number modulo ceil(S / leaf_size).

### Wallet store

`db` holds the three things the wallet reads: `wallet_utxos`,
`wallet_transactions` and `global_settings.wallet_last_processed_change`
(0 stands for the empty default and the missing row, both
`ConsensusChangeBeginning`). `UpdateWallet` runs the subscriber's
function in one SQL transaction: `BeginUpdate` opens it (`tx = db`) for
the next change, each `Exec(s)` is one `updateWalletTxn` call on `tx`
(an `INSERT` that hits the primary key of `wallet_utxos`, or the primary
key or `UNIQUE(block_height, block_index)` of `wallet_transactions`,
fails and rolls everything back), `Commit` publishes `tx`. `Fail` is an
I/O error on a statement or the commit, `Crash` the process dying; both
lose the open transaction. The subscriber is not under `src/`; it is
modelled from spec section 3: it subscribes from `LastWalletChange`,
removes spent outputs and reverted transactions before it adds created
outputs and applied transactions, and calls `SetLastChange` last. An
error ends its subscription and it subscribes again from the stored
cursor. `MCWalletStore` reorgs: change 2 reverts `t1` and applies `t2` at
the same (height, index), so the order of the calls meets the UNIQUE
constraint. A replay from a wrong cursor meets the primary key.

### Lifecycle actions

Each contract has at most one handler in flight (spec section 4.4, a
per-contract mutex); the handlers of different contracts run in
the dispatcher's pool at once. A handler is split where it waits on
another component: `HandleFormation` is the formation case in one step
(the lookup errors and a rejected or failed `AcceptTransactionSet` only
return an error); `FundFinalRevision` and `FundResolution` run their case
up to `FundTransaction`, which reserves a free output (the resolution
first computes `uint64(NewWindowStart - 1)`, calls `IndexAtHeight`,
`storageProofSegment` and `buildStorageProof`, whose panic ends the
process); `Finish` signs, broadcasts and runs the deferred `discard()`,
whatever the outcome. `Restart` is the process dying at any point:
reservations and handlers are in memory and lost, the pool and the chain
are not. The wallet (reservation, coin selection), the pool (rejects a
set for a mined action, a duplicate, one spending an output spent on
chain, a double spend of a pooled output), the miners and the
dispatcher (an action stays queued until it is mined) are modelled from
spec sections 4.4 and 6. Heights are abstracted: any pending action may
be dispatched. Every output covers the fee, so a funding takes one.

## Runs

| Run | cfg | Result | What it shows |
|---|---|---|---|
| revisions | `MCContractRevisions.cfg` | pass, 690 states | `TypeOK`, `ConsensusValidUnlessCleared`, `HostPaidUnlessCleared`, `RevisionNumberMonotone` hold over every RPC sequence: the only stored revision that consensus rejects, or that lost the host's payments, is a clearing revision that dropped the host's valid output |
| same_number | `MCContractRevisions_sameNumber.cfg` | violation | `RevisionNumberIncreases`: a payment revision to the maximum number and then a clearing revision store two revisions with the same number |
| drop_output | `MCContractRevisions_dropOutput.cfg` | violation | `ConsensusValid`: a clearing revision with only the renter's output is accepted |
| payment_panic | `MCContractRevisions_paymentPanic.cfg` | violation | `NoPanic`: a payment above the renter's output panics in `Sub` |
| length_panic | `MCContractRevisions_lengthPanic.cfg` | violation | `NoPanic`: a proposal with more outputs panics in the address loop |
| renewal_collateral | `MCContractRevisions_renewalCollateral.cfg` | violation | `RenewalCollateralAsSpec`: a renewal whose host missed payout exceeds its host valid payout is accepted |
| renewal_panic | `MCContractRevisions_renewalPanic.cfg` | violation | `NoPanic`: a renewal whose host burn exceeds the host's valid payout panics in `Sub` |
| storage_proof_calls | `StorageProofCalls.cfg` | pass, 4096 states | `SegmentMatchesChallenge`: no Div64 step panics and the segment is the on-chain one; `ProofSectorInFile`: for whole sectors the sector index is within the roots |
| wallet_store | `MCWalletStore.cfg` | pass, 161 states | `WalletRefinesSync` (the refinement, as a PROPERTY) and `WalletCatchesUp` under fairness |
| contract_actions | `MCContractActions.cfg` | pass, 20176 states | `ReservationsHeld` and `AllActionsConfirmed` under fairness |
| actions_pooled_funding | `MCActionsPooledFunding.cfg` | violation | `FundingNotPooled`: a re-dispatched revision is funded with the output of its own pooled set |
| actions_empty_contract | `MCActionsEmptyContract.cfg` | violation | `HandlerNeverPanics`: the resolution of a contract with no sectors panics |

Bounds: payout 2 with values {0,1,2}, so every split of the payout between
renter and host occurs; payments {0,1,3} (3 exceeds every output); burns
{0,1}; valid lengths {1,2,3} and missed lengths {1,2,3,4} (one more than
the contract in each list, so the index panics are reachable, and a
single output, shorter than the contract's, so a clearing revision can
drop the host's output); revision numbers of 2 bits (maximum 3), so the
next number, the maximum and the wrap-around are all reached within a few
steps; two window heights and two files; renewals with 1 or 2 valid and 1 to 3
missed outputs; window size and maximum duration 1 at height 0. The passing
run takes under a minute. Every RPC both panics and stores
in the passing run. No fairness is assumed: the renter need not send
anything, and the properties are all safety properties.

Each property of the passing run has a mutant (`PROJECT.json`): dropping
the missed-sum comparison, the revision-number comparison, the payment in
ValidateRevision's minimum host payout, or the unlock conditions of
`InitialRevision` makes TLC find the property violated.

Bounds of the new runs. `StorageProofCalls`: words of 16 values, leaves
of 2 bytes, 2 leaves a sector, seed words {0, 1, 7, 15} (zero, one, and
the top word, where a wrong carry shows) and every file size of a word:
sizes that are and are not multiples of the leaf, whole sectors and not.
`MCWalletStore`: three changes over three outputs and two transactions
with two faults, enough for a fault at every statement of every update
and a second one during the replay. `MCContractActions`: two contracts of
one and two sectors, so their handlers interleave, and four outputs, one
per transaction the two contracts fund, so a leaked reservation starves
the last one; one transient error and one restart, with words of 4
values. `CHECK_DEADLOCK FALSE` in the wallet and actions runs: once the
last change is stored, or every action is mined, the system waits for
the next block, which these instances never deliver.

Fairness. `WalletStore`: weak fairness of `Subscribe`, `BeginUpdate`,
`Exec` and `Commit`. The subscriber is a goroutine that keeps running
while the process lives, and nothing else holds the transaction. None
on `Fail` or `Crash`, which are bounded by `MaxFaults`, so faults
eventually stop. `ContractActions`: weak fairness of each handler step per
contract (the dispatcher runs every pending action at every tick, spec
section 4.4, and a handler runs to its return) and of mining (a valid set
paying 1000 times the fee estimate is eventually mined). Errors and
restarts are bounded and not assumed.

Mutants of the new properties: `NumSegments` without rounding up or
always rounded up; `Exec` autocommitting each statement (refinement
broken at the first partial update); `LastWalletChange` always at the
beginning (the replay hits the primary key forever: the wallet never
catches up); `Finish` releasing only on success (a reservation leaks
after a failed broadcast) or never (the wallet drains).

## Findings

* `ValidateClearingRevision` does not compare the number of final outputs
  with the current one (host.go:392): the host can be made to store a
  revision consensus rejects, without its own output.
* `ValidatePaymentRevision` subtracts the payment before comparing it
  (host.go:470) and panics; `validateStdRevision` indexes the current
  outputs before comparing lengths (host.go:204) and panics.
* `ValidateContractRenewal` rejects a host missed payout below the valid
  payout (host.go:355), the reverse of spec section 4.4
  (`host_valid - host_burn <= host_missed <= host_valid`) and of its own
  error message; and it subtracts the host burn from the host's valid
  payout unchecked (host.go:359), so a renewal can panic the host.
* A standard revision may take the maximum revision number (host.go:225),
  so a clearing revision can repeat it; the spec says the number strictly
  increases.
* `buildStorageProof` reads `roots[sectorIndex]` unchecked
  (actions.go:54): for a contract with no data the segment is 0 and the
  root list empty, so the resolution panics the host, where spec section
  4.5 asks for an empty-file proof.
* `discard()` is deferred (actions.go:109, 137) and also runs after a
  successful broadcast, returning the outputs of a pooled transaction to
  the wallet; spec section 6 has the handle release on rollback. The
  action stays queued until it is mined, so its next dispatch funds with
  the same output and is rejected as a double spend (retried later, so
  every action is still eventually mined: `AllActionsConfirmed` holds).

## Proofs

`ContractRevisionsProofs` (tlapm checks every obligation of the module):

* `TypeCorrect`: `Spec => []TypeOK` for every value of the constants.
  `TypeOK` is inductive; the work is in `ProposalsTyped` (every proposal is
  a well-formed revision), resting on `OutputListsTyped`, `ResizedTyped`,
  `SetAddrSeq` and `WithOutputsTyped`.
* `ConsensusValidUnlessClearedHolds`: `Spec => []ConsensusValidUnlessCleared`
  for every value of the constants, every proposed list length included.
  The inductive invariant `CInv` is `TypeOK /\ Shape(rev, formation)`:
  a stored revision with two or more valid outputs is `Good` (consensus-
  valid with exactly formation's two valid outputs: without "exactly" a
  clearing revision could keep two of three), and one with fewer is at
  `MaxRevision`. The second half is what makes the invariant inductive:
  `StdNeedsTwo` shows that no standard revision is accepted at the
  maximum number, so a standard step always starts from a `Good` revision;
  `StdKeepsGood` (the standard checks keep the sums, addresses, lengths
  and fixed fields) then carries it. A clearing revision is at the maximum;
  if it keeps two valid outputs the current one had two as well, and
  `ClearingKeepsGood` shows it equals the current valid list, with a
  missed list equal to its valid list. No sum needs unfolding: the
  validators compare sums directly.
* `NumberMonotone`: `Spec => RevisionNumberMonotone`. `NumberStep` shows
  from `TypeOK` alone that every step keeps or raises the number: the
  standard checks demand a greater one, the clearing check the maximum,
  and a crash or renewal leaves the row alone; `TypeCorrect` supplies
  `[]TypeOK`.
* `HostPaidUnlessClearedHolds`: `Spec => []HostPaidUnlessCleared` for
  every value of the constants and list length. The inductive invariant
  `PInv` is `CInv` (for its two-output valid list), formation's two valid
  outputs (so the formation value is a number) and `HostPaidIfTwo`
  (`HostPaid` whenever the stored revision has two valid outputs).
  Payment and revision RPCs raise the host's value by at least the payment
  they add to `paid`. A program revision adds no payment, and
  `StdKeepsHostValue` shows it cannot lower the host's value: the valid
  sum is kept and the renter's valid value may only go down, so with two
  outputs the host's may only go up. That needs the sum of a two-output
  list, `SumTwo`, proved by exhibiting the function that the LET-recursive
  definition of `SumValues` chooses (`SumFun`). A clearing revision with
  at least two valid outputs copies output 2; one with fewer leaves
  nothing to prove.

The assumptions are `RevisionRulesAssumption` and
`ContractRevisionsAssumption` (numbers are naturals, `EmptyFile` is a file),
evaluated by TLC on every run.

`StorageProofLemmas` and `StorageProofProofs`, for every `WordBase`,
`LeafSize` and `LeavesPerSector` (under `StorageProofAssumption`: all
positive):

* `SegmentNeverPanics`: for a non-empty file no Div64 step panics and the
  segment lies in `0..NumSegments-1`. Each running remainder is below the
  segment count (`RemaindersInRange`, from `Div64RemRange`), which is
  positive (`NumSegmentsPositive`); a remainder below the divisor is
  exactly the no-panic condition of the next step.
* `SectorInFile`: for k > 0 whole sectors the sector index of the
  segment is below k (`WholeSectorSegments`: such a file has
  k * LeavesPerSector segments).
* `SegmentIsChallenged`: for every seed and file size the segment is
  `ChallengedSegment`, the digest as one number modulo
  ceil(filesize / LeafSize). `ModCarry` shows that the remainder carried
  into a Div64 step may stand for the whole high part. From it,
  `RemainderIsSeedValue` shows that the four chained remainders are
  `SeedValue % NumSegments`. `NumSegmentsCeil` shows that `numSegments`
  (division plus a remainder check) is the rounded-up quotient, via
  `DivChar`.
* `ProofSectorInFileHolds` and `SegmentMatchesChallengeHolds`:
  `Spec => []ProofSectorInFile` and `Spec => []SegmentMatchesChallenge`
  in `StorageProofCalls`.

`WalletStoreProofs`: `StoreImplementsSync`, `Spec => WalletRefinesSync`,
for every chain of changes (`WalletStoreAssumption`), id sets and fault
bound. Only `Commit` writes `db`, so every other step maps to a stutter.
A commit must be exactly `Advance`, and that needs the inductive invariant
`IInv`. An open update has `applying = db.cursor + 1` and a running
subscriber. `tx` is `db` with the executed statements applied
(`DoneRemU`, `DoneAddU`, ...). No addition is made while a removal is
pending, and `SetLastChange` only when nothing else is. The last of these
makes the additions meet the state after every removal. Without the
invariant a commit could publish a half-applied change.
`UpdateComplete` reads off the next change when `todo` is empty. One
lemma per statement form (`ExecRemUIInv` ... `ExecSLIInv`) carries the
step, resting on `StmtKinds` (the forms are told apart by their kind) and
`NextStmtsOrder`. TLC checked `IInv` as an invariant of the run first.

`ContractActionsProofs`: `ReservationsAlwaysHeld`,
`Spec => []ReservationsHeld`, for every number of contracts, outputs,
errors and restarts. `ReservationsHeld` is not inductive. A funding
overwrites `held[c]`, so the invariant adds that an idle handler holds
nothing (`HeldOK`). `FundIInv` shows that the output the wallet picks is
not reserved, so the holdings stay disjoint. `DiscardIInv` shows that,
by disjointness, removing a handler's holding from `reserved` leaves
exactly the others.

Proved by a theorem: `TypeOK`, `ConsensusValidUnlessCleared`,
`HostPaidUnlessCleared` and `RevisionNumberMonotone` of the revisions
runs, `SegmentMatchesChallenge` and `ProofSectorInFile`,
`WalletRefinesSync`, and `ReservationsHeld`. Only model-checked:
`ConsensusValid`, whose violation the drop_output run shows (the
theorem proves the guarded form, which implies it in every state whose
valid list has two outputs), `WalletCatchesUp`
and `AllActionsConfirmed` (liveness under fairness), and the properties of
the violation runs. Out of the prover's reach and left to TLC: liveness
under fairness, and what a recursive definition computes for every input.

## Not modelled, and the plan

* The volume store and the `locked_volume_sectors` table
  (init.sql:48): its implementation is not under `src/`. The plan is to
  model it from the spec and mark it spec_modelled.
* The Merkle proofs of `buildStorageProof`, the segment copy, hashing,
  transaction encoding and the row payloads (amounts, addresses,
  timestamps): data the properties do not tell apart.
* `TransactionCount`: a read of the table `Transactions` models.
* The contract store's financials after a failed formation broadcast
  (the TODO at actions.go:82): the code changes nothing there, so there
  is nothing to model; the model checks that the formation is retried.
* Test host and node wiring: construction and I/O, no state machine.
* Composition: `ContractActions` has its own wallet of reservations. Its
  outputs are not the `WalletStore` tables, whose updates come from
  confirmed blocks and not from the handlers.
