--------------------------- MODULE ContractActions --------------------------
(***************************************************************************)
(* The lifecycle actions of host/contracts/actions.go: handleContractAction*)
(* run by the action dispatcher's pool, one action in flight per contract  *)
(* (spec section 4.4), handlers of different contracts concurrently.       *)
(*                                                                         *)
(* A final revision or a resolution is funded from the wallet, which       *)
(* reserves the funding outputs; the handler then signs and broadcasts,    *)
(* and the deferred discard() releases the reservation on every return.   *)
(* Funding and broadcasting are separate steps, so the handlers of two     *)
(* contracts interleave between them. The wallet, the transaction pool,    *)
(* the miners and the dispatcher are not under src/; they are modelled     *)
(* from spec sections 4.4 and 6. Chain heights are abstracted: a pending   *)
(* action of a contract may be dispatched at any tick. Every wallet output *)
(* covers the fee (1000 x the fee estimate), so a funding takes one.       *)
(***************************************************************************)
EXTENDS StorageProof, FiniteSets

CONSTANTS
    Contracts,     \* file contract ids
    Utxos,         \* the wallet's spendable outputs
    Roots,         \* Roots[c]: the number of sector roots of contract c
    WindowStart,   \* WindowStart[c]: the revision's NewWindowStart
    Tip,           \* the height of the chain's tip
    ContractSeed,  \* ContractSeed[c]: the digest of (bid, fcid) of c
    MaxErrors,     \* bound on transient store, chain, wallet or tpool errors
    MaxCrashes     \* bound on process restarts

ASSUME ContractActionsAssumption ==
    /\ Roots \in [Contracts -> Nat]
    /\ WindowStart \in [Contracts -> Word]
    /\ Tip \in Word
    /\ ContractSeed \in [Contracts -> Seeds]
    /\ MaxErrors \in Nat
    /\ MaxCrashes \in Nat

Kinds == {"formation", "revision", "resolution"}

\* A transaction set as the pool holds it.
Txn == [kind : Kinds, contract : Contracts, inputs : SUBSET Utxos]

\* The file size of the revision: the host stores whole sectors.
FileSize(c) == Roots[c] * SectorSize

VARIABLES
    pc,         \* pc[c]: "idle", or the action whose funding c's handler holds
    held,       \* held[c]: the outputs FundTransaction reserved for c's handler
    reserved,   \* the wallet's reserved outputs
    pool,       \* the transaction pool
    spent,      \* outputs spent by mined transactions
    confirmed,  \* the <<kind, contract>> pairs mined
    errors,     \* transient errors so far
    crashes,    \* restarts so far
    panicked    \* some handler has panicked

vars == <<pc, held, reserved, pool, spent, confirmed, errors, crashes, panicked>>

-----------------------------------------------------------------------------
(* The chain, wallet and pool interfaces (spec section 6).                 *)

\* The dispatcher enqueues an action until it is mined; a revision or a
\* resolution only for a contract whose formation is on chain.
Pending(c, k) ==
    /\ <<k, c>> \notin confirmed
    /\ k # "formation" => <<"formation", c>> \in confirmed

\* A call returns a transient error (lookup, chain, signing or broadcast).
Transient ==
    /\ errors < MaxErrors
    /\ errors' = errors + 1

\* The outputs FundTransaction may choose: unspent and not reserved.
Free == Utxos \ (spent \cup reserved)

PoolInputs == UNION {t.inputs : t \in pool}

\* AcceptTransactionSet rejects a set for an action already mined (the
\* contract is formed, revised or resolved on chain), a set the pool holds
\* for the same action, one that spends an output spent on chain, and one
\* that double-spends a pooled set's output.
Accepts(t) ==
    /\ <<t.kind, t.contract>> \notin confirmed
    /\ \A p \in pool : <<p.kind, p.contract>> # <<t.kind, t.contract>>
    /\ t.inputs \cap spent = {}
    /\ t.inputs \cap PoolInputs = {}

\* uint64(NewWindowStart - 1): wraps to the top word when the window
\* starts at height 0.
ProofHeight(c) == (WindowStart[c] + WordBase - 1) % WordBase

\* IndexAtHeight fails for a height above the tip.
IndexAtHeightFails(c) == ProofHeight(c) > Tip

\* storageProofSegment for the contract's challenge.
Segment(c) == StorageProofSegment(ContractSeed[c], FileSize(c))

\* storageProofSegment or the roots[sectorIndex] of buildStorageProof panics.
ResolutionPanics(c) ==
    \/ SegmentPanics(ContractSeed[c], FileSize(c))
    \/ BuildProofPanics(Segment(c), Roots[c])

\* FundTransaction reserves a free output for c's handler, which goes on to
\* sign and broadcast action k; the wallet's coin selection is a function
\* of its outputs. With no free output it returns an error.
Fund(c, k) ==
    /\ Free # {}
    /\ pc' = [pc EXCEPT ![c] = k]
    /\ held' = [held EXCEPT ![c] = {CHOOSE u \in Free : TRUE}]
    /\ reserved' = reserved \cup held'[c]
    /\ UNCHANGED <<pool, spent, confirmed, errors, crashes, panicked>>

\* A handler returns an error before it funded anything.
FailEarly ==
    /\ Transient
    /\ UNCHANGED <<pc, held, reserved, pool, spent, confirmed, crashes, panicked>>

\* The in-memory state of the process is lost: handlers and reservations.
Reset ==
    /\ pc' = [c \in Contracts |-> "idle"]
    /\ held' = [c \in Contracts |-> {}]
    /\ reserved' = {}
    /\ UNCHANGED <<pool, spent, confirmed, errors>>

-----------------------------------------------------------------------------

Init ==
    /\ pc = [c \in Contracts |-> "idle"]
    /\ held = [c \in Contracts |-> {}]
    /\ reserved = {}
    /\ pool = {}
    /\ spent = {}
    /\ confirmed = {}
    /\ errors = 0
    /\ crashes = 0
    /\ panicked = FALSE

\* ActionBroadcastFormation: rebroadcast the stored formation set, whose
\* inputs were funded at negotiation. A failure only returns the error.
HandleFormation(c) ==
    /\ pc[c] = "idle"
    /\ Pending(c, "formation")
    /\ LET t == [kind |-> "formation", contract |-> c, inputs |-> {}] IN
       \/ FailEarly
       \/ /\ Accepts(t)
          /\ pool' = pool \cup {t}
          /\ UNCHANGED <<pc, held, reserved, spent, confirmed, errors, crashes, panicked>>

\* ActionBroadcastFinalRevision up to FundTransaction.
FundFinalRevision(c) ==
    /\ pc[c] = "idle"
    /\ Pending(c, "revision")
    /\ \/ FailEarly
       \/ Fund(c, "revision")

\* ActionBroadcastResolution up to FundTransaction: the proof window's
\* index, the challenged segment and the proof, then the funding.
FundResolution(c) ==
    /\ pc[c] = "idle"
    /\ Pending(c, "resolution")
    /\ ~IndexAtHeightFails(c)
    /\ \/ FailEarly
       \/ /\ ResolutionPanics(c)
          /\ Reset
          /\ panicked' = TRUE
          /\ UNCHANGED crashes
       \/ /\ ~ResolutionPanics(c)
          /\ Fund(c, "resolution")

\* The deferred discard(): the handler's reservation goes back to the wallet.
Discard(c) ==
    /\ pc' = [pc EXCEPT ![c] = "idle"]
    /\ held' = [held EXCEPT ![c] = {}]
    /\ reserved' = reserved \ held[c]

\* SignTransaction and AcceptTransactionSet; either may return an error.
SignAndBroadcast(c) ==
    LET t == [kind |-> pc[c], contract |-> c, inputs |-> held[c]] IN
    \/ Transient /\ UNCHANGED pool
    \/ Accepts(t) /\ pool' = pool \cup {t} /\ UNCHANGED errors
    \/ ~Accepts(t) /\ UNCHANGED <<pool, errors>>

\* Mutant: discard() is called on the success path only.
FinishDiscardOnSuccess(c) ==
    /\ pc[c] \in {"revision", "resolution"}
    /\ SignAndBroadcast(c)
    /\ IF pool' # pool THEN Discard(c)
       ELSE /\ pc' = [pc EXCEPT ![c] = "idle"]
            /\ held' = [held EXCEPT ![c] = {}]
            /\ UNCHANGED reserved
    /\ UNCHANGED <<spent, confirmed, crashes, panicked>>

\* Mutant: discard() is never called.
FinishNoDiscard(c) ==
    /\ pc[c] \in {"revision", "resolution"}
    /\ SignAndBroadcast(c)
    /\ pc' = [pc EXCEPT ![c] = "idle"]
    /\ held' = [held EXCEPT ![c] = {}]
    /\ UNCHANGED <<reserved, spent, confirmed, crashes, panicked>>

\* The rest of the revision or resolution case: sign, broadcast, and the
\* deferred discard on the way out, whatever the outcome.
Finish(c) ==
    /\ pc[c] \in {"revision", "resolution"}
    /\ SignAndBroadcast(c)
    /\ Discard(c)
    /\ UNCHANGED <<spent, confirmed, crashes, panicked>>

\* A miner includes a pooled set; its inputs are spent.
Mine(t) ==
    /\ t \in pool
    /\ pool' = pool \ {t}
    /\ spent' = spent \cup t.inputs
    /\ confirmed' = confirmed \cup {<<t.kind, t.contract>>}
    /\ UNCHANGED <<pc, held, reserved, errors, crashes, panicked>>

\* The host process stops and starts again.
Restart ==
    /\ crashes < MaxCrashes
    /\ crashes' = crashes + 1
    /\ Reset
    /\ UNCHANGED panicked

Next ==
    \/ \E c \in Contracts :
          \/ HandleFormation(c)
          \/ FundFinalRevision(c)
          \/ FundResolution(c)
          \/ Finish(c)
    \/ \E t \in pool : Mine(t)
    \/ Restart

\* The dispatcher runs every pending action at every chain tick, a handler
\* runs to its return, and miners include a valid set paying 1000 x the
\* estimated fee. Errors and restarts are not assumed to happen.
Fairness ==
    /\ \A c \in Contracts :
          /\ WF_vars(HandleFormation(c))
          /\ WF_vars(FundFinalRevision(c))
          /\ WF_vars(FundResolution(c))
          /\ WF_vars(Finish(c))
    /\ WF_vars(\E t \in pool : Mine(t))

Spec == Init /\ [][Next]_vars

FairSpec == Spec /\ Fairness

-----------------------------------------------------------------------------

TypeOK ==
    /\ pc \in [Contracts -> {"idle", "revision", "resolution"}]
    /\ held \in [Contracts -> SUBSET Utxos]
    /\ reserved \subseteq Utxos
    /\ pool \subseteq Txn
    /\ spent \subseteq Utxos
    /\ confirmed \subseteq Kinds \X Contracts
    /\ errors \in 0..MaxErrors
    /\ crashes \in 0..MaxCrashes
    /\ panicked \in BOOLEAN

\* The wallet's reservations are exactly the outputs held by handlers that
\* have not returned yet, and no two handlers hold the same output: every
\* exit of the revision and resolution cases, the sign and broadcast errors
\* included, releases what FundTransaction reserved (spec section 9), and
\* a restart drops them all.
ReservationsHeld ==
    /\ reserved = UNION {held[c] : c \in Contracts}
    /\ \A c, d \in Contracts : c # d => held[c] \cap held[d] = {}

\* Every contract's formation, final revision and resolution is eventually
\* mined: errors are retried at a later tick, and a funding that collides
\* with a pooled set is released and retried once that set is mined.
AllActionsConfirmed ==
    <>(\A c \in Contracts : \A k \in Kinds : <<k, c>> \in confirmed)

\* No handler panics: for every contract the dispatcher resolves,
\* storageProofSegment and buildStorageProof return (spec section 4.5
\* expects an empty-file proof for a contract with no data).
HandlerNeverPanics == ~panicked

\* A handler never holds a funding output that a pooled transaction already
\* spends: discard() returns reserved outputs on rollback only (spec
\* section 6), so the outputs of a broadcast set stay out of later fundings.
FundingNotPooled ==
    \A c \in Contracts : held[c] \cap PoolInputs = {}

=============================================================================
