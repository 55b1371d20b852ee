------------------------- MODULE ContractRevisions -------------------------
(***************************************************************************)
(* One file contract as the host stores it, revised by a renter through    *)
(* the host's RPCs. Each RPC hands the renter's proposed revision to one   *)
(* validator of RevisionRules; on nil the host stores the proposal as the  *)
(* contract's revision (update_contract_revision), on an error it keeps    *)
(* the contract unchanged, and on a panic the process dies and restarts    *)
(* from the same database.                                                 *)
(*                                                                         *)
(* The renter is adversarial: it may propose any revision number of the   *)
(* three classes the validators tell apart, any output values, output      *)
(* lists of the lengths ValidLens and MissedLens, and revisions that       *)
(* change one fixed field.                                                 *)
(***************************************************************************)
EXTENDS RevisionRules

CONSTANTS
    Values,          \* output values a renter may propose
    Payout,          \* the contract's payout: what consensus makes both sums
    Payments,        \* payments the host charges for an RPC
    Burns,           \* storage costs and collateral an RPC may burn
    ValidLens,       \* lengths of proposed valid output lists
    MissedLens,      \* lengths of proposed missed output lists
    Files,           \* file (filesize, Merkle root) values; contains EmptyFile
    Heights,         \* block heights of proof windows
    CurrentHeight,   \* the height at formation
    ForeignKey,      \* a key that is neither party's
    RenewValidLens,  \* lengths of a renewal's valid output list
    RenewMissedLens  \* lengths of a renewal's missed output list

ASSUME ContractRevisionsAssumption ==
    /\ Values \subseteq Nat /\ Payout \in Nat
    /\ Payments \subseteq Nat /\ Burns \subseteq Nat
    /\ ValidLens \subseteq Nat /\ MissedLens \subseteq Nat
    /\ RenewValidLens \subseteq Nat /\ RenewMissedLens \subseteq Nat
    /\ EmptyFile \in Files
    /\ Heights \subseteq Nat /\ CurrentHeight \in Nat

VARIABLES
    rev,        \* the contract's revision in the host's database
    formation,  \* the initial revision (never changes)
    paid,       \* the payments of accepted RPCs (history variable)
    panicked    \* some validator has panicked the host

vars == <<rev, formation, paid, panicked>>

Output == [addr : {RenterAddr, HostAddr, VoidAddr}, value : Nat]

Revision == [num : 0..MaxRevision, file : Files,
             windowStart : Nat, windowEnd : Nat,
             unlockHash : {UnlockHash(ContractUnlockConditions(HostKey, k)) :
                              k \in {RenterKey, ForeignKey}},
             unlockConds : {ContractUnlockConditions(HostKey, k) :
                              k \in {RenterKey, ForeignKey}},
             valid : Seq(Output), missed : Seq(Output)]

-----------------------------------------------------------------------------
(* What the renter may send                                                 *)

\* The address the renter gives output i of a list derived from base.
AddrAt(base, i) == IF i <= Len(base) THEN base[i].addr ELSE RenterAddr

\* Output lists of the given lengths with base's addresses and any values:
\* what Revise builds from the renter's values.
OutputLists(base, lens) ==
    UNION { { [i \in 1..n |-> [addr |-> AddrAt(base, i), value |-> vs[i]]] :
                vs \in [1..n -> Values] } : n \in lens }

\* base cut or extended to n outputs, the added ones paying the renter 0.
Resized(base, n) ==
    [i \in 1..n |-> IF i <= Len(base) THEN base[i]
                                      ELSE [addr |-> RenterAddr, value |-> 0]]

\* The classes of revision numbers: not greater, the next (wrapping at the
\* integer's width), and the clearing number.
NumChoices(cur) == {cur.num, (cur.num + 1) % (MaxRevision + 1), MaxRevision}

\* cur with a new revision number and new output lists.
WithOutputs(cur, n, vl, ml) == [cur EXCEPT !.num = n, !.valid = vl, !.missed = ml]

\* Valid lists of the current length, and missed lists of the current
\* length or of the valid one's, as a clearing revision has.
ValidChoices(cur) == OutputLists(cur.valid, {Len(cur.valid)})

MissedChoices(cur) == OutputLists(cur.missed, {Len(cur.missed), Len(cur.valid)})

\* Revisions with the current lengths and any values.
Revised(cur) ==
    { WithOutputs(cur, n, vl, ml) :
        n \in NumChoices(cur), vl \in ValidChoices(cur), ml \in MissedChoices(cur) }

\* Revisions whose lists have other lengths (ValidLens, MissedLens) and the
\* current values; the missed list is resized from the missed or the valid one.
Reshaped(cur) ==
    { WithOutputs(cur, n, Resized(cur.valid, a), Resized(mb, b)) :
        n \in NumChoices(cur), a \in ValidLens, b \in MissedLens,
        mb \in {cur.missed, cur.valid} }

\* Revisions that keep the values and change one fixed field.
Tampered(cur) ==
    LET n == (cur.num + 1) % (MaxRevision + 1) IN
    { [cur EXCEPT !.num = n, !.windowStart = @ + 1],
      [cur EXCEPT !.num = n, !.windowEnd = @ + 1],
      [cur EXCEPT !.num = n,
                  !.unlockHash = UnlockHash(ContractUnlockConditions(HostKey, ForeignKey))],
      [cur EXCEPT !.num = n,
                  !.unlockConds = ContractUnlockConditions(HostKey, ForeignKey)],
      [cur EXCEPT !.num = n, !.valid[2].addr = RenterAddr],
      [cur EXCEPT !.num = n, !.missed[2].addr = RenterAddr] }
    \cup { [cur EXCEPT !.num = n, !.file = f] : f \in Files }

Proposals(cur) == Revised(cur) \cup Reshaped(cur) \cup Tampered(cur)

-----------------------------------------------------------------------------
(* Formation                                                                *)

\* Contracts a renter may ask the host to form; consensus only confirms
\* those whose valid and missed outputs both sum to the payout.
FormationCandidates ==
    { [num |-> 0, file |-> f, windowStart |-> ws, windowEnd |-> we,
       unlockHash |-> UnlockHash(ContractUnlockConditions(HostKey, k)),
       unlockConds |-> <<>>, valid |-> vl, missed |-> ml] :
        f \in Files, ws \in Heights, we \in Heights, k \in {RenterKey, ForeignKey},
        vl \in OutputLists(<<[addr |-> RenterAddr], [addr |-> HostAddr]>>, {2}),
        ml \in OutputLists(<<[addr |-> RenterAddr], [addr |-> HostAddr],
                             [addr |-> VoidAddr]>>, {3}) }

Init ==
    \E fc \in FormationCandidates :
        /\ FormationAccepts(fc, CurrentHeight)
        /\ SumValues(fc.valid) = Payout
        /\ SumValues(fc.missed) = Payout
        /\ rev = InitialRevision(fc)
        /\ formation = InitialRevision(fc)
        /\ paid = 0
        /\ panicked = FALSE

-----------------------------------------------------------------------------
(* RPCs. A rejected proposal leaves every variable unchanged.               *)

\* The validator panics: the host process dies; the database is untouched.
Crash ==
    /\ panicked' = TRUE
    /\ UNCHANGED <<rev, formation, paid>>

\* The validator returns nil and the proposal becomes the revision.
Store(prop, payment) ==
    /\ rev' = prop
    /\ paid' = paid + payment
    /\ UNCHANGED <<formation, panicked>>

\* A payment revision (ValidatePaymentRevision).
PaymentRPC ==
    \E p \in Payments, prop \in Proposals(rev) :
        \/ PaymentRevisionPanics(rev, prop, p) /\ Crash
        \/ PaymentRevisionAccepts(rev, prop, p) /\ Store(prop, p)

\* A revision paying for an RPC and moving collateral (ValidateRevision).
RevisionRPC ==
    \E p \in Payments, c \in Burns, prop \in Proposals(rev) :
        \/ RevisionPanics(rev, prop, p, c) /\ Crash
        \/ RevisionAccepts(rev, prop, p, c) /\ Store(prop, p)

\* A program's revision burning storage cost and collateral
\* (ValidateProgramRevision).
ProgramRPC ==
    \E s \in Burns, c \in Burns, prop \in Proposals(rev) :
        \/ ProgramRevisionPanics(rev, prop, s, c) /\ Crash
        \/ ProgramRevisionAccepts(rev, prop, s, c) /\ Store(prop, 0)

\* The renter's clearing revision (ValidateClearingRevision).
ClearingRPC ==
    \E prop \in Proposals(rev) :
        \/ ClearingPanics(rev, prop) /\ Crash
        \/ ClearingAccepts(rev, prop) /\ Store(prop, 0)

\* Renewals a renter may send for the current revision: the file and
\* windows a renewal needs, any host and void values, the renter's output 0
\* (no renewal check reads it), lists cut to RenewValidLens and
\* RenewMissedLens, and renewals that change one checked field.
RenewalProposals(cur) ==
    LET ws == CurrentHeight + WindowSize
        we == IF cur.windowEnd >= ws + WindowSize THEN cur.windowEnd
                                                  ELSE ws + WindowSize
        uh == UnlockHash(ContractUnlockConditions(HostKey, RenterKey))
        base(vl, ml) == [num |-> 0, file |-> cur.file, windowStart |-> ws,
                         windowEnd |-> we, unlockHash |-> uh,
                         valid |-> vl, missed |-> ml]
        outs(hv, hm, vd) ==
            <<<<[addr |-> RenterAddr, value |-> 0], [addr |-> HostAddr, value |-> hv]>>,
              <<[addr |-> RenterAddr, value |-> 0], [addr |-> HostAddr, value |-> hm],
                [addr |-> VoidAddr, value |-> vd]>> >>
        good == base(outs(0, 0, 0)[1], outs(0, 0, 0)[2])
    IN  { base(SubSeq(outs(hv, hm, vd)[1], 1, a), SubSeq(outs(hv, hm, vd)[2], 1, b)) :
            hv \in Values, hm \in Values, vd \in Values,
            a \in RenewValidLens, b \in RenewMissedLens }
        \cup { [good EXCEPT !.num = 1], [good EXCEPT !.windowEnd = cur.windowEnd - 1],
              [good EXCEPT !.windowStart = ws - 1],
              [good EXCEPT !.unlockHash =
                             UnlockHash(ContractUnlockConditions(HostKey, ForeignKey))],
              [good EXCEPT !.valid[2].addr = RenterAddr] }
        \cup { [good EXCEPT !.file = f] : f \in Files }

\* A renewal of the contract (ValidateContractRenewal) with the renter's
\* cost and the host's burn. On nil the host forms the renewed contract,
\* a new row; this contract's row is left to the clearing revision.
RenewRPC ==
    \E rc \in Burns, hb \in Burns, r \in RenewalProposals(rev) :
        \/ RenewalPanics(rev, r, rc, hb, CurrentHeight) /\ Crash
        \/ RenewalAccepts(rev, r, rc, hb, CurrentHeight) /\ UNCHANGED vars

Next == PaymentRPC \/ RevisionRPC \/ ProgramRPC \/ ClearingRPC \/ RenewRPC

Spec == Init /\ [][Next]_vars

-----------------------------------------------------------------------------
(* Properties                                                               *)

TypeOK ==
    /\ rev \in Revision
    /\ formation \in Revision
    /\ paid \in Nat
    /\ panicked \in BOOLEAN

\* The revision the host stores is one consensus accepts for this contract:
\* both output sums equal the payout, the host's outputs still pay the host,
\* and the window and unlock hash are those of the formation. Needs every
\* validator's sum, address and fixed-field checks, in every RPC.
ConsensusValid ==
    /\ SumValues(rev.valid) = Payout
    /\ SumValues(rev.missed) = Payout
    /\ Len(rev.valid) >= 2 /\ rev.valid[2].addr = HostAddr
    /\ Len(rev.missed) >= 2 /\ rev.missed[2].addr = HostAddr
    /\ rev.windowStart = formation.windowStart
    /\ rev.windowEnd = formation.windowEnd
    /\ rev.unlockHash = formation.unlockHash

\* The host's valid payout holds every payment it charged since formation:
\* payment, write and program RPCs over any history never let the renter
\* take back what it paid.
HostPaid == rev.valid[2].value >= formation.valid[2].value + paid

\* The host's clearing revision is the only way it stores a revision that
\* consensus rejects: every stored revision is consensus-valid, unless it
\* is a clearing revision (number at the maximum) whose valid list lost the
\* host's output, the shape ValidateClearingRevision's loop over the final
\* outputs lets through. Holds for every proposed list length.
ConsensusValidUnlessCleared ==
    \/ ConsensusValid
    \/ rev.num = MaxRevision /\ Len(rev.valid) < 2

\* Whenever the stored revision still has the host's valid output, that
\* output holds every payment charged since formation, for every proposed
\* list length: only a clearing revision that drops the output loses them.
HostPaidUnlessCleared ==
    IF Len(rev.valid) >= 2 THEN HostPaid ELSE rev.num = MaxRevision

\* The stored revision number never goes down: the host never replaces its
\* revision by one the chain would refuse in favour of the renter's copy of
\* the old one, through any of the validators and at the integer's width.
RevisionNumberMonotone == [][rev'.num >= rev.num]_rev

\* Every change of the stored revision raises its revision number, so the
\* host's latest revision supersedes every revision the renter holds; the
\* spec (section 8) accepts the maximum number only by a clearing revision.
RevisionNumberIncreases == [][rev' # rev => rev'.num > rev.num]_rev

\* Every renewal the host would accept for the stored revision lets the
\* host lose at most the agreed burn and never gain by missing the proof:
\* the spec (section 4.4, validate_renewal) requires
\* host_valid - host_burn <= host missed <= host_valid.
RenewalCollateralAsSpec ==
    \A rc \in Burns, hb \in Burns, r \in RenewalProposals(rev) :
        RenewalAccepts(rev, r, rc, hb, CurrentHeight) =>
            /\ r.valid[2].value - hb <= r.missed[2].value
            /\ r.missed[2].value <= r.valid[2].value

\* No renter proposal panics the host process.
NoPanic == ~panicked

=============================================================================
