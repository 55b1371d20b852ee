---------------------- MODULE ContractRevisionsProofs ----------------------
(***************************************************************************)
(* Proofs about ContractRevisions for every value of the constants:        *)
(* every revision the host stores is well formed, its revision number     *)
(* never goes down, and every stored revision that keeps the host's valid  *)
(* output is one consensus accepts for the contract and keeps every        *)
(* payment the host charged; only a clearing revision drops that output.   *)
(***************************************************************************)
EXTENDS ContractRevisions, SequenceTheorems, TLAPS

Addrs == {RenterAddr, HostAddr, VoidAddr}

\* An output with a new address from Addrs is still an output.
LEMMA SetAddrOutput ==
    ASSUME NEW o \in Output, NEW a \in Addrs
    PROVE  [o EXCEPT !.addr = a] \in Output
BY DEF Output, Addrs

\* Changing the address of output 2 keeps a list of outputs a list of
\* outputs, whether or not it has an output 2.
LEMMA SetAddrSeq ==
    ASSUME NEW s \in Seq(Output), NEW a \in Addrs
    PROVE  [s EXCEPT ![2].addr = a] \in Seq(Output)
<1>1. CASE 2 \in 1..Len(s)
  <2>1. s[2] \in Output
    BY <1>1, ElementOfSeq
  <2>2. [s[2] EXCEPT !.addr = a] \in Output
    BY <2>1, SetAddrOutput
  <2>3. [s EXCEPT ![2] = [s[2] EXCEPT !.addr = a]] \in Seq(Output)
    BY <1>1, <2>2, ExceptSeq
  <2>. QED  BY <2>3
<1>2. CASE 2 \notin 1..Len(s)
  <2>1. DOMAIN s = 1..Len(s)
    BY LenProperties
  <2>2. [s EXCEPT ![2].addr = a] = s
    BY <1>2, <2>1
  <2>. QED  BY <2>2
<1>. QED  BY <1>1, <1>2

\* The lists Revise builds from any values are lists of outputs.
LEMMA OutputListsTyped ==
    ASSUME NEW base, NEW lens \in SUBSET Nat, Len(base) \in Nat,
           \A i \in 1..Len(base) : base[i].addr \in Addrs
    PROVE  OutputLists(base, lens) \subseteq Seq(Output)
<1>. SUFFICES ASSUME NEW n \in lens, NEW vs \in [1..n -> Values]
              PROVE  [i \in 1..n |-> [addr |-> AddrAt(base, i), value |-> vs[i]]]
                       \in Seq(Output)
  BY DEF OutputLists
<1>1. \A i \in 1..n : [addr |-> AddrAt(base, i), value |-> vs[i]] \in Output
  <2>. SUFFICES ASSUME NEW i \in 1..n
                PROVE  [addr |-> AddrAt(base, i), value |-> vs[i]] \in Output
    OBVIOUS
  <2>1. AddrAt(base, i) \in Addrs
    BY DEF AddrAt, Addrs
  <2>2. vs[i] \in Nat
    BY ContractRevisionsAssumption
  <2>. QED  BY <2>1, <2>2 DEF Output, Addrs
<1>2. n \in Nat
  OBVIOUS
<1>. QED  BY <1>1, <1>2, SeqDef

\* Cutting or extending a list of outputs gives a list of outputs.
LEMMA ResizedTyped ==
    ASSUME NEW base \in Seq(Output), NEW n \in Nat
    PROVE  Resized(base, n) \in Seq(Output)
<1>1. \A i \in 1..n : i <= Len(base) => base[i] \in Output
  BY ElementOfSeq
<1>2. [addr |-> RenterAddr, value |-> 0] \in Output
  BY DEF Output
<1>. QED  BY <1>1, <1>2, SeqDef DEF Resized

\* The revision numbers a renter may propose fit the integer's width.
LEMMA NumChoicesTyped ==
    ASSUME NEW cur \in Revision
    PROVE  NumChoices(cur) \subseteq 0..MaxRevision
BY RevisionRulesAssumption DEF NumChoices, Revision

\* A list of outputs has a length and every address in it is one of Addrs.
LEMMA OutputSeqFacts ==
    ASSUME NEW s \in Seq(Output)
    PROVE  /\ Len(s) \in Nat
           /\ \A i \in 1..Len(s) : s[i].addr \in Addrs
<1>1. Len(s) \in Nat
  BY LenProperties
<1>2. \A i \in 1..Len(s) : s[i] \in Output
  BY ElementOfSeq
<1>. QED  BY <1>1, <1>2 DEF Output, Addrs

\* A revision with a number in range and lists of outputs is well formed.
LEMMA WithOutputsTyped ==
    ASSUME NEW cur \in Revision, NEW n \in 0..MaxRevision,
           NEW vl \in Seq(Output), NEW ml \in Seq(Output)
    PROVE  WithOutputs(cur, n, vl, ml) \in Revision
BY Zenon DEF WithOutputs, Revision

\* Every revision a renter may propose is well formed.
LEMMA ProposalsTyped ==
    ASSUME NEW cur \in Revision
    PROVE  Proposals(cur) \subseteq Revision
<1>. USE RevisionRulesAssumption, ContractRevisionsAssumption
<1>1. cur.valid \in Seq(Output) /\ cur.missed \in Seq(Output)
  BY DEF Revision
<1>2. NumChoices(cur) \subseteq 0..MaxRevision
  BY NumChoicesTyped
<1>3. Revised(cur) \subseteq Revision
  <2>1. ValidChoices(cur) \subseteq Seq(Output)
    BY <1>1, OutputSeqFacts, OutputListsTyped DEF ValidChoices
  <2>2. MissedChoices(cur) \subseteq Seq(Output)
    BY <1>1, OutputSeqFacts, OutputListsTyped DEF MissedChoices
  <2>. SUFFICES ASSUME NEW x \in Revised(cur) PROVE x \in Revision
    OBVIOUS
  <2>3. PICK n \in NumChoices(cur), vl \in ValidChoices(cur),
             ml \in MissedChoices(cur) :
          x = WithOutputs(cur, n, vl, ml)
    BY DEF Revised
  <2>. QED  BY <1>2, <2>1, <2>2, <2>3, WithOutputsTyped
<1>4. Reshaped(cur) \subseteq Revision
  <2>. SUFFICES ASSUME NEW x \in Reshaped(cur) PROVE x \in Revision
    OBVIOUS
  <2>1. PICK n \in NumChoices(cur), a \in ValidLens, b \in MissedLens,
             mb \in {cur.missed, cur.valid} :
          x = WithOutputs(cur, n, Resized(cur.valid, a), Resized(mb, b))
    BY DEF Reshaped
  <2>2. Resized(cur.valid, a) \in Seq(Output)
    BY <1>1, ResizedTyped
  <2>3. Resized(mb, b) \in Seq(Output)
    BY <1>1, ResizedTyped
  <2>. QED  BY <1>2, <2>1, <2>2, <2>3, WithOutputsTyped
<1>5. Tampered(cur) \subseteq Revision
  <2>. DEFINE n == (cur.num + 1) % (MaxRevision + 1)
  <2>1. n \in 0..MaxRevision
    BY <1>2 DEF NumChoices
  <2>2. [cur.valid EXCEPT ![2].addr = RenterAddr] \in Seq(Output)
    BY <1>1, SetAddrSeq DEF Addrs
  <2>3. [cur.missed EXCEPT ![2].addr = RenterAddr] \in Seq(Output)
    BY <1>1, SetAddrSeq DEF Addrs
  <2>4. cur.windowStart + 1 \in Nat /\ cur.windowEnd + 1 \in Nat
    BY DEF Revision
  <2>5. [cur EXCEPT !.num = n, !.windowStart = @ + 1] \in Revision
    BY <2>1, <2>4, Zenon DEF Revision
  <2>6. [cur EXCEPT !.num = n, !.windowEnd = @ + 1] \in Revision
    BY <2>1, <2>4, Zenon DEF Revision
  <2>7. [cur EXCEPT !.num = n, !.unlockHash =
           UnlockHash(ContractUnlockConditions(HostKey, ForeignKey))] \in Revision
    BY <2>1, Zenon DEF Revision
  <2>8. [cur EXCEPT !.num = n, !.unlockConds =
           ContractUnlockConditions(HostKey, ForeignKey)] \in Revision
    BY <2>1, Zenon DEF Revision
  <2>9. [cur EXCEPT !.num = n, !.valid[2].addr = RenterAddr] \in Revision
    BY <2>1, <2>2, Zenon DEF Revision
  <2>10. [cur EXCEPT !.num = n, !.missed[2].addr = RenterAddr] \in Revision
    BY <2>1, <2>3, Zenon DEF Revision
  <2>11. \A f \in Files : [cur EXCEPT !.num = n, !.file = f] \in Revision
    BY <2>1, Zenon DEF Revision
  <2>. QED  BY <2>5, <2>6, <2>7, <2>8, <2>9, <2>10, <2>11, Zenon DEF Tampered
<1>. QED  BY <1>3, <1>4, <1>5 DEF Proposals

\* The first revision of every contract a renter may form is well formed.
LEMMA InitialRevisionTyped ==
    ASSUME NEW fc \in FormationCandidates
    PROVE  InitialRevision(fc) \in Revision
<1>. USE RevisionRulesAssumption, ContractRevisionsAssumption
<1>1. OutputLists(<<[addr |-> RenterAddr], [addr |-> HostAddr]>>, {2})
        \subseteq Seq(Output)
  BY OutputListsTyped DEF Addrs
<1>2. OutputLists(<<[addr |-> RenterAddr], [addr |-> HostAddr],
                   [addr |-> VoidAddr]>>, {3}) \subseteq Seq(Output)
  BY OutputListsTyped DEF Addrs
<1>. SUFFICES ASSUME NEW f \in Files, NEW ws \in Heights, NEW we \in Heights,
                     NEW k \in {RenterKey, ForeignKey},
                     NEW vl \in OutputLists(<<[addr |-> RenterAddr],
                                             [addr |-> HostAddr]>>, {2}),
                     NEW ml \in OutputLists(<<[addr |-> RenterAddr],
                                             [addr |-> HostAddr],
                                             [addr |-> VoidAddr]>>, {3})
              PROVE  InitialRevision(
                       [num |-> 0, file |-> f, windowStart |-> ws, windowEnd |-> we,
                        unlockHash |-> UnlockHash(ContractUnlockConditions(HostKey, k)),
                        unlockConds |-> <<>>, valid |-> vl, missed |-> ml])
                       \in Revision
  BY DEF FormationCandidates
<1>3. 1 \in 0..MaxRevision /\ ws \in Nat /\ we \in Nat
  OBVIOUS
<1>. QED  BY <1>1, <1>2, <1>3, Zenon DEF InitialRevision, Revision
\* Every initial state is well typed.
LEMMA InitTyped == Init => TypeOK
<1>. SUFFICES ASSUME Init PROVE TypeOK
  OBVIOUS
<1>1. PICK fc \in FormationCandidates :
        /\ rev = InitialRevision(fc) /\ formation = InitialRevision(fc)
        /\ paid = 0 /\ panicked = FALSE
  BY DEF Init
<1>. QED  BY <1>1, InitialRevisionTyped DEF TypeOK

\* Every step keeps the state well typed.
LEMMA TypeStep == TypeOK /\ [Next]_vars => TypeOK'
<1>. SUFFICES ASSUME TypeOK, [Next]_vars PROVE TypeOK'
  OBVIOUS
<1>1. Proposals(rev) \subseteq Revision
  BY ProposalsTyped DEF TypeOK
<1>2. ASSUME NEW prop \in Proposals(rev), NEW p \in Nat, Store(prop, p)
      PROVE  TypeOK'
  BY <1>1, <1>2 DEF Store, TypeOK
<1>3. ASSUME Crash PROVE TypeOK'
  BY <1>3 DEF Crash, TypeOK
<1>4. Payments \subseteq Nat /\ 0 \in Nat
  BY ContractRevisionsAssumption
<1>5. CASE PaymentRPC
  BY <1>2, <1>3, <1>4, <1>5 DEF PaymentRPC
<1>6. CASE RevisionRPC
  BY <1>2, <1>3, <1>4, <1>6 DEF RevisionRPC
<1>7. CASE ProgramRPC
  BY <1>2, <1>3, <1>4, <1>7 DEF ProgramRPC
<1>8. CASE ClearingRPC
  BY <1>2, <1>3, <1>4, <1>8 DEF ClearingRPC
<1>9. CASE UNCHANGED vars
  BY <1>9 DEF vars, TypeOK
<1>10. CASE RenewRPC
  BY <1>3, <1>10 DEF RenewRPC, vars, TypeOK
<1>. QED  BY <1>5, <1>6, <1>7, <1>8, <1>9, <1>10 DEF Next

\* Every state the host reaches is well typed: whatever the renter sends,
\* the stored revision is well formed and the payment total a number.
THEOREM TypeCorrect == Spec => []TypeOK
<1>1. Init => TypeOK
  BY InitTyped
<1>2. TypeOK /\ [Next]_vars => TypeOK'
  BY TypeStep
<1>. QED  BY <1>1, <1>2, PTL DEF Spec

-----------------------------------------------------------------------------
(* The stored revision is consensus-valid                                   *)

\* Revision r is consensus-valid for the contract formed as f, and its valid
\* list has the two outputs formation gives it.
Good(r, f) ==
    /\ SumValues(r.valid) = Payout
    /\ SumValues(r.missed) = Payout
    /\ Len(r.valid) = 2 /\ r.valid[2].addr = HostAddr
    /\ Len(r.missed) >= 2 /\ r.missed[2].addr = HostAddr
    /\ r.windowStart = f.windowStart
    /\ r.windowEnd = f.windowEnd
    /\ r.unlockHash = f.unlockHash

\* The shape of a stored revision r of the contract formed as f: with at
\* least two valid outputs it is consensus-valid with formation's two, and
\* with fewer it is a clearing revision, at the maximum number.
Shape(r, f) ==
    /\ Len(r.valid) >= 2 => Good(r, f)
    /\ Len(r.valid) < 2 => r.num = MaxRevision

\* The inductive strengthening of ConsensusValidUnlessCleared: a revision
\* that keeps two valid outputs keeps formation's two, so a clearing
\* revision that keeps two copies both of them; one that keeps fewer is at
\* the maximum number, past which no standard revision can go.
CInv == TypeOK /\ Shape(rev, formation)

\* A revision validateStdRevision accepts keeps the sums, the host's
\* addresses, the lengths and the fixed fields.
LEMMA StdKeepsGood ==
    ASSUME NEW cur \in Revision, NEW prop \in Revision, NEW f,
           Good(cur, f), StdAccepts(cur, prop)
    PROVE  Good(prop, f)
BY DEF Good, StdAccepts, StdSwitchPasses, AddressLoopPasses

\* Two outputs with the same address and value are the same output.
LEMMA OutputEqual ==
    ASSUME NEW o1 \in Output, NEW o2 \in Output,
           o1.addr = o2.addr, o1.value = o2.value
    PROVE  o1 = o2
BY DEF Output

\* A clearing revision with at least two valid outputs that
\* ValidateClearingRevision accepts has the current valid outputs, and the
\* same missed ones.
LEMMA ClearingKeepsGood ==
    ASSUME NEW cur \in Revision, NEW final \in Revision, NEW f,
           Good(cur, f), ClearingAccepts(cur, final), Len(final.valid) >= 2
    PROVE  Good(final, f)
<1>. DEFINE fv == final.valid  fm == final.missed  cv == cur.valid
<1>1. fv \in Seq(Output) /\ fm \in Seq(Output) /\ cv \in Seq(Output)
  BY DEF Revision
<1>2. Len(fv) = 2 /\ Len(cv) = 2 /\ Len(fm) = 2
  BY <1>1, LenProperties DEF Good, ClearingAccepts, ClearingSwitchPasses
<1>3. \A i \in 1..2 : OutputCleared(cur, final, i)
  BY <1>2 DEF ClearingAccepts
<1>4. fv = cv
  <2>1. \A i \in 1..2 : fv[i] = cv[i]
    BY <1>1, <1>2, <1>3, ElementOfSeq, OutputEqual DEF OutputCleared
  <2>. QED  BY <1>1, <1>2, <2>1, SeqEqual
<1>5. fm = fv
  <2>1. \A i \in 1..2 : fm[i] = fv[i]
    BY <1>1, <1>2, <1>3, ElementOfSeq, OutputEqual DEF OutputCleared
  <2>. QED  BY <1>1, <1>2, <2>1, SeqEqual
<1>6. SumValues(fv) = Payout /\ SumValues(fm) = Payout
  BY <1>4, <1>5 DEF Good
<1>7. fv[2].addr = HostAddr /\ fm[2].addr = HostAddr
  BY <1>4, <1>5 DEF Good
<1>8. /\ final.windowStart = f.windowStart /\ final.windowEnd = f.windowEnd
      /\ final.unlockHash = f.unlockHash
  BY DEF Good, ClearingAccepts, ClearingSwitchPasses
<1>. QED  BY <1>2, <1>6, <1>7, <1>8 DEF Good

\* A list Revise builds has one of the requested lengths.
LEMMA OutputListsLen ==
    ASSUME NEW base, NEW lens \in SUBSET Nat, NEW x \in OutputLists(base, lens)
    PROVE  Len(x) \in lens
<1>0. PICK n \in lens : \E vs \in [1..n -> Values] :
        x = [i \in 1..n |-> [addr |-> AddrAt(base, i), value |-> vs[i]]]
  BY DEF OutputLists
<1>1. PICK vs \in [1..n -> Values] :
        x = [i \in 1..n |-> [addr |-> AddrAt(base, i), value |-> vs[i]]]
  BY <1>0
<1>2. x \in Seq([addr : {AddrAt(base, i) : i \in 1..n}, value : Values])
  BY <1>1
<1>3. DOMAIN x = 1..n /\ n \in Nat
  BY <1>1
<1>. QED  BY <1>2, <1>3, LenProperties

\* The first revision keeps the outputs of the formation contract.
LEMMA InitialRevisionOutputs ==
    ASSUME NEW fc \in FormationCandidates
    PROVE  /\ InitialRevision(fc).valid = fc.valid
           /\ InitialRevision(fc).missed = fc.missed
<1>1. PICK f \in Files, ws \in Heights, we \in Heights,
           k \in {RenterKey, ForeignKey},
           vl \in OutputLists(<<[addr |-> RenterAddr], [addr |-> HostAddr]>>, {2}),
           ml \in OutputLists(<<[addr |-> RenterAddr], [addr |-> HostAddr],
                                [addr |-> VoidAddr]>>, {3}) :
        fc = [num |-> 0, file |-> f, windowStart |-> ws, windowEnd |-> we,
              unlockHash |-> UnlockHash(ContractUnlockConditions(HostKey, k)),
              unlockConds |-> <<>>, valid |-> vl, missed |-> ml]
  BY DEF FormationCandidates
<1>. QED  BY <1>1, Zenon DEF InitialRevision

\* The first revision is consensus-valid with formation's two outputs.
LEMMA InitGood == Init => Good(rev, formation)
<1>. SUFFICES ASSUME Init PROVE Good(rev, formation)
  OBVIOUS
<1>1. PICK fc \in FormationCandidates :
        /\ FormationAccepts(fc, CurrentHeight)
        /\ SumValues(fc.valid) = Payout /\ SumValues(fc.missed) = Payout
        /\ rev = InitialRevision(fc) /\ formation = InitialRevision(fc)
  BY DEF Init
<1>. QED  BY <1>1, InitialRevisionOutputs DEF FormationAccepts, Good

\* The strengthening holds in every initial state.
LEMMA InitCInv == Init => CInv
  BY InitTyped, InitGood DEF CInv, Shape, Good

\* validateStdRevision accepts nothing for a revision at the maximum number,
\* so the current revision of an accepted standard revision has two valid
\* outputs.
LEMMA StdNeedsTwo ==
    ASSUME CInv, NEW prop \in Proposals(rev), StdAccepts(rev, prop)
    PROVE  Len(rev.valid) = 2 /\ Good(rev, formation)
<1>1. prop.num \in 0..MaxRevision /\ rev.num \in 0..MaxRevision
  BY ProposalsTyped DEF CInv, TypeOK, Revision
<1>2. rev.num # MaxRevision
  BY <1>1, SMT DEF StdAccepts, StdSwitchPasses
<1>3. Len(rev.valid) \in Nat
  BY LenProperties DEF CInv, TypeOK, Revision
<1>4. Len(rev.valid) >= 2
  BY <1>2, <1>3 DEF CInv, Shape
<1>. QED  BY <1>4 DEF CInv, Shape, Good

\* Every step keeps the strengthening.
LEMMA NextCInv == CInv /\ [Next]_vars => CInv'
<1>. SUFFICES ASSUME CInv, [Next]_vars PROVE CInv'
  OBVIOUS
<1>1. TypeOK'
  BY TypeStep DEF CInv
<1>2. rev \in Revision
  BY DEF CInv, TypeOK
<1>3. ASSUME NEW prop \in Proposals(rev), StdAccepts(rev, prop), NEW p,
             Store(prop, p)
      PROVE  Shape(rev', formation')
  <2>1. Good(rev, formation) /\ prop \in Revision
    BY <1>2, <1>3, StdNeedsTwo, ProposalsTyped
  <2>2. Good(prop, formation)
    BY <1>2, <1>3, <2>1, StdKeepsGood
  <2>. QED  BY <1>3, <2>2 DEF Store, Shape, Good
<1>4. ASSUME Crash PROVE Shape(rev', formation')
  BY <1>4 DEF Crash, CInv
<1>5. ASSUME PaymentRPC PROVE Shape(rev', formation')
  BY <1>3, <1>4, <1>5 DEF PaymentRPC, PaymentRevisionAccepts
<1>6. ASSUME RevisionRPC PROVE Shape(rev', formation')
  BY <1>3, <1>4, <1>6 DEF RevisionRPC, RevisionAccepts
<1>7. ASSUME ProgramRPC PROVE Shape(rev', formation')
  BY <1>3, <1>4, <1>7 DEF ProgramRPC, ProgramRevisionAccepts
<1>8. ASSUME ClearingRPC PROVE Shape(rev', formation')
  <2>1. ASSUME NEW prop \in Proposals(rev), ClearingAccepts(rev, prop),
               Store(prop, 0)
        PROVE  Shape(rev', formation')
    <3>1. prop \in Revision /\ prop.num = MaxRevision
      BY <1>2, <2>1, ProposalsTyped DEF ClearingAccepts, ClearingSwitchPasses
    <3>2. CASE Len(prop.valid) >= 2
      <4>1. Len(rev.valid) >= 2
        BY <2>1, <3>2, <3>1, <1>2, LenProperties, SMT DEF ClearingAccepts, Revision
      <4>2. Good(rev, formation)
        BY <4>1 DEF CInv, Shape
      <4>3. Good(prop, formation)
        BY <1>2, <2>1, <3>1, <3>2, <4>2, ClearingKeepsGood
      <4>. QED  BY <2>1, <3>1, <4>3 DEF Store, Shape, Good
    <3>3. CASE ~(Len(prop.valid) >= 2)
      BY <2>1, <3>1, <3>3 DEF Store, Shape
    <3>. QED  BY <3>2, <3>3
  <2>. QED  BY <1>4, <1>8, <2>1 DEF ClearingRPC
<1>9. ASSUME UNCHANGED vars PROVE Shape(rev', formation')
  BY <1>9 DEF vars, CInv
<1>10. ASSUME RenewRPC PROVE Shape(rev', formation')
  BY <1>4, <1>10 DEF RenewRPC, vars, CInv
<1>. QED  BY <1>1, <1>5, <1>6, <1>7, <1>8, <1>9, <1>10 DEF Next, CInv

\* Every revision the host stores through the payment, revision, program
\* and clearing validators is one consensus accepts for the contract (both
\* sums equal the payout, the host's outputs pay the host, the window and
\* unlock hash are the formation's), unless it is a clearing revision that
\* dropped the host's valid output: ConsensusValidUnlessCleared for every
\* proposed list length and every value of the constants.
THEOREM ConsensusValidUnlessClearedHolds == Spec => []ConsensusValidUnlessCleared
<1>1. Init => CInv
  BY InitCInv
<1>2. CInv /\ [Next]_vars => CInv'
  BY NextCInv
<1>3. CInv => ConsensusValidUnlessCleared
  BY DEF CInv, Shape, Good, ConsensusValidUnlessCleared, ConsensusValid
<1>. QED  BY <1>1, <1>2, <1>3, PTL DEF Spec

-----------------------------------------------------------------------------
(* The stored revision number never decreases                              *)

\* Every validator that stores a proposal either demands a greater number
\* (validateStdRevision) or the maximum (ValidateClearingRevision).
LEMMA NumberStep ==
    ASSUME TypeOK, [Next]_vars
    PROVE  rev'.num >= rev.num
<1>1. rev.num \in 0..MaxRevision
  BY DEF TypeOK, Revision
<1>2. ASSUME NEW prop \in Proposals(rev), StdAccepts(rev, prop)
      PROVE  prop.num >= rev.num
  <2>1. prop.num \in 0..MaxRevision
    BY ProposalsTyped DEF TypeOK, Revision
  <2>. QED  BY <1>1, <2>1, <1>2 DEF StdAccepts, StdSwitchPasses
<1>3. ASSUME NEW prop \in Proposals(rev), NEW p, Store(prop, p)
      PROVE  rev'.num = prop.num
  BY <1>3 DEF Store
<1>4. ASSUME Crash PROVE rev'.num >= rev.num
  BY <1>1, <1>4 DEF Crash
<1>5. CASE PaymentRPC
  BY <1>2, <1>3, <1>4, <1>5 DEF PaymentRPC, PaymentRevisionAccepts
<1>6. CASE RevisionRPC
  BY <1>2, <1>3, <1>4, <1>6 DEF RevisionRPC, RevisionAccepts
<1>7. CASE ProgramRPC
  BY <1>2, <1>3, <1>4, <1>7 DEF ProgramRPC, ProgramRevisionAccepts
<1>8. CASE ClearingRPC
  BY <1>1, <1>3, <1>4, <1>8 DEF ClearingRPC, ClearingAccepts, ClearingSwitchPasses
<1>9. CASE RenewRPC
  BY <1>1, <1>4, <1>9 DEF RenewRPC, vars
<1>10. CASE UNCHANGED vars
  BY <1>1, <1>10 DEF vars
<1>. QED  BY <1>5, <1>6, <1>7, <1>8, <1>9, <1>10 DEF Next

\* No sequence of RPCs makes the host replace its revision by one with a
\* lower number: RevisionNumberMonotone for every value of the constants.
THEOREM NumberMonotone == Spec => RevisionNumberMonotone
<1>1. TypeOK /\ [Next]_vars => [rev'.num >= rev.num]_rev
  BY NumberStep
<1>. QED  BY <1>1, TypeCorrect, PTL DEF Spec, RevisionNumberMonotone



-----------------------------------------------------------------------------
(* The host keeps what it was paid                                         *)

\* The sum the validators' loops compute, written as the function its
\* definition chooses.
SumFun(outs) ==
    CHOOSE f : f = [i \in 0..Len(outs) |->
                      IF i = 0 THEN 0 ELSE f[i - 1] + outs[i].value]

LEMMA SumValuesDef ==
    ASSUME NEW outs
    PROVE  SumValues(outs) = SumFun(outs)[Len(outs)]
  BY DEF SumValues, SumFun

\* The sum of a list of two outputs is the sum of their two values.
LEMMA SumTwo ==
    ASSUME NEW outs, Len(outs) = 2,
           outs[1].value \in Nat, outs[2].value \in Nat
    PROVE  SumValues(outs) = outs[1].value + outs[2].value
<1>. DEFINE v1 == outs[1].value
            v2 == outs[2].value
            D  == 0..Len(outs)
            g  == [i \in D |-> IF i = 0 THEN 0 ELSE IF i = 1 THEN v1 ELSE v1 + v2]
            F(f) == f = [i \in D |-> IF i = 0 THEN 0 ELSE f[i - 1] + outs[i].value]
<1>1. D = {0, 1, 2}
  BY SMT
<1>2. F(g)
  <2>1. \A i \in D : g[i] = IF i = 0 THEN 0 ELSE g[i - 1] + outs[i].value
    BY <1>1, SMT
  <2>. QED  BY <2>1
<1>3. F(SumFun(outs))
  BY <1>2 DEF SumFun
<1>4. /\ SumFun(outs)[0] = 0
      /\ SumFun(outs)[1] = SumFun(outs)[0] + v1
      /\ SumFun(outs)[2] = SumFun(outs)[1] + v2
  BY <1>1, <1>3
<1>5. SumValues(outs) = SumFun(outs)[2]
  BY SumValuesDef
<1>. QED  BY <1>4, <1>5, SMT


\* Output 2 of a list of outputs of length at least two has a number value.
LEMMA HostValueNat ==
    ASSUME NEW s \in Seq(Output), Len(s) >= 2
    PROVE  s[1].value \in Nat /\ s[2].value \in Nat
<1>1. 1 \in 1..Len(s) /\ 2 \in 1..Len(s)
  BY LenProperties, SMT
<1>2. s[1] \in Output /\ s[2] \in Output
  BY <1>1, ElementOfSeq
<1>. QED  BY <1>2 DEF Output

\* A revision validateStdRevision accepts for a two-output contract never
\* lowers the host's valid output: the valid sum is kept and the renter's
\* valid output may only go down.
LEMMA StdKeepsHostValue ==
    ASSUME NEW cur \in Revision, NEW prop \in Revision, Len(cur.valid) = 2,
           StdAccepts(cur, prop)
    PROVE  prop.valid[2].value >= cur.valid[2].value
<1>1. Len(prop.valid) = 2
  BY DEF StdAccepts, StdSwitchPasses
<1>2. cur.valid \in Seq(Output) /\ prop.valid \in Seq(Output)
  BY DEF Revision
<1>3. /\ cur.valid[1].value \in Nat /\ cur.valid[2].value \in Nat
      /\ prop.valid[1].value \in Nat /\ prop.valid[2].value \in Nat
  BY <1>1, <1>2, HostValueNat
<1>4. SumValues(prop.valid) = prop.valid[1].value + prop.valid[2].value
  BY <1>1, <1>3, SumTwo
<1>5. SumValues(cur.valid) = cur.valid[1].value + cur.valid[2].value
  BY <1>3, SumTwo
<1>6. SumValues(prop.valid) = SumValues(cur.valid)
      /\ prop.valid[1].value <= cur.valid[1].value
  BY DEF StdAccepts, StdSwitchPasses
<1>. QED  BY <1>3, <1>4, <1>5, <1>6, SMT

\* HostPaid whenever the host's valid output is still there.
HostPaidIfTwo == Len(rev.valid) >= 2 => HostPaid

\* The strengthening of HostPaidUnlessCleared: the consensus strengthening,
\* whose two-output valid list the argument above needs, and formation's
\* two valid outputs, so that the host's formation value is a number.
PInv == CInv /\ Len(formation.valid) = 2 /\ HostPaidIfTwo

LEMMA InitPInv == Init => PInv
<1>. SUFFICES ASSUME Init PROVE PInv
  OBVIOUS
<1>1. CInv /\ Good(rev, formation)
  BY InitCInv, InitGood
<1>2. rev = formation /\ paid = 0
  BY DEF Init
<1>3. rev.valid[2].value \in Nat /\ Len(rev.valid) = 2
  BY <1>1, HostValueNat DEF CInv, TypeOK, Revision, Good
<1>. QED  BY <1>1, <1>2, <1>3, SMT DEF PInv, HostPaidIfTwo, HostPaid

LEMMA NextPInv == PInv /\ [Next]_vars => PInv'
<1>. SUFFICES ASSUME PInv, [Next]_vars PROVE PInv'
  OBVIOUS
<1>1. CInv'
  BY NextCInv DEF PInv
<1>0. formation' = formation
  BY DEF Next, PaymentRPC, RevisionRPC, ProgramRPC, ClearingRPC, RenewRPC,
         Store, Crash, vars
<1>. DEFINE h  == rev.valid[2].value
            h0 == formation.valid[2].value
<1>2. rev \in Revision /\ formation \in Revision /\ paid \in Nat
      /\ h0 \in Nat
  <2>1. rev \in Revision /\ formation \in Revision /\ paid \in Nat
    BY DEF PInv, CInv, TypeOK
  <2>2. Len(formation.valid) >= 2
    BY DEF PInv
  <2>. QED  BY <2>1, <2>2, HostValueNat DEF Revision
\* What holds of the current revision once it has two valid outputs.
<1>3. ASSUME Len(rev.valid) >= 2
      PROVE  /\ Len(rev.valid) = 2 /\ h \in Nat /\ h >= h0 + paid
  <2>1. Len(rev.valid) = 2
    BY <1>3 DEF PInv, CInv, Shape, Good
  <2>2. h \in Nat
    BY <1>2, <2>1, HostValueNat DEF Revision
  <2>. QED  BY <1>3, <2>1, <2>2 DEF PInv, HostPaidIfTwo, HostPaid
\* A stored proposal that adds the payment to the host's output keeps it.
<1>4. ASSUME NEW prop \in Proposals(rev), NEW p \in Nat, Store(prop, p),
             Len(rev.valid) >= 2, prop.valid[2].value >= h + p
      PROVE  HostPaidIfTwo'
  <2>1. h \in Nat /\ h >= h0 + paid
    BY <1>3, <1>4
  <2>2. rev' = prop /\ paid' = paid + p /\ formation' = formation
    BY <1>4 DEF Store
  <2>3. CASE Len(prop.valid) >= 2
    <3>1. prop.valid[2].value \in Nat
      BY <1>2, <1>4, <2>3, ProposalsTyped, HostValueNat DEF Revision
    <3>2. prop.valid[2].value >= h + p
      BY <1>4
    <3>3. prop.valid[2].value >= h0 + (paid + p)
      BY <1>2, <2>1, <3>1, <3>2, SMT
    <3>. QED  BY <2>2, <3>3 DEF HostPaidIfTwo, HostPaid
  <2>4. CASE ~(Len(prop.valid) >= 2)
    BY <2>2, <2>4 DEF HostPaidIfTwo
  <2>. QED  BY <2>3, <2>4
<1>5. ASSUME Crash PROVE HostPaidIfTwo'
  BY <1>5 DEF Crash, HostPaidIfTwo, HostPaid, PInv
<1>6. Payments \subseteq Nat /\ Burns \subseteq Nat
  BY ContractRevisionsAssumption
<1>7. ASSUME NEW prop \in Proposals(rev), StdAccepts(rev, prop)
      PROVE  /\ Len(rev.valid) >= 2
             /\ prop.valid[2].value >= h + 0
  <2>1. prop \in Revision /\ Len(rev.valid) = 2
    BY <1>2, <1>7, ProposalsTyped, StdNeedsTwo DEF PInv
  <2>2. prop.valid[2].value >= h
    BY <1>2, <1>7, <2>1, StdKeepsHostValue
  <2>. QED  BY <1>3, <2>1, <2>2, SMT
<1>8. ASSUME PaymentRPC PROVE HostPaidIfTwo'
  <2>1. ASSUME NEW p \in Payments, NEW prop \in Proposals(rev),
               PaymentRevisionAccepts(rev, prop, p), Store(prop, p)
        PROVE  HostPaidIfTwo'
    <3>1. Len(rev.valid) >= 2
      BY <1>7, <2>1 DEF PaymentRevisionAccepts
    <3>2. prop.valid[2].value = h + p /\ p \in Nat
      BY <1>6, <2>1 DEF PaymentRevisionAccepts
    <3>3. prop.valid[2].value >= h + p
      BY <1>3, <3>1, <3>2, SMT
    <3>. QED  BY <2>1, <3>1, <3>2, <3>3, <1>4
  <2>. QED  BY <1>5, <1>8, <2>1 DEF PaymentRPC
<1>9. ASSUME RevisionRPC PROVE HostPaidIfTwo'
  <2>1. ASSUME NEW p \in Payments, NEW c \in Burns, NEW prop \in Proposals(rev),
               RevisionAccepts(rev, prop, p, c), Store(prop, p)
        PROVE  HostPaidIfTwo'
    <3>1. Len(rev.valid) >= 2
      BY <1>7, <2>1 DEF RevisionAccepts
    <3>2. prop.valid[2].value >= h + p /\ p \in Nat
      BY <1>6, <2>1 DEF RevisionAccepts
    <3>. QED  BY <2>1, <3>1, <3>2, <1>4
  <2>. QED  BY <1>5, <1>9, <2>1 DEF RevisionRPC
<1>10. ASSUME ProgramRPC PROVE HostPaidIfTwo'
  <2>1. ASSUME NEW s \in Burns, NEW c \in Burns, NEW prop \in Proposals(rev),
               ProgramRevisionAccepts(rev, prop, s, c), Store(prop, 0)
        PROVE  HostPaidIfTwo'
    BY <2>1, <1>7, <1>4 DEF ProgramRevisionAccepts
  <2>. QED  BY <1>5, <1>10, <2>1 DEF ProgramRPC
<1>11. ASSUME ClearingRPC PROVE HostPaidIfTwo'
  <2>1. ASSUME NEW prop \in Proposals(rev), ClearingAccepts(rev, prop),
               Store(prop, 0)
        PROVE  HostPaidIfTwo'
    <3>1. prop \in Revision
      BY <1>2, ProposalsTyped
    <3>2. CASE Len(prop.valid) >= 2
      <4>1. Len(rev.valid) >= 2
        BY <2>1, <3>1, <3>2, <1>2, LenProperties, SMT DEF ClearingAccepts, Revision
      <4>2. OutputCleared(rev, prop, 2)
        BY <2>1, <3>2, SMT DEF ClearingAccepts
      <4>3. prop.valid[2].value = h
        BY <4>2 DEF OutputCleared
      <4>4. prop.valid[2].value >= h + 0
        BY <1>3, <4>1, <4>3, SMT
      <4>. QED  BY <2>1, <4>1, <4>4, <1>4
    <3>3. CASE ~(Len(prop.valid) >= 2)
      BY <2>1, <3>3 DEF Store, HostPaidIfTwo
    <3>. QED  BY <3>2, <3>3
  <2>. QED  BY <1>5, <1>11, <2>1 DEF ClearingRPC
<1>12. ASSUME RenewRPC PROVE HostPaidIfTwo'
  BY <1>5, <1>12 DEF RenewRPC, vars, HostPaidIfTwo, HostPaid, PInv
<1>13. ASSUME UNCHANGED vars PROVE HostPaidIfTwo'
  BY <1>13 DEF vars, HostPaidIfTwo, HostPaid, PInv
<1>14. Len(formation'.valid) = 2
  BY <1>0 DEF PInv
<1>15. HostPaidIfTwo'
  BY <1>8, <1>9, <1>10, <1>11, <1>12, <1>13 DEF Next
<1>. QED  BY <1>1, <1>14, <1>15 DEF PInv

\* Whenever the host's valid output is still in the stored revision, it
\* holds its formation value plus every payment the payment and revision
\* RPCs charged, and only a clearing revision removes it: no sequence of
\* payment, revision, program and clearing revisions lets the renter take a
\* payment back. HostPaidUnlessCleared for every proposed list length.
THEOREM HostPaidUnlessClearedHolds == Spec => []HostPaidUnlessCleared
<1>1. Init => PInv
  BY InitPInv
<1>2. PInv /\ [Next]_vars => PInv'
  BY NextPInv
<1>3. PInv => HostPaidUnlessCleared
  BY DEF PInv, CInv, Shape, HostPaidIfTwo, HostPaidUnlessCleared
<1>. QED  BY <1>1, <1>2, <1>3, PTL DEF Spec

=====
