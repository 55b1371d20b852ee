------------------------ MODULE ContractActionsProofs ------------------------
(***************************************************************************)
(* Proofs that the wallet's reservations are exactly what the running      *)
(* handlers of handleContractAction hold, for any number of contracts,     *)
(* outputs, errors and restarts.                                           *)
(***************************************************************************)
EXTENDS ContractActions, TLAPS

\* The handler state ReservationsHeld needs: an idle handler holds nothing,
\* so a new funding never overwrites a reservation.
HeldOK ==
    /\ pc \in [Contracts -> {"idle", "revision", "resolution"}]
    /\ held \in [Contracts -> SUBSET Utxos]
    /\ \A c \in Contracts : pc[c] = "idle" => held[c] = {}

IInv == HeldOK /\ ReservationsHeld

\* A step that leaves the handlers and the reservations alone keeps IInv.
LEMMA KeepsIInv ==
    ASSUME IInv, UNCHANGED <<pc, held, reserved>>
    PROVE  IInv'
  BY DEF IInv, HeldOK, ReservationsHeld

\* A restart or a panic drops every handler and reservation.
LEMMA ResetIInv ==
    ASSUME Reset
    PROVE  IInv'
<1>1. HeldOK'
  BY DEF Reset, HeldOK
<1>2. UNION {held'[c] : c \in Contracts} = {}
  BY DEF Reset
<1>. QED  BY <1>1, <1>2 DEF Reset, IInv, ReservationsHeld

\* FundTransaction for an idle handler reserves one free output.
LEMMA FundIInv ==
    ASSUME IInv, NEW c \in Contracts, NEW k \in {"revision", "resolution"},
           pc[c] = "idle", Fund(c, k)
    PROVE  IInv'
<1>. DEFINE u == CHOOSE x \in Free : TRUE
<1>1. u \in Utxos /\ u \notin reserved
  BY DEF Fund, Free, u
<1>2. held' = [held EXCEPT ![c] = {u}] /\ reserved' = reserved \cup {u}
      /\ pc' = [pc EXCEPT ![c] = k]
  BY DEF Fund, u, IInv, HeldOK
<1>3. held[c] = {}
  BY DEF IInv, HeldOK
<1>4. HeldOK'
  BY <1>1, <1>2 DEF IInv, HeldOK
<1>5. reserved' = UNION {held'[d] : d \in Contracts}
  <2>1. \A d \in Contracts \ {c} : held'[d] = held[d]
    BY <1>2 DEF IInv, HeldOK
  <2>2. held'[c] = {u}
    BY <1>2 DEF IInv, HeldOK
  <2>. QED  BY <1>2, <1>3, <2>1, <2>2 DEF IInv, ReservationsHeld
<1>6. \A d, e \in Contracts : d # e => held'[d] \cap held'[e] = {}
  <2>1. \A d \in Contracts : d # c => held'[d] = held[d] /\ held[d] \subseteq reserved
    BY <1>2 DEF IInv, HeldOK, ReservationsHeld
  <2>2. held'[c] = {u}
    BY <1>2 DEF IInv, HeldOK
  <2>. QED  BY <1>1, <2>1, <2>2 DEF IInv, ReservationsHeld
<1>. QED  BY <1>4, <1>5, <1>6 DEF IInv, ReservationsHeld

\* The deferred discard returns exactly the handler's own outputs.
LEMMA DiscardIInv ==
    ASSUME IInv, NEW c \in Contracts, Discard(c)
    PROVE  IInv'
<1>1. HeldOK'
  BY DEF Discard, IInv, HeldOK
<1>2. (\A d \in Contracts \ {c} : held'[d] = held[d]) /\ held'[c] = {}
  BY DEF Discard, IInv, HeldOK
<1>3. \A d \in Contracts \ {c} : held[d] \cap held[c] = {}
  BY DEF IInv, ReservationsHeld
<1>4. reserved' = UNION {held'[d] : d \in Contracts}
  <2>1. reserved' = reserved \ held[c]
    BY DEF Discard
  <2>2. reserved = UNION {held[d] : d \in Contracts}
    BY DEF IInv, ReservationsHeld
  <2>3. ASSUME NEW x
        PROVE  x \in reserved \ held[c] <=> \E d \in Contracts : x \in held'[d]
    <3>1. x \in reserved <=> \E d \in Contracts : x \in held[d]
      BY <2>2
    <3>2. ASSUME x \in reserved, x \notin held[c]
          PROVE  \E d \in Contracts : x \in held'[d]
      <4>. PICK d \in Contracts : x \in held[d]
        BY <3>1, <3>2
      <4>1. d \in Contracts \ {c}
        BY <3>2
      <4>. QED  BY <4>1, <1>2
    <3>3. ASSUME NEW d \in Contracts, x \in held'[d]
          PROVE  x \in reserved \ held[c]
      <4>1. d \in Contracts \ {c}
        BY <3>3, <1>2
      <4>2. x \in held[d]
        BY <4>1, <3>3, <1>2
      <4>3. x \notin held[c]
        BY <4>1, <4>2, <1>3
      <4>. QED  BY <3>1, <4>2, <4>3
    <3>. QED  BY <3>2, <3>3
  <2>. QED  BY <2>1, <2>3
<1>5. \A d, e \in Contracts : d # e => held'[d] \cap held'[e] = {}
  BY <1>2 DEF IInv, ReservationsHeld
<1>. QED  BY <1>1, <1>4, <1>5 DEF IInv, ReservationsHeld

LEMMA InitIInv == Init => IInv
  BY DEF Init, IInv, HeldOK, ReservationsHeld

LEMMA NextIInv == IInv /\ [Next]_vars => IInv'
<1>. SUFFICES ASSUME IInv, [Next]_vars PROVE IInv'
  OBVIOUS
<1>1. CASE \E c \in Contracts : HandleFormation(c)
  BY <1>1, KeepsIInv DEF HandleFormation, FailEarly
<1>2. CASE \E c \in Contracts : FundFinalRevision(c)
  <2>. PICK c \in Contracts : FundFinalRevision(c)
    BY <1>2
  <2>1. CASE FailEarly
    BY <2>1, KeepsIInv DEF FailEarly
  <2>2. CASE Fund(c, "revision")
    BY <2>2, FundIInv DEF FundFinalRevision
  <2>. QED  BY <2>1, <2>2 DEF FundFinalRevision
<1>3. CASE \E c \in Contracts : FundResolution(c)
  <2>. PICK c \in Contracts : FundResolution(c)
    BY <1>3
  <2>1. CASE FailEarly
    BY <2>1, KeepsIInv DEF FailEarly
  <2>2. CASE Reset
    BY <2>2, ResetIInv
  <2>3. CASE Fund(c, "resolution")
    BY <2>3, FundIInv DEF FundResolution
  <2>. QED  BY <2>1, <2>2, <2>3 DEF FundResolution
<1>4. CASE \E c \in Contracts : Finish(c)
  BY <1>4, DiscardIInv DEF Finish
<1>5. CASE \E t \in pool : Mine(t)
  BY <1>5, KeepsIInv DEF Mine
<1>6. CASE Restart
  BY <1>6, ResetIInv DEF Restart
<1>7. CASE UNCHANGED vars
  BY <1>7, KeepsIInv DEF vars
<1>. QED  BY <1>1, <1>2, <1>3, <1>4, <1>5, <1>6, <1>7 DEF Next

\* Every exit of the revision and resolution cases releases what
\* FundTransaction reserved: ReservationsHeld holds in every state, for
\* every number of contracts and outputs and every bound on errors and
\* restarts.
THEOREM ReservationsAlwaysHeld == Spec => []ReservationsHeld
<1>1. IInv => ReservationsHeld
  BY DEF IInv
<1>. QED  BY <1>1, InitIInv, NextIInv, PTL DEF Spec

=====
