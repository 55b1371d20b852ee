------------------------- MODULE MCContractActions --------------------------
(***************************************************************************)
(* Two contracts of one and two sectors, four wallet outputs (one per      *)
(* funded transaction the two contracts need), 4-value words and sectors  *)
(* of two leaves of two bytes. MCEmpty adds a contract with no sectors.   *)
(***************************************************************************)
EXTENDS ContractActions

CONSTANTS c1, c2, c3, o1, o2, o3, o4

MCContracts == {c1, c2}

MCUtxos == {o1, o2, o3, o4}

MCRoots == [c \in MCContracts |-> IF c = c1 THEN 1 ELSE 2]

MCWindowStart == [c \in MCContracts |-> 2]

MCContractSeed == [c \in MCContracts |-> IF c = c1 THEN <<1, 2, 3, 0>>
                                                   ELSE <<3, 3, 1, 2>>]

\* A third contract, formed and left with no data.
MCEmptyContracts == {c1, c3}

MCEmptyRoots == [c \in MCEmptyContracts |-> IF c = c1 THEN 1 ELSE 0]

MCEmptyWindowStart == [c \in MCEmptyContracts |-> 2]

MCEmptyContractSeed == [c \in MCEmptyContracts |-> <<1, 2, 3, 0>>]

=============================================================================
