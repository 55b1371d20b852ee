------------------------ MODULE MCContractRevisions ------------------------
(* A contract with payout 2 between a renter and a host, 2-bit revision   *)
(* numbers so that the clearing number and its wrap-around are reached.   *)
EXTENDS ContractRevisions

CONSTANTS rAddr, hAddr, vAddr, rKey, hKey, fKey

\* types.MaxRevisionNumber at a width of 2 bits.
MCMaxRevision == 2^2 - 1

MCFiles == {EmptyFile, "sectors"}
=============================================================================
