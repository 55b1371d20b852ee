---------------------------- MODULE MCWalletStore ---------------------------
(***************************************************************************)
(* A small chain for WalletStore: three changes over three outputs and two *)
(* transactions. Change 2 reverts the block that held t1 and applies t2 at *)
(* the same (height, index), so the UNIQUE constraint of                   *)
(* wallet_transactions is reached when the order of the calls is wrong.    *)
(***************************************************************************)
EXTENDS WalletStore

CONSTANTS u1, u2, u3, t1, t2

MCUtxoIds == {u1, u2, u3}

MCTxnIds == {t1, t2}

MCTxnPos == [x \in MCTxnIds |-> <<1, 0>>]

MCChanges ==
    << [spent |-> {}, created |-> {u1, u2}, reverted |-> {}, applied |-> {t1}],
       [spent |-> {u2}, created |-> {u3}, reverted |-> {t1}, applied |-> {t2}],
       [spent |-> {u3}, created |-> {}, reverted |-> {}, applied |-> {}] >>

=============================================================================
