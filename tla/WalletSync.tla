----------------------------- MODULE WalletSync -----------------------------
(***************************************************************************)
(* What the wallet store promises (spec section 3, chain cursor; section   *)
(* 5, ordering guarantees): the wallet's outputs and transactions are      *)
(* always those of the consensus changes up to its cursor, and the cursor  *)
(* moves one whole change at a time, in chain order.                       *)
(***************************************************************************)
EXTENDS Naturals, Sequences

CONSTANTS
    UtxoIds,   \* siacoin output ids
    TxnIds,    \* transaction ids
    Changes    \* the consensus changes the chain delivers, in order

\* Each change is a record of the outputs it spends and creates and the
\* transactions of its reverted and applied blocks (WalletStore states it).

VARIABLES
    utxos,     \* the spendable outputs
    txns,      \* the wallet's transactions
    cursor     \* the number of consensus changes applied

vars == <<utxos, txns, cursor>>

Init ==
    /\ utxos = {}
    /\ txns = {}
    /\ cursor = 0

\* The next consensus change is applied as a whole.
Advance ==
    /\ cursor < Len(Changes)
    /\ utxos' = (utxos \ Changes[cursor + 1].spent) \cup Changes[cursor + 1].created
    /\ txns' = (txns \ Changes[cursor + 1].reverted) \cup Changes[cursor + 1].applied
    /\ cursor' = cursor + 1

Spec == Init /\ [][Advance]_vars

=============================================================================
