----------------------------- MODULE WalletStore ----------------------------
(***************************************************************************)
(* The wallet's SQLite store (internal/persist/sqlite/wallet.go) driven by *)
(* the wallet's consensus subscriber.                                      *)
(*                                                                         *)
(* UpdateWallet runs the subscriber's function inside one SQL transaction  *)
(* (s.transaction): every updateWalletTxn call executes a statement on the *)
(* transaction, the first error rolls all of them back, and only a commit  *)
(* makes them visible. The subscriber applies one consensus change per     *)
(* update: it removes the spent outputs and the reverted transactions,     *)
(* adds the created outputs and the applied transactions, then records the *)
(* change with SetLastChange. An error ends the subscription and a crash   *)
(* ends the process; both resume from LastWalletChange (spec section 3).   *)
(* The subscriber is not under src/ and is modelled from the spec.         *)
(***************************************************************************)
EXTENDS Naturals, Sequences, FiniteSets

CONSTANTS
    UtxoIds,    \* siacoin output ids (wallet_utxos.id)
    TxnIds,     \* transaction ids (wallet_transactions.id)
    TxnPos,     \* the (block_height, block_index) of each transaction
    Changes,    \* the consensus changes the chain delivers, in order
    MaxFaults   \* bound on statement errors and crashes in a behaviour

\* A consensus change as the wallet sees it.
Change == [spent : SUBSET UtxoIds, created : SUBSET UtxoIds,
           reverted : SUBSET TxnIds, applied : SUBSET TxnIds]

ASSUME WalletStoreAssumption ==
    /\ Changes \in Seq(Change)
    /\ TxnPos \in [TxnIds -> Nat \X Nat]
    /\ MaxFaults \in Nat

\* The tables the wallet uses: wallet_utxos, wallet_transactions and the
\* wallet_last_processed_change column of global_settings (0 stands for
\* the missing row and the empty default, both ConsensusChangeBeginning).
Tables == [utxos : SUBSET UtxoIds, txns : SUBSET TxnIds,
           cursor : 0..Len(Changes)]

\* The statements of one update, one per updateWalletTxn call.
Stmt == [kind : {"RemoveSiacoinElement", "AddSiacoinElement"}, id : UtxoIds]
        \cup [kind : {"RemoveTransaction", "AddTransaction"}, id : TxnIds]
        \cup [kind : {"SetLastChange"}, id : 1..Len(Changes)]

VARIABLES
    db,         \* the committed tables
    tx,         \* the tables as the open SQL transaction sees them
    open,       \* an UpdateWallet transaction is open
    todo,       \* the calls the subscriber's function has still to make
    applying,   \* the consensus change the open update applies
    sub,        \* the subscriber: "running" or "stopped" (error or crash)
    subCursor,  \* the last change the subscriber knows applied
    faults      \* statement errors and crashes so far

vars == <<db, tx, open, todo, applying, sub, subCursor, faults>>

-----------------------------------------------------------------------------
(* The statements of updateWalletTxn on the transaction's tables t.        *)

\* INSERT INTO wallet_utxos: the primary key rejects an id already present.
AddSiacoinElementFails(t, id) == id \in t.utxos

AddSiacoinElement(t, id) == [t EXCEPT !.utxos = @ \cup {id}]

\* DELETE FROM wallet_utxos WHERE id=?: no error when the row is missing.
RemoveSiacoinElement(t, id) == [t EXCEPT !.utxos = @ \ {id}]

\* INSERT INTO wallet_transactions: the primary key rejects a known id and
\* UNIQUE(block_height, block_index) a second transaction at a position.
AddTransactionFails(t, id) ==
    \/ id \in t.txns
    \/ \E other \in t.txns : TxnPos[other] = TxnPos[id]

AddTransaction(t, id) == [t EXCEPT !.txns = @ \cup {id}]

RemoveTransaction(t, id) == [t EXCEPT !.txns = @ \ {id}]

\* INSERT ... ON CONFLICT (ID) DO UPDATE: the single row takes the change.
SetLastChange(t, id) == [t EXCEPT !.cursor = id]

StmtFails(t, s) ==
    \/ s.kind = "AddSiacoinElement" /\ AddSiacoinElementFails(t, s.id)
    \/ s.kind = "AddTransaction" /\ AddTransactionFails(t, s.id)

ExecStmt(t, s) ==
    CASE s.kind = "AddSiacoinElement"    -> AddSiacoinElement(t, s.id)
      [] s.kind = "RemoveSiacoinElement" -> RemoveSiacoinElement(t, s.id)
      [] s.kind = "AddTransaction"       -> AddTransaction(t, s.id)
      [] s.kind = "RemoveTransaction"    -> RemoveTransaction(t, s.id)
      [] s.kind = "SetLastChange"        -> SetLastChange(t, s.id)

\* Mutant: the stored cursor is lost, as if every read failed.
LastWalletChangeBeginning(d) == 0

\* LastWalletChange: the stored change, or ConsensusChangeBeginning when
\* the row is missing or the column empty. A value SetLastChange wrote is
\* hex of a full id, so the decoding errors are never taken.
LastWalletChange(d) == d.cursor

\* UnspentSiacoinElements: every row of wallet_utxos.
UnspentSiacoinElements(d) == d.utxos

\* Transactions: the rows of wallet_transactions, all pages together.
Transactions(d) == d.txns

-----------------------------------------------------------------------------
(* The subscriber's calls for one change (modelled from the spec).         *)

Removals(c) ==
    {[kind |-> "RemoveSiacoinElement", id |-> u] : u \in c.spent}
    \cup {[kind |-> "RemoveTransaction", id |-> x] : x \in c.reverted}

Additions(c) ==
    {[kind |-> "AddSiacoinElement", id |-> u] : u \in c.created}
    \cup {[kind |-> "AddTransaction", id |-> x] : x \in c.applied}

\* The calls the subscriber may make next: reverted blocks first, then
\* applied blocks, and SetLastChange last.
NextStmts ==
    LET rem == todo \cap Removals(Changes[applying])
        add == todo \cap Additions(Changes[applying])
    IN  IF rem # {} THEN rem ELSE IF add # {} THEN add ELSE todo

\* The update is abandoned: the transaction rolls back, UpdateWallet
\* returns the error and the subscription ends.
RollBack ==
    /\ open' = FALSE
    /\ todo' = {}
    /\ sub' = "stopped"
    /\ UNCHANGED <<db, tx, applying, subCursor>>

-----------------------------------------------------------------------------

Init ==
    /\ db = [utxos |-> {}, txns |-> {}, cursor |-> 0]
    /\ tx = db
    /\ open = FALSE
    /\ todo = {}
    /\ applying = 0
    /\ sub = "stopped"
    /\ subCursor = 0
    /\ faults = 0

\* The subscriber (re)subscribes from the stored cursor.
Subscribe ==
    /\ sub = "stopped"
    /\ sub' = "running"
    /\ subCursor' = LastWalletChange(db)
    /\ UNCHANGED <<db, tx, open, todo, applying, faults>>

\* The next change arrives and UpdateWallet opens its transaction.
BeginUpdate ==
    /\ sub = "running"
    /\ ~open
    /\ subCursor < Len(Changes)
    /\ open' = TRUE
    /\ tx' = db
    /\ applying' = subCursor + 1
    /\ todo' = Removals(Changes[subCursor + 1]) \cup Additions(Changes[subCursor + 1])
               \cup {[kind |-> "SetLastChange", id |-> subCursor + 1]}
    /\ UNCHANGED <<db, sub, subCursor, faults>>

\* Mutant: every statement is committed as it runs (no transaction).
ExecAutocommit(s) ==
    /\ open
    /\ s \in NextStmts
    /\ IF StmtFails(tx, s)
       THEN RollBack /\ UNCHANGED faults
       ELSE /\ tx' = ExecStmt(tx, s)
            /\ db' = ExecStmt(db, s)
            /\ todo' = todo \ {s}
            /\ UNCHANGED <<open, applying, sub, subCursor, faults>>

\* One updateWalletTxn call inside UpdateWallet's transaction: a
\* constraint error rolls the update back.
Exec(s) ==
    /\ open
    /\ s \in NextStmts
    /\ IF StmtFails(tx, s)
       THEN RollBack /\ UNCHANGED faults
       ELSE /\ tx' = ExecStmt(tx, s)
            /\ todo' = todo \ {s}
            /\ UNCHANGED <<db, open, applying, sub, subCursor, faults>>

\* The function returned nil and the transaction commits.
Commit ==
    /\ open
    /\ todo = {}
    /\ db' = tx
    /\ open' = FALSE
    /\ subCursor' = applying
    /\ UNCHANGED <<tx, todo, applying, sub, faults>>

\* A statement or the commit fails on an I/O error: the update rolls back.
Fail ==
    /\ open
    /\ faults < MaxFaults
    /\ faults' = faults + 1
    /\ RollBack

\* The process dies; an open transaction is lost, the tables stay.
Crash ==
    /\ faults < MaxFaults
    /\ faults' = faults + 1
    /\ open' = FALSE
    /\ todo' = {}
    /\ sub' = "stopped"
    /\ UNCHANGED <<db, tx, applying, subCursor>>

Next ==
    \/ Subscribe
    \/ BeginUpdate
    \/ \E s \in Stmt : Exec(s)
    \/ Commit
    \/ Fail
    \/ Crash

\* The subscriber's goroutine keeps running: each of its steps that stays
\* possible is taken. Errors and crashes are not assumed to happen.
Fairness ==
    /\ WF_vars(Subscribe)
    /\ WF_vars(BeginUpdate)
    /\ WF_vars(\E s \in Stmt : Exec(s))
    /\ WF_vars(Commit)

Spec == Init /\ [][Next]_vars

FairSpec == Spec /\ Fairness

-----------------------------------------------------------------------------

TypeOK ==
    /\ db \in Tables
    /\ tx \in Tables
    /\ open \in BOOLEAN
    /\ todo \subseteq Stmt
    /\ applying \in 0..Len(Changes)
    /\ sub \in {"running", "stopped"}
    /\ subCursor \in 0..Len(Changes)
    /\ faults \in 0..MaxFaults

\* What a reader of the store sees (UnspentSiacoinElements, the wallet's
\* transactions and LastWalletChange) is always the wallet after the
\* consensus changes up to the stored cursor, and it moves one whole change
\* at a time: through statement errors, constraint errors and crashes at
\* any point of an update, the store implements WalletSync.
Sync == INSTANCE WalletSync WITH
    utxos <- UnspentSiacoinElements(db),
    txns <- Transactions(db),
    cursor <- LastWalletChange(db)

WalletRefinesSync == Sync!Spec

\* Once errors and crashes stop, the wallet catches up with the chain:
\* replaying from the stored cursor never hits a row the failed update
\* left behind.
WalletCatchesUp == <>(LastWalletChange(db) = Len(Changes))

=============================================================================
