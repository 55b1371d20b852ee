-------------------------- MODULE WalletStoreProofs --------------------------
(***************************************************************************)
(* Proof that the wallet store implements WalletSync for every chain of    *)
(* consensus changes, every set of ids and every bound on faults: what is  *)
(* committed is always the wallet after whole changes.                     *)
(***************************************************************************)
EXTENDS WalletStore, TLAPS

\* The statements of the subscriber's calls.
RemU(u) == [kind |-> "RemoveSiacoinElement", id |-> u]
AddU(u) == [kind |-> "AddSiacoinElement", id |-> u]
RemT(x) == [kind |-> "RemoveTransaction", id |-> x]
AddT(x) == [kind |-> "AddTransaction", id |-> x]
SL(i) == [kind |-> "SetLastChange", id |-> i]

\* The change the open update applies, and the part of it already executed.
Cur == Changes[applying]
DoneRemU == {u \in Cur.spent : RemU(u) \notin todo}
DoneAddU == {u \in Cur.created : AddU(u) \notin todo}
DoneRemT == {x \in Cur.reverted : RemT(x) \notin todo}
DoneAddT == {x \in Cur.applied : AddT(x) \notin todo}

\* An open update sees the committed tables with the executed statements
\* applied: removals all come before additions, and SetLastChange last.
UpdateInv ==
    open =>
    /\ applying = db.cursor + 1
    /\ applying \in 1..Len(Changes)
    /\ sub = "running"
    /\ todo \subseteq Removals(Cur) \cup Additions(Cur) \cup {SL(applying)}
    /\ todo \cap Removals(Cur) # {} => Additions(Cur) \subseteq todo
    /\ todo \cap (Removals(Cur) \cup Additions(Cur)) # {} => SL(applying) \in todo
    /\ tx.utxos = (db.utxos \ DoneRemU) \cup DoneAddU
    /\ tx.txns = (db.txns \ DoneRemT) \cup DoneAddT
    /\ tx.cursor = IF SL(applying) \in todo THEN db.cursor ELSE applying

StoreTyped ==
    /\ db \in Tables
    /\ tx \in Tables
    /\ subCursor \in 0..Len(Changes)

IInv ==
    /\ StoreTyped
    /\ sub = "running" => subCursor = db.cursor
    /\ UpdateInv

-----------------------------------------------------------------------------
(* What each statement does to a table state.                              *)

LEMMA ExecRemU ==
    ASSUME NEW t \in Tables, NEW u \in UtxoIds
    PROVE  /\ ExecStmt(t, RemU(u)) = [utxos |-> t.utxos \ {u}, txns |-> t.txns, cursor |-> t.cursor]
           /\ ~StmtFails(t, RemU(u))
  BY DEF ExecStmt, StmtFails, RemU, RemoveSiacoinElement, Tables

LEMMA ExecAddU ==
    ASSUME NEW t \in Tables, NEW u \in UtxoIds
    PROVE  /\ ExecStmt(t, AddU(u)) = [utxos |-> t.utxos \cup {u}, txns |-> t.txns, cursor |-> t.cursor]
           /\ StmtFails(t, AddU(u)) <=> AddSiacoinElementFails(t, u)
  BY DEF ExecStmt, StmtFails, AddU, AddSiacoinElement, Tables

LEMMA ExecRemT ==
    ASSUME NEW t \in Tables, NEW x \in TxnIds
    PROVE  /\ ExecStmt(t, RemT(x)) = [utxos |-> t.utxos, txns |-> t.txns \ {x}, cursor |-> t.cursor]
           /\ ~StmtFails(t, RemT(x))
  BY DEF ExecStmt, StmtFails, RemT, RemoveTransaction, Tables

LEMMA ExecAddT ==
    ASSUME NEW t \in Tables, NEW x \in TxnIds
    PROVE  /\ ExecStmt(t, AddT(x)) = [utxos |-> t.utxos, txns |-> t.txns \cup {x}, cursor |-> t.cursor]
           /\ StmtFails(t, AddT(x)) <=> AddTransactionFails(t, x)
  BY DEF ExecStmt, StmtFails, AddT, AddTransaction, Tables

LEMMA ExecSL ==
    ASSUME NEW t \in Tables, NEW i \in 1..Len(Changes)
    PROVE  /\ ExecStmt(t, SL(i)) = [utxos |-> t.utxos, txns |-> t.txns, cursor |-> i]
           /\ ~StmtFails(t, SL(i))
  BY DEF ExecStmt, StmtFails, SL, SetLastChange, Tables

\* Every statement is one of the five forms.
LEMMA StmtForms ==
    ASSUME NEW s \in Stmt
    PROVE  \/ \E u \in UtxoIds : s = RemU(u) \/ s = AddU(u)
           \/ \E x \in TxnIds : s = RemT(x) \/ s = AddT(x)
           \/ \E i \in 1..Len(Changes) : s = SL(i)
  BY DEF Stmt, RemU, AddU, RemT, AddT, SL

\* The five statement forms are told apart by their kind.
LEMMA StmtKinds ==
    ASSUME NEW c \in Change
    PROVE  /\ \A u \in UtxoIds : RemU(u) \in Removals(c) <=> u \in c.spent
           /\ \A u \in UtxoIds : AddU(u) \in Additions(c) <=> u \in c.created
           /\ \A x \in TxnIds : RemT(x) \in Removals(c) <=> x \in c.reverted
           /\ \A x \in TxnIds : AddT(x) \in Additions(c) <=> x \in c.applied
           /\ \A u \in UtxoIds : RemU(u) \notin Additions(c) /\ AddU(u) \notin Removals(c)
           /\ \A x \in TxnIds : RemT(x) \notin Additions(c) /\ AddT(x) \notin Removals(c)
           /\ \A i \in Nat : SL(i) \notin Removals(c) \cup Additions(c)
           /\ Removals(c) \cap Additions(c) = {}
<1>1. \A u \in UtxoIds : RemU(u) \in Removals(c) <=> u \in c.spent
  BY DEF Removals, RemU
<1>2. \A u \in UtxoIds : AddU(u) \in Additions(c) <=> u \in c.created
  BY DEF Additions, AddU
<1>3. \A x \in TxnIds : RemT(x) \in Removals(c) <=> x \in c.reverted
  BY DEF Removals, RemT
<1>4. \A x \in TxnIds : AddT(x) \in Additions(c) <=> x \in c.applied
  BY DEF Additions, AddT
<1>5. \A u \in UtxoIds : RemU(u) \notin Additions(c) /\ AddU(u) \notin Removals(c)
  BY DEF Removals, Additions, RemU, AddU
<1>6. \A x \in TxnIds : RemT(x) \notin Additions(c) /\ AddT(x) \notin Removals(c)
  BY DEF Removals, Additions, RemT, AddT
<1>7. \A i \in Nat : SL(i) \notin Removals(c) \cup Additions(c)
  BY DEF Removals, Additions, SL
<1>8. Removals(c) \cap Additions(c) = {}
  BY DEF Removals, Additions
<1>. QED  BY <1>1, <1>2, <1>3, <1>4, <1>5, <1>6, <1>7, <1>8

\* The change an open update applies is a change of the chain.
LEMMA CurChange ==
    ASSUME IInv, open
    PROVE  Cur \in Change /\ applying \in 1..Len(Changes)
  BY WalletStoreAssumption DEF IInv, UpdateInv, Cur

\* NextStmts: removals first, then additions, then SetLastChange.
LEMMA NextStmtsOrder ==
    ASSUME IInv, open, NEW s \in NextStmts
    PROVE  /\ s \in todo
           /\ s \in Additions(Cur) => todo \cap Removals(Cur) = {}
           /\ s \notin Removals(Cur) \cup Additions(Cur) =>
                 todo \cap (Removals(Cur) \cup Additions(Cur)) = {}
<1>1. Removals(Cur) \cap Additions(Cur) = {}
  BY CurChange, StmtKinds
<1>. DEFINE rem == todo \cap Removals(Cur)
            add == todo \cap Additions(Cur)
<1>2. NextStmts = IF rem # {} THEN rem ELSE IF add # {} THEN add ELSE todo
  BY DEF NextStmts, rem, add, Cur
<1>3. CASE rem # {}
  BY <1>1, <1>2, <1>3 DEF rem, add
<1>4. CASE rem = {} /\ add # {}
  BY <1>1, <1>2, <1>4 DEF rem, add
<1>5. CASE rem = {} /\ add = {}
  BY <1>1, <1>2, <1>5 DEF rem, add
<1>. QED  BY <1>3, <1>4, <1>5

\* A removal of an output during the removal phase.
LEMMA ExecRemUIInv ==
    ASSUME IInv, open, NEW u \in UtxoIds, RemU(u) \in NextStmts,
           tx' = ExecStmt(tx, RemU(u)), todo' = todo \ {RemU(u)},
           UNCHANGED <<db, open, applying, sub, subCursor>>
    PROVE  IInv'
<1>1. Cur \in Change /\ applying \in 1..Len(Changes)
  BY CurChange
<1>2. RemU(u) \in todo
  BY NextStmtsOrder
<1>3. RemU(u) # SL(applying)
  BY DEF RemU, SL
<1>4. RemU(u) \in Removals(Cur) /\ u \in Cur.spent
  BY <1>1, <1>2, <1>3, StmtKinds DEF IInv, UpdateInv
<1>5. Additions(Cur) \subseteq todo
  BY <1>2, <1>4 DEF IInv, UpdateInv
<1>6. DoneAddU = {} /\ DoneAddT = {}
  <2>1. Cur.created \subseteq UtxoIds /\ Cur.applied \subseteq TxnIds
    BY <1>1 DEF Change
  <2>. QED  BY <1>1, <1>5, <2>1, StmtKinds DEF DoneAddU, DoneAddT
<1>7. Cur' = Cur
  BY DEF Cur
<1>8. DoneRemU' = DoneRemU \cup {u}
  BY <1>4, <1>7 DEF DoneRemU, RemU
<1>9. DoneRemT' = DoneRemT /\ DoneAddU' = DoneAddU /\ DoneAddT' = DoneAddT
  BY <1>7 DEF DoneRemT, DoneAddU, DoneAddT, RemU, RemT, AddU, AddT
<1>10. tx' = [utxos |-> tx.utxos \ {u}, txns |-> tx.txns, cursor |-> tx.cursor]
  BY ExecRemU DEF IInv, StoreTyped
<1>11. StoreTyped'
  BY <1>10 DEF IInv, StoreTyped, Tables
<1>12. tx'.utxos = (db'.utxos \ DoneRemU') \cup DoneAddU'
  BY <1>6, <1>8, <1>9, <1>10 DEF IInv, UpdateInv
<1>13. tx'.txns = (db'.txns \ DoneRemT') \cup DoneAddT'
  BY <1>9, <1>10 DEF IInv, UpdateInv
<1>14. tx'.cursor = IF SL(applying') \in todo' THEN db'.cursor ELSE applying'
  BY <1>3, <1>10 DEF IInv, UpdateInv
<1>15. todo' \cap Removals(Cur') # {} => Additions(Cur') \subseteq todo'
  BY <1>1, <1>5, <1>7, StmtKinds
<1>16. todo' \cap (Removals(Cur') \cup Additions(Cur')) # {} => SL(applying') \in todo'
  BY <1>3, <1>7 DEF IInv, UpdateInv
<1>17. todo' \subseteq Removals(Cur') \cup Additions(Cur') \cup {SL(applying')}
  BY <1>7 DEF IInv, UpdateInv
<1>. QED  BY <1>11, <1>12, <1>13, <1>14, <1>15, <1>16, <1>17 DEF IInv, UpdateInv

\* A removal of a transaction during the removal phase.
LEMMA ExecRemTIInv ==
    ASSUME IInv, open, NEW x \in TxnIds, RemT(x) \in NextStmts,
           tx' = ExecStmt(tx, RemT(x)), todo' = todo \ {RemT(x)},
           UNCHANGED <<db, open, applying, sub, subCursor>>
    PROVE  IInv'
<1>1. Cur \in Change /\ applying \in 1..Len(Changes)
  BY CurChange
<1>2. RemT(x) \in todo
  BY NextStmtsOrder
<1>3. RemT(x) # SL(applying)
  BY DEF RemT, SL
<1>4. RemT(x) \in Removals(Cur) /\ x \in Cur.reverted
  BY <1>1, <1>2, <1>3, StmtKinds DEF IInv, UpdateInv
<1>5. Additions(Cur) \subseteq todo
  BY <1>2, <1>4 DEF IInv, UpdateInv
<1>6. DoneAddU = {} /\ DoneAddT = {}
  <2>1. Cur.created \subseteq UtxoIds /\ Cur.applied \subseteq TxnIds
    BY <1>1 DEF Change
  <2>. QED  BY <1>1, <1>5, <2>1, StmtKinds DEF DoneAddU, DoneAddT
<1>7. Cur' = Cur
  BY DEF Cur
<1>8. DoneRemT' = DoneRemT \cup {x}
  BY <1>4, <1>7 DEF DoneRemT, RemT
<1>9. DoneRemU' = DoneRemU /\ DoneAddU' = DoneAddU /\ DoneAddT' = DoneAddT
  BY <1>7 DEF DoneRemU, DoneAddU, DoneAddT, RemU, RemT, AddU, AddT
<1>10. tx' = [utxos |-> tx.utxos, txns |-> tx.txns \ {x}, cursor |-> tx.cursor]
  BY ExecRemT DEF IInv, StoreTyped
<1>11. StoreTyped'
  BY <1>10 DEF IInv, StoreTyped, Tables
<1>12. tx'.utxos = (db'.utxos \ DoneRemU') \cup DoneAddU'
  BY <1>9, <1>10 DEF IInv, UpdateInv
<1>13. tx'.txns = (db'.txns \ DoneRemT') \cup DoneAddT'
  BY <1>6, <1>8, <1>9, <1>10 DEF IInv, UpdateInv
<1>14. tx'.cursor = IF SL(applying') \in todo' THEN db'.cursor ELSE applying'
  BY <1>3, <1>10 DEF IInv, UpdateInv
<1>15. todo' \cap Removals(Cur') # {} => Additions(Cur') \subseteq todo'
  BY <1>1, <1>5, <1>7, StmtKinds
<1>16. todo' \cap (Removals(Cur') \cup Additions(Cur')) # {} => SL(applying') \in todo'
  BY <1>3, <1>7 DEF IInv, UpdateInv
<1>17. todo' \subseteq Removals(Cur') \cup Additions(Cur') \cup {SL(applying')}
  BY <1>7 DEF IInv, UpdateInv
<1>. QED  BY <1>11, <1>12, <1>13, <1>14, <1>15, <1>16, <1>17 DEF IInv, UpdateInv
\* An addition of an output, once every removal is done.
LEMMA ExecAddUIInv ==
    ASSUME IInv, open, NEW u \in UtxoIds, AddU(u) \in NextStmts,
           tx' = ExecStmt(tx, AddU(u)), todo' = todo \ {AddU(u)},
           UNCHANGED <<db, open, applying, sub, subCursor>>
    PROVE  IInv'
<1>1. Cur \in Change /\ applying \in 1..Len(Changes)
  BY CurChange
<1>2. AddU(u) \in todo
  BY NextStmtsOrder
<1>3. AddU(u) # SL(applying)
  BY DEF AddU, SL
<1>4. AddU(u) \in Additions(Cur) /\ u \in Cur.created
  BY <1>1, <1>2, <1>3, StmtKinds DEF IInv, UpdateInv
<1>5. todo \cap Removals(Cur) = {}
  BY <1>4, NextStmtsOrder
<1>6. DoneRemU = Cur.spent /\ DoneRemT = Cur.reverted
  <2>1. Cur.spent \subseteq UtxoIds /\ Cur.reverted \subseteq TxnIds
    BY <1>1 DEF Change
  <2>. QED  BY <1>1, <1>5, <2>1, StmtKinds DEF DoneRemU, DoneRemT
<1>7. Cur' = Cur
  BY DEF Cur
<1>8. DoneAddU' = DoneAddU \cup {u}
  BY <1>4, <1>7 DEF DoneAddU, AddU
<1>9. DoneRemU' = DoneRemU /\ DoneRemT' = DoneRemT /\ DoneAddT' = DoneAddT
  BY <1>7 DEF DoneRemU, DoneRemT, DoneAddT, RemU, RemT, AddU, AddT
<1>10. tx' = [utxos |-> tx.utxos \cup {u}, txns |-> tx.txns, cursor |-> tx.cursor]
  BY ExecAddU DEF IInv, StoreTyped
<1>11. StoreTyped'
  BY <1>10 DEF IInv, StoreTyped, Tables
<1>12. tx'.utxos = (db'.utxos \ DoneRemU') \cup DoneAddU'
  BY <1>6, <1>8, <1>9, <1>10 DEF IInv, UpdateInv
<1>13. tx'.txns = (db'.txns \ DoneRemT') \cup DoneAddT'
  BY <1>9, <1>10 DEF IInv, UpdateInv
<1>14. tx'.cursor = IF SL(applying') \in todo' THEN db'.cursor ELSE applying'
  BY <1>3, <1>10 DEF IInv, UpdateInv
<1>15. todo' \cap Removals(Cur') # {} => Additions(Cur') \subseteq todo'
  BY <1>5, <1>7
<1>16. todo' \cap (Removals(Cur') \cup Additions(Cur')) # {} => SL(applying') \in todo'
  BY <1>3, <1>7 DEF IInv, UpdateInv
<1>17. todo' \subseteq Removals(Cur') \cup Additions(Cur') \cup {SL(applying')}
  BY <1>7 DEF IInv, UpdateInv
<1>. QED  BY <1>11, <1>12, <1>13, <1>14, <1>15, <1>16, <1>17 DEF IInv, UpdateInv

\* An addition of a transaction, once every removal is done.
LEMMA ExecAddTIInv ==
    ASSUME IInv, open, NEW x \in TxnIds, AddT(x) \in NextStmts,
           tx' = ExecStmt(tx, AddT(x)), todo' = todo \ {AddT(x)},
           UNCHANGED <<db, open, applying, sub, subCursor>>
    PROVE  IInv'
<1>1. Cur \in Change /\ applying \in 1..Len(Changes)
  BY CurChange
<1>2. AddT(x) \in todo
  BY NextStmtsOrder
<1>3. AddT(x) # SL(applying)
  BY DEF AddT, SL
<1>4. AddT(x) \in Additions(Cur) /\ x \in Cur.applied
  BY <1>1, <1>2, <1>3, StmtKinds DEF IInv, UpdateInv
<1>5. todo \cap Removals(Cur) = {}
  BY <1>4, NextStmtsOrder
<1>6. DoneRemU = Cur.spent /\ DoneRemT = Cur.reverted
  <2>1. Cur.spent \subseteq UtxoIds /\ Cur.reverted \subseteq TxnIds
    BY <1>1 DEF Change
  <2>. QED  BY <1>1, <1>5, <2>1, StmtKinds DEF DoneRemU, DoneRemT
<1>7. Cur' = Cur
  BY DEF Cur
<1>8. DoneAddT' = DoneAddT \cup {x}
  BY <1>4, <1>7 DEF DoneAddT, AddT
<1>9. DoneRemU' = DoneRemU /\ DoneRemT' = DoneRemT /\ DoneAddU' = DoneAddU
  BY <1>7 DEF DoneRemU, DoneRemT, DoneAddU, RemU, RemT, AddU, AddT
<1>10. tx' = [utxos |-> tx.utxos, txns |-> tx.txns \cup {x}, cursor |-> tx.cursor]
  BY ExecAddT DEF IInv, StoreTyped
<1>11. StoreTyped'
  BY <1>10 DEF IInv, StoreTyped, Tables
<1>12. tx'.utxos = (db'.utxos \ DoneRemU') \cup DoneAddU'
  BY <1>9, <1>10 DEF IInv, UpdateInv
<1>13. tx'.txns = (db'.txns \ DoneRemT') \cup DoneAddT'
  BY <1>6, <1>8, <1>9, <1>10 DEF IInv, UpdateInv
<1>14. tx'.cursor = IF SL(applying') \in todo' THEN db'.cursor ELSE applying'
  BY <1>3, <1>10 DEF IInv, UpdateInv
<1>15. todo' \cap Removals(Cur') # {} => Additions(Cur') \subseteq todo'
  BY <1>5, <1>7
<1>16. todo' \cap (Removals(Cur') \cup Additions(Cur')) # {} => SL(applying') \in todo'
  BY <1>3, <1>7 DEF IInv, UpdateInv
<1>17. todo' \subseteq Removals(Cur') \cup Additions(Cur') \cup {SL(applying')}
  BY <1>7 DEF IInv, UpdateInv
<1>. QED  BY <1>11, <1>12, <1>13, <1>14, <1>15, <1>16, <1>17 DEF IInv, UpdateInv

\* SetLastChange, the last call of an update.
LEMMA ExecSLIInv ==
    ASSUME IInv, open, NEW i \in 1..Len(Changes), SL(i) \in NextStmts,
           tx' = ExecStmt(tx, SL(i)), todo' = todo \ {SL(i)},
           UNCHANGED <<db, open, applying, sub, subCursor>>
    PROVE  IInv'
<1>1. Cur \in Change /\ applying \in 1..Len(Changes)
  BY CurChange
<1>2. SL(i) \in todo /\ SL(i) \notin Removals(Cur) \cup Additions(Cur)
  BY <1>1, NextStmtsOrder, StmtKinds
<1>3. i = applying
  BY <1>2 DEF IInv, UpdateInv, SL
<1>4. todo \cap (Removals(Cur) \cup Additions(Cur)) = {}
  BY <1>2, NextStmtsOrder
<1>5. todo' = {}
  BY <1>3, <1>4 DEF IInv, UpdateInv
<1>6. Cur' = Cur
  BY DEF Cur
<1>7. /\ DoneRemU' = DoneRemU /\ DoneRemT' = DoneRemT
      /\ DoneAddU' = DoneAddU /\ DoneAddT' = DoneAddT
  BY <1>6 DEF DoneRemU, DoneRemT, DoneAddU, DoneAddT, RemU, RemT, AddU, AddT, SL
<1>8. tx' = [utxos |-> tx.utxos, txns |-> tx.txns, cursor |-> i]
  BY ExecSL DEF IInv, StoreTyped
<1>9. StoreTyped'
  BY <1>8 DEF IInv, StoreTyped, Tables
<1>10. tx'.utxos = (db'.utxos \ DoneRemU') \cup DoneAddU'
       /\ tx'.txns = (db'.txns \ DoneRemT') \cup DoneAddT'
  BY <1>7, <1>8 DEF IInv, UpdateInv
<1>11. tx'.cursor = IF SL(applying') \in todo' THEN db'.cursor ELSE applying'
  BY <1>3, <1>5, <1>8
<1>. QED  BY <1>5, <1>9, <1>10, <1>11 DEF IInv, UpdateInv


\* An abandoned or lost update leaves the committed tables alone.
LEMMA StopIInv ==
    ASSUME IInv, open' = FALSE, sub' = "stopped",
           UNCHANGED <<db, tx, subCursor>>
    PROVE  IInv'
  BY DEF IInv, StoreTyped, UpdateInv

\* One updateWalletTxn call inside the open transaction.
LEMMA ExecIInv ==
    ASSUME IInv, NEW s \in Stmt, Exec(s)
    PROVE  IInv'
<1>1. CASE StmtFails(tx, s)
  BY <1>1, StopIInv DEF Exec, RollBack
<1>2. CASE ~StmtFails(tx, s)
  <2>1. /\ open /\ s \in NextStmts
        /\ tx' = ExecStmt(tx, s) /\ todo' = todo \ {s}
        /\ UNCHANGED <<db, open, applying, sub, subCursor>>
    BY <1>2 DEF Exec
  <2>2. CASE \E u \in UtxoIds : s = RemU(u) \/ s = AddU(u)
    BY <2>1, <2>2, ExecRemUIInv, ExecAddUIInv
  <2>3. CASE \E x \in TxnIds : s = RemT(x) \/ s = AddT(x)
    BY <2>1, <2>3, ExecRemTIInv, ExecAddTIInv
  <2>4. CASE \E i \in 1..Len(Changes) : s = SL(i)
    BY <2>1, <2>4, ExecSLIInv
  <2>. QED  BY <2>2, <2>3, <2>4, StmtForms
<1>. QED  BY <1>1, <1>2

LEMMA SubscribeIInv ==
    ASSUME IInv, Subscribe
    PROVE  IInv'
  BY DEF Subscribe, LastWalletChange, IInv, StoreTyped, UpdateInv, Tables

LEMMA BeginUpdateIInv ==
    ASSUME IInv, BeginUpdate
    PROVE  IInv'
<1>1. applying' = db.cursor + 1 /\ applying' \in 1..Len(Changes)
  BY DEF BeginUpdate, IInv, StoreTyped, Tables
<1>2. Cur' \in Change
  BY <1>1, WalletStoreAssumption DEF Cur
<1>3. todo' = Removals(Cur') \cup Additions(Cur') \cup {SL(applying')}
  BY DEF BeginUpdate, Cur, SL
<1>4. /\ Cur'.spent \subseteq UtxoIds /\ Cur'.created \subseteq UtxoIds
      /\ Cur'.reverted \subseteq TxnIds /\ Cur'.applied \subseteq TxnIds
  BY <1>2 DEF Change
<1>5. /\ DoneRemU' = {} /\ DoneAddU' = {}
      /\ DoneRemT' = {} /\ DoneAddT' = {}
  BY <1>2, <1>3, <1>4, StmtKinds DEF DoneRemU, DoneAddU, DoneRemT, DoneAddT
<1>6. tx' = db /\ open' /\ UNCHANGED <<db, sub, subCursor>> /\ sub = "running"
  BY DEF BeginUpdate
<1>. QED  BY <1>1, <1>3, <1>5, <1>6 DEF IInv, StoreTyped, UpdateInv

\* When every call is made, the open transaction holds the next change.
LEMMA UpdateComplete ==
    ASSUME IInv, open, todo = {}
    PROVE  /\ db.cursor < Len(Changes)
           /\ tx.utxos = (db.utxos \ Changes[db.cursor + 1].spent)
                         \cup Changes[db.cursor + 1].created
           /\ tx.txns = (db.txns \ Changes[db.cursor + 1].reverted)
                        \cup Changes[db.cursor + 1].applied
           /\ tx.cursor = db.cursor + 1
<1>1. Cur \in Change /\ applying \in 1..Len(Changes)
  BY CurChange
<1>2. /\ DoneRemU = Cur.spent /\ DoneAddU = Cur.created
      /\ DoneRemT = Cur.reverted /\ DoneAddT = Cur.applied
  BY DEF DoneRemU, DoneAddU, DoneRemT, DoneAddT
<1>3. db.cursor \in Nat
  BY DEF IInv, StoreTyped, Tables
<1>. QED  BY <1>1, <1>2, <1>3 DEF IInv, UpdateInv, Cur

LEMMA CommitIInv ==
    ASSUME IInv, Commit
    PROVE  IInv'
<1>1. tx.cursor = applying
  BY UpdateComplete DEF Commit, IInv, UpdateInv
<1>. QED  BY <1>1 DEF Commit, IInv, StoreTyped, UpdateInv

LEMMA InitIInv == Init => IInv
  BY DEF Init, IInv, StoreTyped, UpdateInv, Tables

LEMMA NextIInv == IInv /\ [Next]_vars => IInv'
<1>. SUFFICES ASSUME IInv, [Next]_vars PROVE IInv'
  OBVIOUS
<1>1. CASE Subscribe
  BY <1>1, SubscribeIInv
<1>2. CASE BeginUpdate
  BY <1>2, BeginUpdateIInv
<1>3. CASE \E s \in Stmt : Exec(s)
  BY <1>3, ExecIInv
<1>4. CASE Commit
  BY <1>4, CommitIInv
<1>5. CASE Fail
  BY <1>5, StopIInv DEF Fail, RollBack
<1>6. CASE Crash
  BY <1>6, StopIInv DEF Crash
<1>7. CASE UNCHANGED vars
  BY <1>7 DEF vars, IInv, StoreTyped, UpdateInv, DoneRemU, DoneAddU, DoneRemT, DoneAddT, Cur
<1>. QED  BY <1>1, <1>2, <1>3, <1>4, <1>5, <1>6, <1>7 DEF Next


\* Only Commit changes the committed tables.
LEMMA OnlyCommitWrites ==
    ASSUME [Next]_vars, ~Commit
    PROVE  db' = db
  BY DEF Next, vars, Subscribe, BeginUpdate, Exec, RollBack, Fail, Crash

\* A commit is one whole consensus change of the abstract wallet.
LEMMA CommitAdvances ==
    ASSUME IInv, Commit
    PROVE  Sync!Advance
<1>1. db' = tx /\ open /\ todo = {}
  BY DEF Commit
<1>. QED  BY <1>1, UpdateComplete
          DEF Sync!Advance, UnspentSiacoinElements, Transactions, LastWalletChange

\* The wallet store implements WalletSync: a reader of the committed
\* tables (UnspentSiacoinElements, Transactions, LastWalletChange) only
\* ever sees the wallet after whole consensus changes, taken in chain
\* order, whatever statement errors, constraint errors and crashes happen
\* during UpdateWallet, for every chain and every bound on faults.
THEOREM StoreImplementsSync == Spec => WalletRefinesSync
<1>1. Init => Sync!Init
  BY DEF Init, Sync!Init, UnspentSiacoinElements, Transactions, LastWalletChange
<1>2. IInv /\ [Next]_vars => [Sync!Advance]_Sync!vars
  <2>. SUFFICES ASSUME IInv, [Next]_vars PROVE [Sync!Advance]_Sync!vars
    OBVIOUS
  <2>1. CASE Commit
    BY <2>1, CommitAdvances
  <2>2. CASE ~Commit
    BY <2>2, OnlyCommitWrites
       DEF Sync!vars, UnspentSiacoinElements, Transactions, LastWalletChange
  <2>. QED  BY <2>1, <2>2
<1>. QED  BY <1>1, <1>2, InitIInv, NextIInv, PTL DEF Spec, WalletRefinesSync, Sync!Spec

=============================================================================
