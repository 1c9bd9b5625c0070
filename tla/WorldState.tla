----------------------------- MODULE WorldState -----------------------------
(***************************************************************************)
(* The tables of state.VersionedDB and what its SQL statements compute.    *)
(* A row stands for one row of worldstate: a key (namespace and key), the  *)
(* block and transaction that wrote it, its version, and its content (the  *)
(* columns value, is_delete and tx_id, compared only as a whole).          *)
(* A write is one KVWrite of a block with its transaction's number and     *)
(* whether that transaction is valid.                                      *)
(***************************************************************************)
EXTENDS Ordering, FiniteSetsExt

CONSTANTS Keys, Contents, NoRecord

Rows == [key : Keys, block : Nat, tx : Nat, version : Nat, content : Contents]
ASSUME NoRecordAssumption == NoRecord \notin Rows

Writes == [tx : Nat, key : Keys, content : Contents, valid : BOOLEAN]

\* SELECT ... WHERE key = k.
RowsOf(rows, k) == {r \in rows : r.key = k}

NextVersion_NoIncrement(rows, k) ==
  IF RowsOf(rows, k) = {} THEN 0 ELSE Max({r.version : r \in RowsOf(rows, k)})

\* COALESCE((SELECT MAX(version) + 1 ...), 0).
NextVersion(rows, k) ==
  IF RowsOf(rows, k) = {} THEN 0
  ELSE Max({r.version : r \in RowsOf(rows, k)}) + 1

\* The rows in conflict with write w of block b on the primary key.
SameRow(rows, b, w) ==
  {r \in RowsOf(rows, w.key) : r.block = b /\ r.tx = w.tx}

\* The row that write w of block b becomes.
NewRow(rows, b, w) ==
  [key |-> w.key, block |-> b, tx |-> w.tx,
   version |-> NextVersion(rows, w.key), content |-> w.content]

\* INSERT ... ON CONFLICT DO NOTHING.
Inserted(rows, b, w) ==
  IF SameRow(rows, b, w) # {} THEN rows ELSE rows \cup {NewRow(rows, b, w)}

\* The INSERTs of one transaction: a write per key, so that their order does not
\* matter.
WithTx(rows, b, ws) ==
  rows \cup {NewRow(rows, b, w) : w \in {x \in ws : x.valid /\ SameRow(rows, b, x) = {}}}

\* The transactions of a block, in order: what UpdateWorldState leaves behind.
WithBlock(rows, b, txs) ==
  LET after[i \in 0..Len(txs)] ==
        IF i = 0 THEN rows ELSE WithTx(after[i - 1], b, txs[i])
  IN after[Len(txs)]

\* The check after a conflict: the row that is there is the row replayed.
Agrees(rows, b, w) == \A r \in SameRow(rows, b, w) : r.content = w.content

\* SELECT ... ORDER BY version DESC LIMIT 1.
HighestVersion(rows) ==
  IF rows = {} THEN NoRecord
  ELSE CHOOSE r \in rows : \A q \in rows : q.version <= r.version

GetAt(rows, k, n) == HighestVersion({r \in RowsOf(rows, k) : r.block <= n})

Get(rows, k) == HighestVersion(RowsOf(rows, k))

GetHistory_TxFirst(rows, k) ==
  OrderBy(RowsOf(rows, k),
          {p \in rows \X rows :
             p[1].tx < p[2].tx \/ (p[1].tx = p[2].tx /\ p[1].block < p[2].block)})

\* Ledger order.
Earlier(r, q) == r.block < q.block \/ (r.block = q.block /\ r.tx < q.tx)

\* ORDER BY version_block, version_tx.
GetHistory(rows, k) ==
  OrderBy(RowsOf(rows, k), {p \in rows \X rows : Earlier(p[1], p[2])})
=============================================================================
