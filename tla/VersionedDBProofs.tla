------------------------- MODULE VersionedDBProofs --------------------------
(***************************************************************************)
(* Proofs about VersionedDB: for any keys, contents and blocks, and a      *)
(* chain of any length, the tables implement AtomicStore.                  *)
(***************************************************************************)
EXTENDS VersionedDB, WorldStateProofs

\* What BlocksAssumption says of a block.
Ordered(ws) ==
  /\ ws \in Seq(Writes)
  /\ \A i, j \in 1..Len(ws) :
       i < j => /\ ws[i].tx <= ws[j].tx
                /\ ws[i].key = ws[j].key => ws[i].tx # ws[j].tx

\* The chain starts with an empty block and the store is not ahead of it.
ChainInv ==
  /\ last \in Nat \cup {-1}
  /\ chain \in Seq(Seq(Writes)) /\ last < Len(chain) /\ Len(chain) >= 1
  /\ chain[1] = <<>>
  /\ \A i \in 1..Len(chain) : Ordered(chain[i])

\* The committed rows are those of the stored blocks.
RowsInv ==
  /\ Table(rows)
  /\ \A r \in rows : r.block <= last
  /\ \A b \in 0..last : \A i \in 1..Len(chain[b + 1]) :
       chain[b + 1][i].valid => \E r \in rows : Is(r, b, chain[b + 1][i])

\* While a stored block is replayed the transaction changes nothing.
ReplayInv ==
  (phase = "batch" /\ cur <= last) =>
    /\ work = rows
    /\ Len(batch) = Len(chain[cur + 1])
    /\ \A i \in 1..Len(batch) :
         /\ batch[i].key = chain[cur + 1][i].key /\ batch[i].tx = chain[cur + 1][i].tx
         /\ batch[i].valid = chain[cur + 1][i].valid

\* While a new block is stored the transaction has added its first writes.
BatchInv ==
  (phase = "batch" /\ cur > last) =>
    /\ cur = last + 1 /\ batch = chain[cur + 1]
    /\ Table(work) /\ rows \subseteq work
    /\ \A r \in work : r \in rows \/
         (\E i \in 1..(pos - 1) : batch[i].valid /\ Is(r, cur, batch[i])
                                  /\ r.content = batch[i].content)
    /\ \A i \in 1..(pos - 1) : batch[i].valid =>
         \E r \in work : Is(r, cur, batch[i]) /\ r.content = batch[i].content

TxnInv ==
  /\ phase \in {"idle", "batch"}
  /\ phase = "batch" =>
       /\ cur \in Nat /\ cur < Len(chain)
       /\ batch \in Seq(Writes) /\ pos \in 1..(Len(batch) + 1)

\* A view is pinned at a height the store has, or at 0 before it has one.
SnapInv ==
  /\ snap.block \in Nat \cup {-1} /\ snap.block <= BlockNumber
  /\ SnapshotStable

Inv == ChainInv /\ RowsInv /\ TxnInv /\ ReplayInv /\ BatchInv /\ SnapInv

-----------------------------------------------------------------------------
\* An empty database satisfies the invariant.
LEMMA InitInv == Init => Inv
<1> SUFFICES ASSUME Init PROVE Inv
  OBVIOUS
<1>1. <<>> \in Seq(Writes) /\ Len(<< >>) = 0
  OBVIOUS
<1>2. ChainInv
  <2>1. chain = << <<>> >> /\ chain \in Seq(Seq(Writes)) /\ Len(chain) = 1 /\ chain[1] = <<>>
    BY <1>1 DEF Init
  <2>2. Ordered(<<>>)
    BY <1>1 DEF Ordered
  <2> QED
    BY <2>1, <2>2 DEF ChainInv, Init
<1>3. RowsInv
  BY EmptyTable DEF RowsInv, Init
<1>4. TxnInv /\ ReplayInv /\ BatchInv
  BY DEF TxnInv, ReplayInv, BatchInv, Init
<1>5. SnapInv
  BY DEF SnapInv, SnapshotStable, Init, NoSnapshot, BlockNumber
<1> QED
  BY <1>2, <1>3, <1>4, <1>5 DEF Inv

\* A longer chain keeps what was said of its blocks.
LEMMA OrderBlockInv == Inv /\ OrderBlock => Inv'
<1> SUFFICES ASSUME Inv, OrderBlock PROVE Inv'
  OBVIOUS
<1> USE DEF Inv
<1>1. PICK ws \in Blocks : chain' = Append(chain, ws)
  BY DEF OrderBlock
<1>2. ws \in Seq(Writes) /\ Ordered(ws)
  BY BlocksAssumption DEF BlocksAssumption, Ordered
<1>3. /\ chain' \in Seq(Seq(Writes)) /\ Len(chain') = Len(chain) + 1 /\ Len(chain) \in Nat
      /\ \A i \in 1..Len(chain) : chain'[i] = chain[i]
      /\ chain'[Len(chain) + 1] = ws
  BY <1>1, <1>2 DEF ChainInv
<1>4. /\ rows' = rows /\ last' = last /\ phase' = phase /\ cur' = cur /\ batch' = batch
      /\ pos' = pos /\ work' = work /\ snap' = snap
  BY DEF OrderBlock, txnVars
<1>5. Len(chain) \in Nat /\ Len(chain) >= 1 /\ last \in Int /\ last < Len(chain)
  BY DEF ChainInv
<1>6. ASSUME NEW b \in Nat, b < Len(chain) PROVE chain'[b + 1] = chain[b + 1]
  <2>1. b + 1 \in 1..Len(chain)
    BY <1>5, <1>6
  <2> QED
    BY <1>3, <2>1
<1>7. ChainInv'
  <2>1. ASSUME NEW i \in 1..Len(chain') PROVE Ordered(chain'[i])
    <3>1. i \in 1..Len(chain) \/ i = Len(chain) + 1
      BY <1>3, <1>5
    <3>2. \A j \in 1..Len(chain) : Ordered(chain[j]) /\ chain'[j] = chain[j]
      BY <1>3 DEF ChainInv
    <3> QED
      BY <1>2, <1>3, <3>1, <3>2
  <2>2. chain'[1] = <<>>
    <3>1. chain'[0 + 1] = chain[0 + 1]
      BY <1>5, <1>6
    <3> QED
      BY <3>1 DEF ChainInv
  <2>3. Len(chain') >= 1 /\ last' < Len(chain') /\ last' \in Nat \cup {-1}
    BY <1>3, <1>4, <1>5 DEF ChainInv
  <2> QED
    BY <1>3, <2>1, <2>2, <2>3 DEF ChainInv
<1>8. RowsInv'
  <2>1. ASSUME NEW b \in 0..last PROVE chain'[b + 1] = chain[b + 1]
    <3>1. b \in Nat /\ b < Len(chain)
      BY <1>5
    <3> QED
      BY <1>6, <3>1
  <2>2. Table(rows') /\ \A r \in rows' : r.block <= last'
    BY <1>4 DEF RowsInv
  <2>3. ASSUME NEW b \in 0..last', NEW i \in 1..Len(chain'[b + 1]), chain'[b + 1][i].valid
        PROVE  \E r \in rows' : Is(r, b, chain'[b + 1][i])
    <3>1. b \in 0..last /\ chain'[b + 1] = chain[b + 1]
      BY <1>4, <2>1
    <3>2. i \in 1..Len(chain[b + 1]) /\ chain[b + 1][i].valid
      BY <3>1, <2>3
    <3>3. \E r \in rows : Is(r, b, chain[b + 1][i])
      BY <3>1, <3>2 DEF RowsInv
    <3> QED
      BY <1>4, <3>1, <3>3
  <2> QED
    BY <2>2, <2>3 DEF RowsInv
<1>9. TxnInv' /\ (phase = "batch" => chain'[cur + 1] = chain[cur + 1])
  <2>1. TxnInv'
    BY <1>3, <1>4, <1>5 DEF TxnInv
  <2>2. phase = "batch" => cur \in Nat /\ cur < Len(chain)
    BY DEF TxnInv
  <2> QED
    BY <1>6, <2>1, <2>2
<1>10. ReplayInv'
  BY <1>4, <1>9 DEF ReplayInv
<1>11. BatchInv'
  BY <1>4, <1>9 DEF BatchInv
<1>12. SnapInv'
  BY <1>4 DEF SnapInv, SnapshotStable, BlockNumber
<1> QED
  BY <1>7, <1>8, <1>9, <1>10, <1>11, <1>12

\* A block is handed over, whole, changed or again.
LEMMA BeginTxInv == ASSUME NEW b \in 0..(Len(chain) - 1), Inv, BeginTx(b) PROVE Inv'
<1> USE DEF Inv
<1>1. /\ rows' = rows /\ last' = last /\ chain' = chain /\ snap' = snap
      /\ phase' = "batch" /\ cur' = b /\ pos' = 1 /\ work' = rows
      /\ b <= last + 1 /\ batch' \in Handed(b)
  BY DEF BeginTx
<1>2. b \in Nat /\ b < Len(chain) /\ chain[b + 1] \in Seq(Writes) /\ last \in Int
  BY DEF ChainInv
<1>3. ASSUME NEW i \in DOMAIN chain[b + 1], NEW c \in Contents,
             batch' = [chain[b + 1] EXCEPT ![i].content = c]
      PROVE  /\ batch' \in Seq(Writes) /\ Len(batch') = Len(chain[b + 1])
             /\ \A j \in 1..Len(batch') :
                  /\ batch'[j].key = chain[b + 1][j].key /\ batch'[j].tx = chain[b + 1][j].tx
                  /\ batch'[j].valid = chain[b + 1][j].valid
  <2> DEFINE ws == chain[b + 1]
  <2>1. ws \in [1..Len(ws) -> Writes] /\ Len(ws) \in Nat
    BY <1>2
  <2>2. [ws[i] EXCEPT !.content = c] \in Writes
    BY <2>1 DEF Writes
  <2>3. batch' = [ws EXCEPT ![i] = [ws[i] EXCEPT !.content = c]]
    BY <1>3
  <2> HIDE DEF ws
  <2>4. batch' \in [1..Len(ws) -> Writes]
    BY <2>1, <2>2, <2>3, Zenon
  <2>5. batch' \in Seq(Writes) /\ Len(batch') = Len(ws)
    BY <2>1, <2>4
  <2>6. \A j \in 1..Len(ws) : batch'[j] = ws[j] \/ batch'[j] = [ws[j] EXCEPT !.content = c]
    BY <2>1, <2>3
  <2>7. \A j \in 1..Len(ws) :
          batch'[j].key = ws[j].key /\ batch'[j].tx = ws[j].tx /\ batch'[j].valid = ws[j].valid
    <3> SUFFICES ASSUME NEW j \in 1..Len(ws)
                 PROVE  batch'[j].key = ws[j].key /\ batch'[j].tx = ws[j].tx
                        /\ batch'[j].valid = ws[j].valid
      OBVIOUS
    <3>1. ws[j] \in Writes
      BY <2>1
    <3>2. batch'[j] = ws[j] \/ batch'[j] = [ws[j] EXCEPT !.content = c]
      BY <2>6, Zenon
    <3> QED
      BY <3>1, <3>2, SMT DEF Writes
  <2> QED
    BY <2>5, <2>7 DEF ws
<1>4. /\ batch' \in Seq(Writes) /\ Len(batch') = Len(chain[b + 1])
      /\ \A j \in 1..Len(batch') :
           /\ batch'[j].key = chain[b + 1][j].key /\ batch'[j].tx = chain[b + 1][j].tx
           /\ batch'[j].valid = chain[b + 1][j].valid
      /\ b > last => batch' = chain[b + 1]
  <2>1. CASE batch' = chain[b + 1]
    BY <1>2, <2>1
  <2>2. CASE batch' # chain[b + 1]
    <3>1. b <= last /\ \E i \in DOMAIN chain[b + 1], c \in Contents :
            batch' = [chain[b + 1] EXCEPT ![i].content = c]
      BY <1>1, <1>2, <2>2 DEF Handed
    <3>2. PICK i \in DOMAIN chain[b + 1], c \in Contents :
            batch' = [chain[b + 1] EXCEPT ![i].content = c]
      BY <3>1
    <3>3. ~(b > last)
      BY <1>2, <3>1
    <3> QED
      BY <1>3, <3>2, <3>3, Zenon
  <2> QED
    BY <2>1, <2>2
<1>5. ChainInv' /\ RowsInv' /\ SnapInv'
  BY <1>1 DEF ChainInv, RowsInv, SnapInv, SnapshotStable, BlockNumber
<1>6. TxnInv'
  <2>1. Len(batch') \in Nat
    BY <1>4
  <2> QED
    BY <1>1, <1>2, <1>4, <2>1 DEF TxnInv
<1>7. ReplayInv'
  BY <1>1, <1>4 DEF ReplayInv
<1>8. BatchInv'
  <2> SUFFICES ASSUME b > last PROVE BatchInv'
    BY <1>1 DEF BatchInv
  <2>1. b = last + 1 /\ batch' = chain'[b + 1]
    BY <1>1, <1>2, <1>4
  <2>2. 1..(pos' - 1) = {}
    BY <1>1
  <2>3. Table(work')
    BY <1>1 DEF RowsInv
  <2> QED
    BY <1>1, <2>1, <2>2, <2>3 DEF BatchInv
<1> QED
  BY <1>5, <1>6, <1>7, <1>8

\* One write more of the block.
LEMMA InsertWriteInv == Inv /\ InsertWrite => Inv'
<1> SUFFICES ASSUME Inv, InsertWrite PROVE Inv'
  OBVIOUS
<1> USE DEF Inv
<1> DEFINE w == batch[pos]
<1>1. /\ rows' = rows /\ last' = last /\ chain' = chain /\ snap' = snap
      /\ phase = "batch" /\ phase' = "batch" /\ cur' = cur /\ batch' = batch /\ pos' = pos + 1
      /\ pos <= Len(batch) /\ w.valid /\ Agrees(work, cur, w) /\ work' = Inserted(work, cur, w)
  BY DEF InsertWrite
<1>2. /\ cur \in Nat /\ cur < Len(chain) /\ batch \in Seq(Writes) /\ pos \in Nat /\ pos >= 1
      /\ Len(batch) \in Nat /\ pos \in 1..Len(batch) /\ w \in Writes /\ last \in Int
      /\ pos \in 1..(Len(batch) + 1)
  BY <1>1 DEF TxnInv, ChainInv
<1>3. ChainInv' /\ RowsInv' /\ SnapInv'
  BY <1>1 DEF ChainInv, RowsInv, SnapInv, SnapshotStable, BlockNumber
<1>4. TxnInv'
  BY <1>1, <1>2 DEF TxnInv
<1>5. ReplayInv'
  <2> SUFFICES ASSUME cur <= last PROVE ReplayInv'
    BY <1>1 DEF ReplayInv
  <2>1. /\ work = rows /\ Len(batch) = Len(chain[cur + 1])
        /\ w.key = chain[cur + 1][pos].key /\ w.tx = chain[cur + 1][pos].tx
        /\ w.valid = chain[cur + 1][pos].valid
    BY <1>1, <1>2, Zenon DEF ReplayInv
  <2>2. \E r \in rows : Is(r, cur, chain[cur + 1][pos])
    BY <1>1, <1>2, <2>1 DEF RowsInv
  <2>3. \E r \in work : Is(r, cur, w)
    BY <2>1, <2>2 DEF Is
  <2>4. work' = work
    BY <1>1, <2>3, InsertAgain
  <2> QED
    BY <1>1, <2>1, <2>4 DEF ReplayInv
<1>6. BatchInv'
  <2> SUFFICES ASSUME cur > last PROVE BatchInv'
    BY <1>1, <1>2 DEF BatchInv
  <2> HIDE DEF w
  <2>1. /\ cur = last + 1 /\ batch = chain[cur + 1] /\ Table(work) /\ rows \subseteq work
        /\ \A r \in work : r \in rows \/
             (\E i \in 1..(pos - 1) : batch[i].valid /\ Is(r, cur, batch[i])
                                      /\ r.content = batch[i].content)
        /\ \A i \in 1..(pos - 1) : batch[i].valid =>
             \E r \in work : Is(r, cur, batch[i]) /\ r.content = batch[i].content
    BY <1>1 DEF BatchInv
  <2>2. Ordered(batch)
    BY <1>2, <2>1 DEF ChainInv
  <2>3. \A i \in 1..(pos - 1) : /\ i \in 1..Len(batch) /\ batch[i] \in Writes
                                /\ batch[i].tx <= w.tx
                                /\ batch[i].key = w.key => batch[i].tx # w.tx
    BY <1>2, <2>2 DEF Ordered, w
  <2>4. \A r \in RowsOf(work, w.key) : r.block < cur \/ (r.block = cur /\ r.tx < w.tx)
    <3> SUFFICES ASSUME NEW r \in work, r.key = w.key
                 PROVE  r.block < cur \/ (r.block = cur /\ r.tx < w.tx)
      BY DEF RowsOf
    <3>1. CASE r \in rows
      <4>1. r.block <= last /\ r.block \in Nat
        BY <3>1 DEF RowsInv, Table, Rows
      <4> QED
        BY <1>2, <2>1, <4>1
    <3>2. CASE r \notin rows
      <4>1. PICK i \in 1..(pos - 1) : Is(r, cur, batch[i])
        BY <2>1, <3>2
      <4>2. r.block = cur /\ r.tx = batch[i].tx /\ r.key = batch[i].key
        BY <4>1 DEF Is
      <4>3. batch[i].tx <= w.tx /\ batch[i].tx # w.tx /\ batch[i].tx \in Nat /\ w.tx \in Nat
        BY <1>2, <2>3, <4>2 DEF Writes
      <4> QED
        BY <4>2, <4>3
    <3> QED
      BY <3>1, <3>2
  <2>5. PICK x \in Rows : /\ Is(x, cur, w) /\ x.content = w.content
                          /\ work' = work \cup {x} /\ Table(work \cup {x})
    BY <1>1, <1>2, <2>1, <2>4, InsertKeepsTable, Zenon
  <2>6. pos \in 1..(pos' - 1) /\ \A i \in 1..(pos' - 1) : i \in 1..(pos - 1) \/ i = pos
    BY <1>1, <1>2
  <2>7. \A i \in 1..(pos - 1) : i \in 1..(pos' - 1)
    BY <1>1, <1>2
  <2>8. \A r \in work' : r \in rows \/
             (\E i \in 1..(pos' - 1) : batch[i].valid /\ Is(r, cur, batch[i])
                                       /\ r.content = batch[i].content)
    <3> SUFFICES ASSUME NEW r \in work', r \notin rows
                 PROVE  \E i \in 1..(pos' - 1) : batch[i].valid /\ Is(r, cur, batch[i])
                                                 /\ r.content = batch[i].content
      OBVIOUS
    <3>1. CASE r \in work
      BY <2>1, <2>7, <3>1
    <3>2. CASE r = x
      BY <1>1, <2>5, <2>6, <3>2, Zenon DEF w
    <3> QED
      BY <2>5, <3>1, <3>2
  <2>9. \A i \in 1..(pos' - 1) : batch[i].valid =>
             \E r \in work' : Is(r, cur, batch[i]) /\ r.content = batch[i].content
    BY <2>1, <2>5, <2>6 DEF w
  <2>10. Table(work') /\ rows \subseteq work'
    BY <2>1, <2>5
  <2> QED
    BY <1>1, <2>1, <2>8, <2>9, <2>10 DEF BatchInv
<1> QED
  BY <1>3, <1>4, <1>5, <1>6

\* A write of an invalid transaction is passed over.
LEMMA SkipInvalidInv == Inv /\ SkipInvalid => Inv'
<1> SUFFICES ASSUME Inv, SkipInvalid PROVE Inv'
  OBVIOUS
<1> USE DEF Inv
<1>1. /\ rows' = rows /\ last' = last /\ chain' = chain /\ snap' = snap
      /\ phase = "batch" /\ phase' = "batch" /\ cur' = cur /\ batch' = batch /\ pos' = pos + 1
      /\ pos <= Len(batch) /\ ~batch[pos].valid /\ work' = work
  BY DEF SkipInvalid
<1>2. pos \in Nat /\ pos >= 1 /\ Len(batch) \in Nat /\ pos \in 1..(Len(batch) + 1)
  BY <1>1 DEF TxnInv
<1>3. ChainInv' /\ RowsInv' /\ SnapInv'
  BY <1>1 DEF ChainInv, RowsInv, SnapInv, SnapshotStable, BlockNumber
<1>4. TxnInv'
  BY <1>1, <1>2 DEF TxnInv
<1>5. ReplayInv'
  BY <1>1 DEF ReplayInv
<1>6. BatchInv'
  <2>1. \A i \in 1..(pos - 1) : i \in 1..(pos' - 1)
    BY <1>1, <1>2
  <2>2. \A i \in 1..(pos' - 1) : i \in 1..(pos - 1) \/ i = pos
    BY <1>1, <1>2
  <2> QED
    BY <1>1, <2>1, <2>2, Zenon DEF BatchInv
<1> QED
  BY <1>3, <1>4, <1>5, <1>6

\* Rolling back leaves the committed tables.
LEMMA RollbackInv == Inv /\ Rollback => Inv'
BY DEF Inv, Rollback, ChainInv, RowsInv, TxnInv, ReplayInv, BatchInv, SnapInv, SnapshotStable,
       BlockNumber

\* What Commit makes visible: nothing for a replay, else exactly one block.
LEMMA CommitEffect ==
  ASSUME Inv, Commit
  PROVE  \/ rows' = rows /\ last' = last /\ cur <= last
         \/ /\ last' = last + 1 /\ cur = last + 1 /\ batch = chain[last + 2]
            /\ Table(rows') /\ rows \subseteq rows'
            /\ \A r \in rows' : r \in rows \/
                 (\E i \in 1..Len(batch) : batch[i].valid /\ Is(r, cur, batch[i])
                                           /\ r.content = batch[i].content)
            /\ \A i \in 1..Len(batch) : batch[i].valid =>
                 \E r \in rows' : Is(r, cur, batch[i]) /\ r.content = batch[i].content
<1> USE DEF Inv
<1>1. /\ phase = "batch" /\ pos = Len(batch) + 1 /\ rows' = work /\ last' = Progress(cur)
  BY DEF Commit
<1>2. cur \in Nat /\ last \in Int /\ Len(batch) \in Nat /\ pos - 1 = Len(batch)
  BY <1>1 DEF TxnInv, ChainInv
<1>3. CASE cur <= last
  BY <1>1, <1>2, <1>3 DEF ReplayInv, Progress
<1>4. CASE cur > last
  <2>1. /\ cur = last + 1 /\ batch = chain[cur + 1] /\ Table(work) /\ rows \subseteq work
        /\ \A r \in work : r \in rows \/
             (\E i \in 1..(pos - 1) : batch[i].valid /\ Is(r, cur, batch[i])
                                      /\ r.content = batch[i].content)
        /\ \A i \in 1..(pos - 1) : batch[i].valid =>
             \E r \in work : Is(r, cur, batch[i]) /\ r.content = batch[i].content
    BY <1>1, <1>4 DEF BatchInv
  <2>2. last' = last + 1 /\ cur + 1 = last + 2
    BY <1>1, <1>2, <1>4, <2>1 DEF Progress
  <2> QED
    BY <1>1, <1>2, <2>1, <2>2
<1> QED
  BY <1>2, <1>3, <1>4

\* Rows of a later block do not show in a view: it stays as it was.
LEMMA ViewsStay ==
  ASSUME Inv, Commit, NEW k \in Keys
  PROVE  snap.block # -1 => GetAt(rows', k, snap.block) = GetAt(rows, k, snap.block)
<1> SUFFICES ASSUME snap.block # -1
             PROVE  UpTo(rows', k, snap.block) = UpTo(rows, k, snap.block)
  BY Zenon DEF GetAt, UpTo
<1> USE DEF Inv
<1>1. snap.block \in Nat /\ snap.block <= BlockNumber /\ last \in Nat \cup {-1}
  BY DEF SnapInv, ChainInv
<1>2. CASE rows' = rows
  BY <1>2
<1>3. CASE rows' # rows
  <2>1. /\ cur = last + 1 /\ batch = chain[last + 2] /\ rows \subseteq rows'
        /\ \A r \in rows' : r \in rows \/ \E i \in 1..Len(batch) : Is(r, cur, batch[i])
    BY <1>3, CommitEffect
  <2>2. CASE last = -1
    <3>1. last + 2 = 1
      BY <2>2
    <3>2. batch = <<>>
      BY <2>1, <3>1 DEF ChainInv
    <3>3. Len(batch) = 0 /\ \A i \in 1..Len(batch) : FALSE
      BY <3>2
    <3>4. rows' = rows
      BY <2>1, <3>3, Zenon
    <3> QED
      BY <1>3, <3>4
  <2>3. CASE last # -1
    <3>1. snap.block < cur
      BY <1>1, <2>1, <2>3 DEF BlockNumber
    <3>2. \A r \in rows' : r \in rows \/ r.block = cur
      BY <2>1 DEF Is
    <3>3. cur \in Nat
      BY <1>1, <2>1, <2>3
    <3> QED
      BY <1>1, <2>1, <3>1, <3>2, <3>3 DEF UpTo, RowsOf
  <2> QED
    BY <2>2, <2>3
<1> QED
  BY <1>2, <1>3

\* The block becomes visible.
LEMMA CommitInv == Inv /\ Commit => Inv'
<1> SUFFICES ASSUME Inv, Commit PROVE Inv'
  OBVIOUS
<1> USE DEF Inv
<1>1. /\ phase = "batch" /\ phase' = "idle" /\ chain' = chain /\ snap' = snap
  BY DEF Commit
<1>2. TxnInv' /\ ReplayInv' /\ BatchInv'
  BY <1>1 DEF TxnInv, ReplayInv, BatchInv
<1>3. last \in Nat \cup {-1} /\ cur \in Nat /\ cur < Len(chain) /\ Len(chain) \in Nat
  BY <1>1 DEF ChainInv, TxnInv
<1>4. last' >= last /\ last' \in Nat \cup {-1} /\ last' < Len(chain)
  BY <1>3, CommitEffect DEF ChainInv
<1>5. ChainInv'
  BY <1>1, <1>4 DEF ChainInv
<1>6. SnapInv'
  <2>1. snap'.block \in Nat \cup {-1} /\ snap'.block <= BlockNumber'
    <3>1. BlockNumber \in Nat /\ BlockNumber' \in Nat /\ BlockNumber <= BlockNumber'
      BY <1>3, <1>4 DEF BlockNumber
    <3>2. snap.block \in Nat \cup {-1} /\ snap.block <= BlockNumber
      BY DEF SnapInv
    <3> QED
      BY <1>1, <3>1, <3>2
  <2>2. SnapshotStable'
    BY <1>1, ViewsStay DEF SnapInv, SnapshotStable
  <2> QED
    BY <2>1, <2>2 DEF SnapInv
<1>7. RowsInv'
  <2>1. CASE rows' = rows /\ last' = last
    BY <1>1, <2>1 DEF RowsInv
  <2>2. CASE ~(rows' = rows /\ last' = last)
    <3>1. /\ last' = last + 1 /\ cur = last + 1 /\ batch = chain[last + 2]
          /\ Table(rows') /\ rows \subseteq rows'
          /\ \A r \in rows' : r \in rows \/ \E i \in 1..Len(batch) : Is(r, cur, batch[i])
          /\ \A i \in 1..Len(batch) : batch[i].valid => \E r \in rows' : Is(r, cur, batch[i])
      BY <2>2, CommitEffect
    <3>2. ASSUME NEW r \in rows' PROVE r.block <= last'
      <4>1. r \in rows \/ r.block = cur
        BY <3>1 DEF Is
      <4>2. r \in rows => r.block \in Nat /\ r.block <= last
        BY DEF RowsInv, Table, Rows
      <4> QED
        BY <1>3, <3>1, <4>1, <4>2
    <3>3. ASSUME NEW b \in 0..last', NEW i \in 1..Len(chain'[b + 1]), chain'[b + 1][i].valid
          PROVE  \E r \in rows' : Is(r, b, chain'[b + 1][i])
      <4>1. CASE b = cur
        <5>1. chain'[b + 1] = batch
          BY <1>1, <1>3, <3>1, <4>1
        <5> QED
          BY <3>1, <3>3, <4>1, <5>1
      <4>2. CASE b # cur
        <5>1. b \in 0..last
          BY <1>3, <3>1, <4>2
        <5>2. i \in 1..Len(chain[b + 1]) /\ chain[b + 1][i].valid
          BY <1>1, <3>3
        <5>3. \E r \in rows : Is(r, b, chain[b + 1][i])
          BY <5>1, <5>2, Zenon DEF RowsInv
        <5> QED
          BY <1>1, <3>1, <5>3
      <4> QED
        BY <4>1, <4>2
    <3> QED
      BY <3>1, <3>2, <3>3 DEF RowsInv
  <2> QED
    BY <2>1, <2>2
<1> QED
  BY <1>2, <1>5, <1>6, <1>7

\* A view is opened at a height the store has.
LEMMA SnapshotInv == ASSUME NEW n \in 0..MaxBlocks, Inv, SnapshotAt(n) PROVE Inv'
<1> USE DEF Inv
<1> DEFINE b == IF n <= BlockNumber THEN n ELSE BlockNumber
<1>1. /\ snap' = [block |-> b, view |-> ViewAt(b)]
      /\ UNCHANGED <<rows, last, chain, phase, cur, batch, pos, work>>
  BY DEF SnapshotAt, txnVars
<1>2. BlockNumber \in Nat /\ n \in Nat
  BY BlocksAssumption DEF ChainInv, BlockNumber, BlocksAssumption
<1>3. SnapInv'
  <2>1. b \in Nat /\ b <= BlockNumber
    BY <1>2
  <2> HIDE DEF b
  <2>4. snap'.block = b /\ BlockNumber' = BlockNumber
    BY <1>1 DEF BlockNumber
  <2>2. \A k \in Keys : snap'.view[k] = GetAt(rows, k, b)
    <3>1. snap'.view = ViewAt(b)
      BY <1>1
    <3> QED
      BY <3>1 DEF ViewAt
  <2>3. SnapshotStable'
    BY <1>1, <2>1, <2>2, <2>4, Zenon DEF SnapshotStable
  <2> QED
    BY <2>1, <2>3, <2>4 DEF SnapInv
<1>4. ChainInv' /\ RowsInv' /\ TxnInv' /\ ReplayInv' /\ BatchInv'
  BY <1>1 DEF ChainInv, RowsInv, TxnInv, ReplayInv, BatchInv
<1> QED
  BY <1>3, <1>4

\* The invariant holds throughout.
LEMMA Invariant == Spec => []Inv
<1>1. Inv /\ [Next]_vars => Inv'
  <2> SUFFICES ASSUME Inv, [Next]_vars PROVE Inv'
    OBVIOUS
  <2>1. CASE OrderBlock
    BY <2>1, OrderBlockInv
  <2>2. CASE \E b \in 0..(Len(chain) - 1) : BeginTx(b)
    BY <2>2, BeginTxInv
  <2>3. CASE InsertWrite
    BY <2>3, InsertWriteInv
  <2>4. CASE SkipInvalid
    BY <2>4, SkipInvalidInv
  <2>5. CASE Rollback
    BY <2>5, RollbackInv
  <2>6. CASE Commit
    BY <2>6, CommitInv
  <2>7. CASE \E n \in 0..MaxBlocks : SnapshotAt(n)
    BY <2>7, SnapshotInv
  <2>8. CASE UNCHANGED vars
    <3>1. /\ chain' = chain /\ rows' = rows /\ last' = last /\ snap' = snap
          /\ phase' = phase /\ cur' = cur /\ batch' = batch /\ pos' = pos /\ work' = work
      BY <2>8 DEF vars, txnVars
    <3>2. ChainInv' /\ RowsInv'
      BY <3>1, Zenon DEF Inv, ChainInv, RowsInv
    <3>3. TxnInv' /\ ReplayInv' /\ BatchInv'
      BY <3>1, Zenon DEF Inv, TxnInv, ReplayInv, BatchInv
    <3>4. SnapInv'
      BY <3>1 DEF Inv, SnapInv, SnapshotStable, BlockNumber
    <3> QED
      BY <3>2, <3>3, <3>4 DEF Inv
  <2> QED
    BY <2>1, <2>2, <2>3, <2>4, <2>5, <2>6, <2>7, <2>8 DEF Next
<1> QED
  BY <1>1, InitInv, PTL DEF Spec

-----------------------------------------------------------------------------
\* VersionsConsecutive, for any keys, blocks and replays: the versions of a key
\* are those its rows would be counted with.
THEOREM VersionsAreConsecutive == Spec => []VersionsConsecutive
<1>1. Inv => VersionsConsecutive
  <2> SUFFICES ASSUME Inv PROVE VersionsConsecutive
    OBVIOUS
  <2>1. /\ \A r \in rows : r.block \in Nat /\ r.tx \in Nat /\ r.version \in Nat
        /\ \A r, q \in rows : r.key = q.key /\ r.block = q.block /\ r.tx = q.tx => r = q
        /\ \A r, q \in rows : r.key = q.key => (Earlier(r, q) <=> r.version < q.version)
        /\ \A r \in rows : \A v \in 0..r.version : \E q \in rows : q.key = r.key /\ q.version = v
    BY DEF Inv, RowsInv, Table, Rows
  <2>2. ASSUME NEW r \in rows, NEW q \in rows, r.key = q.key, r.version = q.version
        PROVE  r = q
    BY <2>2, VersionsAreUnique DEF Inv, RowsInv
  <2> QED
    BY <2>1, <2>2 DEF VersionsConsecutive
<1> QED
  BY <1>1, Invariant, PTL

\* HistoryIsVersionOrder, for any keys, blocks and replays: the place of a row in the
\* history of its key is its version.
THEOREM HistoriesFollowVersions == Spec => []HistoryIsVersionOrder
<1>1. Inv => HistoryIsVersionOrder
  <2> SUFFICES ASSUME Inv, NEW k \in Keys
               PROVE  \A i \in DOMAIN GetHistory(rows, k) :
                        GetHistory(rows, k)[i].version = i - 1
    BY Zenon DEF HistoryIsVersionOrder
  <2>1. PICK b \in Nat : b = BlockNumber
    BY DEF Inv, ChainInv, BlockNumber
  <2>2. \A r \in RowsOf(rows, k) : r.block <= b
    <3>1. \A r \in rows : r.block \in Nat /\ r.block <= last
      BY DEF Inv, RowsInv, Table, Rows
    <3> QED
      BY <2>1, <3>1 DEF Inv, ChainInv, BlockNumber, RowsOf
  <2>3. Table(rows)
    BY DEF Inv, RowsInv
  <2> QED
    BY <2>1, <2>2, <2>3, HistoryByVersion
<1> QED
  BY <1>1, Invariant, PTL

\* SnapshotStable, whatever is committed, replayed or rolled back meanwhile.
THEOREM SnapshotsAreStable == Spec => []SnapshotStable
<1>1. Inv => SnapshotStable
  BY DEF Inv, SnapInv
<1> QED
  BY <1>1, Invariant, PTL

\* The highest version up to a height is the last write in ledger order.
LEMMA ViewShowsLastWrite ==
  ASSUME Inv, NEW k \in Keys, NEW n \in Nat
  PROVE  Abstract!Shows(WriteOf(GetAt(rows, k, n)), k, n)
<1> DEFINE U == UpTo(rows, k, n)
           W == {w \in {WriteOf(r) : r \in rows} : w.key = k /\ w.block <= n}
<1>1. Table(rows)
  BY DEF Inv, RowsInv
<1>2. \A r \in rows : /\ r \in Rows /\ r # NoRecord /\ r.block \in Nat /\ r.tx \in Nat
                      /\ r.version \in Nat
  BY <1>1, NoRecordAssumption DEF Table, Rows, NoRecordAssumption
<1>3. \A r \in rows :
        /\ WriteOf(r) = [key |-> r.key, block |-> r.block, tx |-> r.tx, content |-> r.content]
        /\ WriteOf(r).key = r.key /\ WriteOf(r).block = r.block /\ WriteOf(r).tx = r.tx
  BY <1>2 DEF WriteOf
<1>4. W = {WriteOf(r) : r \in U}
  BY <1>3 DEF UpTo, RowsOf
<1>5. GetAt(rows, k, n) = HighestVersion(U)
  BY DEF GetAt, UpTo
<1>6. CASE U = {}
  <2>1. GetAt(rows, k, n) = NoRecord
    BY <1>5, <1>6 DEF HighestVersion
  <2>2. WriteOf(GetAt(rows, k, n)) = NoRecord
    BY <2>1 DEF WriteOf
  <2>3. W = {}
    BY <1>4, <1>6
  <2> QED
    BY <2>2, <2>3 DEF Abstract!Shows
<1>7. CASE U # {}
  <2> DEFINE m == GetAt(rows, k, n)
  <2>1. \E r \in U : \A q \in U : q.version <= r.version
    BY <1>1, <1>7 DEF Table
  <2>2. m \in U /\ \A q \in U : q.version <= m.version
    BY <1>5, <1>7, <2>1 DEF HighestVersion
  <2>3. m \in rows /\ m.key = k
    BY <2>2 DEF UpTo, RowsOf
  <2> HIDE DEF m
  <2>4. ASSUME NEW q \in U PROVE q = m \/ Earlier(q, m)
    <3>1. q \in rows /\ q.key = m.key
      BY <2>3 DEF UpTo, RowsOf
    <3>2. ~Earlier(m, q)
      BY <1>1, <1>2, <2>2, <2>3, <3>1 DEF Table
    <3>3. Earlier(q, m) \/ (q.block = m.block /\ q.tx = m.tx)
      BY <1>2, <2>3, <3>1, <3>2 DEF Earlier
    <3> QED
      BY <1>1, <2>3, <3>1, <3>3 DEF Table
  <2>5. WriteOf(m) \in W
    BY <1>4, <2>2
  <2>6. ASSUME NEW w \in W PROVE w = WriteOf(m) \/ Abstract!Before(w, WriteOf(m))
    <3>1. PICK q \in U : w = WriteOf(q)
      BY <1>4
    <3>2. q \in rows
      BY DEF UpTo, RowsOf
    <3> QED
      BY <1>3, <2>3, <2>4, <3>1, <3>2 DEF Earlier, Abstract!Before
  <2> QED
    BY <2>5, <2>6 DEF m, Abstract!Shows
<1> QED
  BY <1>6, <1>7

\* UpdateWorldState, statement by statement, implements AtomicStore: the rows are
\* exactly the writes of the stored blocks, whatever is rolled back or replayed,
\* and a view shows the last of them up to its height.
THEOREM Refinement == Spec => ImplementsAtomicStore
<1>1. Init => Abstract!Init
  <2> SUFFICES ASSUME Init PROVE Abstract!Init
    OBVIOUS
  <2>1. {WriteOf(r) : r \in rows} = {}
    BY DEF Init
  <2> QED
    BY <2>1 DEF Init, NoSnapshot, Abstract!Init
<1>2. ASSUME Inv, OrderBlock PROVE Abstract!OrderBlock
  <2>1. PICK ws \in Blocks : chain' = Append(chain, ws)
    BY <1>2 DEF OrderBlock
  <2>2. chain \in Seq(Seq(Writes)) /\ ws \in Seq(Writes)
    BY <1>2, BlocksAssumption DEF Inv, ChainInv, BlocksAssumption
  <2>3. Len(chain') = Len(chain) + 1 /\ chain' = Append(chain, chain'[Len(chain')])
    BY <2>1, <2>2
  <2>4. rows' = rows /\ last' = last /\ snap' = snap
    BY <1>2 DEF OrderBlock
  <2> QED
    BY <2>3, <2>4 DEF Abstract!OrderBlock
<1>3. ASSUME Inv, Commit, ~(rows' = rows /\ last' = last) PROVE Abstract!Handle
  <2>1. /\ last' = last + 1 /\ cur = last + 1 /\ batch = chain[last + 2]
        /\ Table(rows') /\ rows \subseteq rows'
        /\ \A r \in rows' : r \in rows \/
             (\E i \in 1..Len(batch) : batch[i].valid /\ Is(r, cur, batch[i])
                                       /\ r.content = batch[i].content)
        /\ \A i \in 1..Len(batch) : batch[i].valid =>
             \E r \in rows' : Is(r, cur, batch[i]) /\ r.content = batch[i].content
    BY <1>3, CommitEffect
  <2>2. batch \in Seq(Writes) /\ DOMAIN batch = 1..Len(batch) /\ last + 1 < Len(chain)
    BY <1>3, <2>1 DEF Inv, TxnInv, Commit
  <2>3. \A r \in rows' :
          WriteOf(r) = [key |-> r.key, block |-> r.block, tx |-> r.tx, content |-> r.content]
    BY <2>1, NoRecordAssumption DEF Table, WriteOf, NoRecordAssumption
  <2> DEFINE Old == {WriteOf(r) : r \in rows}
             New == Abstract!WritesOf(last + 1, chain[last + 2])
  <2>4. New = {[key |-> batch[i].key, block |-> cur, tx |-> batch[i].tx,
                content |-> batch[i].content] : i \in {j \in 1..Len(batch) : batch[j].valid}}
    BY <2>1, <2>2 DEF Abstract!WritesOf
  <2> HIDE DEF New
  <2>5. ASSUME NEW r \in rows' PROVE WriteOf(r) \in Old \cup New
    <3>1. CASE r \in rows
      BY <3>1
    <3>2. CASE r \notin rows
      <4>1. PICK i \in 1..Len(batch) : batch[i].valid /\ Is(r, cur, batch[i])
                                       /\ r.content = batch[i].content
        BY <2>1, <3>2
      <4>2. WriteOf(r) = [key |-> batch[i].key, block |-> cur, tx |-> batch[i].tx,
                          content |-> batch[i].content]
        BY <2>3, <4>1 DEF Is
      <4> QED
        BY <2>4, <4>1, <4>2
    <3> QED
      BY <3>1, <3>2
  <2>6. ASSUME NEW w \in Old \cup New PROVE \E r \in rows' : w = WriteOf(r)
    <3>1. CASE w \in Old
      BY <2>1, <3>1, Zenon
    <3>2. CASE w \in New
      <4>1. PICK i \in 1..Len(batch) :
              batch[i].valid /\ w = [key |-> batch[i].key, block |-> cur, tx |-> batch[i].tx,
                                     content |-> batch[i].content]
        BY <2>4, <3>2, Zenon
      <4>2. PICK r \in rows' : Is(r, cur, batch[i]) /\ r.content = batch[i].content
        BY <2>1, <4>1
      <4> QED
        BY <2>3, <4>1, <4>2, Zenon DEF Is
    <3> QED
      BY <3>1, <3>2
  <2>7. {WriteOf(r) : r \in rows'} = Old \cup New
    BY <2>5, <2>6
  <2>8. chain' = chain /\ snap' = snap
    BY <1>3 DEF Commit
  <2> QED
    BY <2>1, <2>2, <2>7, <2>8, Zenon DEF New, Abstract!Handle
<1>4. ASSUME Inv, NEW n \in 0..MaxBlocks, SnapshotAt(n) PROVE Abstract!Snapshot
  <2> DEFINE b == IF n <= BlockNumber THEN n ELSE BlockNumber
  <2>1. /\ snap' = [block |-> b, view |-> ViewAt(b)]
        /\ rows' = rows /\ last' = last /\ chain' = chain
    BY <1>4 DEF SnapshotAt
  <2>2. BlockNumber \in Nat /\ n \in Nat /\ BlockNumber \in 0..last \cup {0} /\ last \in Int
    BY <1>4, BlocksAssumption DEF Inv, ChainInv, BlockNumber, BlocksAssumption
  <2>3. b \in Nat /\ b \in 0..last \cup {0}
    BY <2>2 DEF BlockNumber
  <2> HIDE DEF b
  <2>4. snap'.block = b /\ snap'.view = ViewAt(b)
    BY <2>1
  <2>5. ASSUME NEW k \in Keys PROVE Abstract!Shows(WriteOf(snap'.view[k]), k, b)
    <3>1. snap'.view[k] = GetAt(rows, k, b)
      BY <2>4 DEF ViewAt
    <3> QED
      BY <1>4, <2>3, <3>1, ViewShowsLastWrite
  <2> QED
    BY <2>1, <2>3, <2>4, <2>5 DEF Abstract!Snapshot
<1>5. Inv /\ [Next]_vars =>
        [Abstract!Next]_<<{WriteOf(r) : r \in rows}, last, chain,
                          [block |-> snap.block, view |-> [k \in Keys |-> WriteOf(snap.view[k])]]>>
  <2> SUFFICES ASSUME Inv, [Next]_vars,
                      ~(rows' = rows /\ last' = last /\ chain' = chain /\ snap' = snap)
               PROVE  Abstract!Next
    OBVIOUS
  <2>1. CASE OrderBlock
    BY <1>2, <2>1 DEF Abstract!Next
  <2>2. CASE Commit
    <3>1. chain' = chain /\ snap' = snap
      BY <2>2 DEF Commit
    <3> QED
      BY <1>3, <2>2, <3>1 DEF Abstract!Next
  <2>3. CASE \E n \in 0..MaxBlocks : SnapshotAt(n)
    BY <1>4, <2>3 DEF Abstract!Next
  <2>4. CASE \/ \E b \in 0..(Len(chain) - 1) : BeginTx(b)
             \/ InsertWrite \/ SkipInvalid \/ Rollback \/ UNCHANGED vars
    BY <2>4 DEF BeginTx, InsertWrite, SkipInvalid, Rollback, vars
  <2> QED
    BY <2>1, <2>2, <2>3, <2>4 DEF Next
<1> QED
  BY <1>1, <1>5, Invariant, PTL DEF Spec, ImplementsAtomicStore, Abstract!Spec
=============================================================================
