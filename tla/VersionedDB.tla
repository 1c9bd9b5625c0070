---------------------------- MODULE VersionedDB -----------------------------
(***************************************************************************)
(* state.VersionedDB driven block by block, one SQL statement at a time.   *)
(*                                                                         *)
(* UpdateWorldState runs in one SQL transaction: BeginTx, an INSERT per    *)
(* write of a valid transaction, the update of channel_progress, Commit.   *)
(* An error or a crash before Commit rolls it back.  Readers and snapshots *)
(* see committed rows only.                                                *)
(*                                                                         *)
(* Blocks come from a chain that only grows.  The caller hands over the    *)
(* next block, or a block already stored: the same one (a replay) or one   *)
(* that parsed differently (which the comment of UpdateWorldState calls a  *)
(* bug elsewhere).                                                         *)
(***************************************************************************)
EXTENDS WorldState

CONSTANTS Blocks,    \* what a block may contain: sequences of writes
          MaxBlocks  \* bound: length of the chain

ASSUME BlocksAssumption ==
  /\ MaxBlocks \in Nat
  /\ \A ws \in Blocks :
       /\ ws \in Seq(Writes)
       /\ \A i, j \in 1..Len(ws) :
            i < j => /\ ws[i].tx <= ws[j].tx
                     /\ ws[i].key = ws[j].key => ws[i].tx # ws[j].tx

VARIABLES
  rows,   \* worldstate, committed
  last,   \* channel_progress.last_block, committed; -1 while there is no row
  chain,  \* the channel's blocks; block b is chain[b + 1]
  phase,  \* "idle", or "batch" while an SQL transaction is open
  cur,    \* the number of the block it stores
  batch,  \* the writes of that block
  pos,    \* the next write to insert
  work,   \* worldstate as the open SQL transaction sees it
  snap    \* an open snapshot, with what it read when it was opened

txnVars == <<phase, cur, batch, pos, work>>
vars == <<rows, last, chain, txnVars, snap>>

NoSnapshot == [block |-> -1, view |-> [k \in Keys |-> NoRecord]]

\* Block 0 is the genesis block and writes no state.
Init ==
  /\ rows = {} /\ last = -1
  /\ chain = << <<>> >>
  /\ phase = "idle" /\ cur = 0 /\ batch = <<>> /\ pos = 1 /\ work = {}
  /\ snap = NoSnapshot

BlockNumber == IF last = -1 THEN 0 ELSE last

OrderBlock ==
  /\ Len(chain) < MaxBlocks
  /\ \E ws \in Blocks : chain' = Append(chain, ws)
  /\ UNCHANGED <<rows, last, txnVars, snap>>

\* The block as the parser hands it over: as it was, or, for a block that is
\* stored, with the content of one write changed.
Handed(b) ==
  {chain[b + 1]} \cup
  (IF b > last THEN {}
   ELSE {[chain[b + 1] EXCEPT ![i].content = c] :
           i \in DOMAIN chain[b + 1], c \in Contents})

\* The synchronizer hands over no block beyond the one after BlockNumber.
BeginTx(b) ==
  /\ phase = "idle" /\ b <= last + 1
  /\ phase' = "batch" /\ cur' = b /\ pos' = 1 /\ work' = rows
  /\ batch' \in Handed(b)
  /\ UNCHANGED <<rows, last, chain, snap>>

InsertWrite_AlsoInvalid ==
  /\ phase = "batch" /\ pos <= Len(batch)
  /\ Agrees(work, cur, batch[pos])
  /\ pos' = pos + 1
  /\ work' = Inserted(work, cur, batch[pos])
  /\ UNCHANGED <<rows, last, chain, phase, cur, batch, snap>>

InsertWrite ==
  /\ phase = "batch" /\ pos <= Len(batch)
  /\ batch[pos].valid
  /\ Agrees(work, cur, batch[pos])
  /\ pos' = pos + 1
  /\ work' = Inserted(work, cur, batch[pos])
  /\ UNCHANGED <<rows, last, chain, phase, cur, batch, snap>>

SkipInvalid ==
  /\ phase = "batch" /\ pos <= Len(batch)
  /\ ~batch[pos].valid
  /\ pos' = pos + 1
  /\ UNCHANGED <<rows, last, chain, phase, cur, batch, work, snap>>

\* A replayed write differs from the row that is there, a statement fails, the
\* context is canceled or the process crashes: the deferred Rollback.
Rollback ==
  /\ phase = "batch"
  /\ phase' = "idle" /\ work' = {} /\ batch' = <<>> /\ pos' = 1 /\ cur' = 0
  /\ UNCHANGED <<rows, last, chain, snap>>

\* The upsert of channel_progress only moves it forward.
Progress(b) == IF b > last THEN b ELSE last

Commit ==
  /\ phase = "batch" /\ pos = Len(batch) + 1
  /\ rows' = work /\ last' = Progress(cur)
  /\ phase' = "idle" /\ work' = {} /\ batch' = <<>> /\ pos' = 1 /\ cur' = 0
  /\ UNCHANGED <<chain, snap>>

ViewAt(n) == [k \in Keys |-> GetAt(rows, k, n)]

SnapshotAt_Uncapped(n) ==
  /\ snap' = [block |-> n, view |-> ViewAt(n)]
  /\ UNCHANGED <<rows, last, chain, txnVars>>

\* Snapshot is SnapshotAt(BlockNumber): both pin the view at a stored height.
SnapshotAt(n) ==
  LET b == IF n <= BlockNumber THEN n ELSE BlockNumber
  IN /\ snap' = [block |-> b, view |-> ViewAt(b)]
     /\ UNCHANGED <<rows, last, chain, txnVars>>

Next ==
  \/ OrderBlock
  \/ \E b \in 0..(Len(chain) - 1) : BeginTx(b)
  \/ InsertWrite \/ SkipInvalid \/ Rollback \/ Commit
  \/ \E n \in 0..MaxBlocks : SnapshotAt(n)

Spec == Init /\ [][Next]_vars

-----------------------------------------------------------------------------
\* Properties.

\* The primary key and the versions of a key: both identify a row, and the
\* versions in use are 0, 1, 2, ... without a gap, so that MAX(version) + 1 is
\* the number of writes so far (Fabric-X clients compare it).
VersionsConsecutive ==
  \A r \in rows :
    /\ \A q \in rows :
         r.key = q.key /\ (r.version = q.version \/ (r.block = q.block /\ r.tx = q.tx))
         => r = q
    /\ \A v \in 0..r.version : \E q \in rows : q.key = r.key /\ q.version = v

\* GetHistory sorts by block and transaction, readers by version: the two orders agree,
\* also where a block writes a key twice or is handed over again.
HistoryIsVersionOrder ==
  \A k \in Keys :
    LET h == GetHistory(rows, k) IN \A i \in DOMAIN h : h[i].version = i - 1

\* Comment of Snapshot: "Rows are only ever inserted, and blocks committed later
\* have higher heights, so the view does not change."
SnapshotStable ==
  snap.block # -1 => \A k \in Keys : GetAt(rows, k, snap.block) = snap.view[k]

\* The write a row stands for, without its version.
WriteOf(r) ==
  IF r = NoRecord THEN NoRecord
  ELSE [key |-> r.key, block |-> r.block, tx |-> r.tx, content |-> r.content]

Abstract ==
  INSTANCE AtomicStore WITH
    writes <- {WriteOf(r) : r \in rows}, height <- last,
    snap <- [block |-> snap.block, view |-> [k \in Keys |-> WriteOf(snap.view[k])]]

\* Statement by statement, with rollbacks and replays anywhere, the tables do
\* nothing but take in whole blocks, one after the other and each once; and the
\* highest version up to a height is the last write in ledger order.
ImplementsAtomicStore == Abstract!Spec
=============================================================================
