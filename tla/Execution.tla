----------------------------- MODULE Execution ------------------------------
(***************************************************************************)
(* A transaction from simulation to commit, and back to the replica.       *)
(*                                                                         *)
(* An endorser simulates a transaction (state.SimulationStore) on a        *)
(* snapshot of its replica, which lags behind the ledger.  The envelope is *)
(* ordered into a block at any later time; the ledger (fabrictest's, with  *)
(* blocks.MVCCValidator) validates the block, records the outcomes in the  *)
(* block's transactions filter and applies the valid writes.  The replica  *)
(* parses the delivered block again, reads the outcomes off the filter,    *)
(* and applies the writes to its own store.                                *)
(***************************************************************************)
EXTENDS WorldState, Statuses

CONSTANTS TxIds,
          None,       \* no value, and no entry in a map
          Junk,       \* an envelope that Parse leaves out (malformed, config)
          MaxBlocks,  \* bound: length of the chain, the genesis block included
          MaxTxPerBlock

ASSUME ExecutionAssumption ==
  /\ MaxBlocks \in Nat /\ MaxTxPerBlock \in Nat
  /\ Contents = [by : TxIds, kind : {"value", "empty", "delete"}]

VARIABLES
  monotonicVersions,  \* TRUE: a Fabric-X network, its formats and versions; FALSE: Fabric
  chain,   \* ledger.blocks: envelopes and filter; block b is chain[b + 1]
  ledger,  \* the ledger's world state
  sim,     \* sim[t]: the SimulationStore of t, and what became of it
  rows,    \* the replica's world state
  last     \* and the block it is at, -1 before the first one

vars == <<monotonicVersions, chain, ledger, sim, rows, last>>

Nil == <<>>                       \* a read with no version
Idle == [st |-> "idle", block |-> 0,
         reads |-> [k \in Keys |-> None],
         writes |-> [k \in Keys |-> None],
         got |-> [k \in Keys |-> None]]

\* The genesis block holds one CONFIG envelope.
Init ==
  /\ monotonicVersions \in BOOLEAN
  /\ chain = <<[envs |-> <<Junk>>, filter |-> <<0>>]>>
  /\ ledger = {} /\ rows = {} /\ last = -1
  /\ sim = [t \in TxIds |-> Idle]

-----------------------------------------------------------------------------
\* Simulation.

\* What a caller gets for a record: the transaction whose value it reads.
ValueOf(rec) ==
  IF rec = NoRecord \/ rec.content.kind # "value" THEN None ELSE rec.content.by

VersionOf(rec) == IF monotonicVersions THEN <<rec.version>> ELSE <<rec.block, rec.tx>>

NewSimulationStore(t) ==
  /\ sim[t].st = "idle"
  /\ sim' = [sim EXCEPT ![t].st = "open", ![t].block = IF last = -1 THEN 0 ELSE last]
  /\ UNCHANGED <<monotonicVersions, chain, ledger, rows, last>>

\* A read of a key the transaction wrote returns that write and records nothing.
GetState(t, k) ==
  LET rec == GetAt(rows, k, sim[t].block)
  IN /\ sim[t].st = "open" /\ sim[t].writes[k] = None
     /\ sim' = [sim EXCEPT
          ![t].got[k] = ValueOf(rec),
          ![t].reads[k] = IF rec = NoRecord THEN Nil
                          ELSE IF rec.content.kind = "delete" THEN @
                          ELSE VersionOf(rec)]
     /\ UNCHANGED <<monotonicVersions, chain, ledger, rows, last>>

\* PutState of an empty value is DelState.
PutState(t, k, w) ==
  /\ sim[t].st = "open"
  /\ sim' = [sim EXCEPT ![t].writes[k] = w]
  /\ UNCHANGED <<monotonicVersions, chain, ledger, rows, last>>

\* Result, and the endorsement built from it.
Result(t) ==
  /\ sim[t].st = "open"
  /\ sim' = [sim EXCEPT ![t].st = "endorsed"]
  /\ UNCHANGED <<monotonicVersions, chain, ledger, rows, last>>

-----------------------------------------------------------------------------
\* Formats.

\* The kind of record a write becomes once it is packaged and parsed: Fabric-X
\* has no deletes, only an empty value.
Decoded(w) ==
  CASE w = "put" -> "value"
    [] w = "del" -> IF monotonicVersions THEN "empty" ELSE "delete"

Reads(t) == {k \in Keys : sim[t].reads[k] # None}
WriteSet(t) == {k \in Keys : sim[t].writes[k] # None}

StatusOfCode(c) ==
  IF monotonicVersions THEN StatusFromCommitterStatus(c) ELSE StatusFromValidationCode(c)
CodeOf(s) == IF monotonicVersions THEN FabricXCodes[s] ELSE FabricCodes[s]

\* The transaction at position i of a block, with its number and status.
ParseTx(b, i) ==
  [id |-> b.envs[i], number |-> i - 1, status |-> StatusOfCode(b.filter[i])]

\* Parse: the transactions of a block, without the envelopes it leaves out.
Parse(b) ==
  LET kept == InOrder({i \in DOMAIN b.envs : b.envs[i] # Junk})
  IN [j \in DOMAIN kept |-> ParseTx(b, kept[j])]

\* The writes of a parsed block, transaction by transaction.
WritesOf(txs) ==
  [j \in DOMAIN txs |->
     LET t == txs[j].id
     IN {[tx |-> txs[j].number, key |-> k, valid |-> Valid(txs[j].status),
          content |-> [by |-> t, kind |-> Decoded(sim[t].writes[k])]] : k \in WriteSet(t)}]

-----------------------------------------------------------------------------
\* Validation.

ReadHolds_IgnoresTombstones(k, v) ==
  LET rec == Get(ledger, k)
  IN IF rec = NoRecord THEN v = Nil ELSE v = VersionOf(rec)

\* The check of one read against the latest record; a tombstone is no record.
ReadHolds(k, v) ==
  LET rec == Get(ledger, k)
  IN IF rec = NoRecord \/ rec.content.kind = "delete" THEN v = Nil
     ELSE v = VersionOf(rec)

checkNs_CommittedOnly(t, pending) ==
  IF \A k \in Reads(t) : ReadHolds(k, sim[t].reads[k]) THEN Committed
  ELSE MVCCConflict

\* Reads of keys written earlier in the block conflict, then stale ones do.
checkNs(t, pending) ==
  IF Reads(t) \cap pending = {} /\ \A k \in Reads(t) : ReadHolds(k, sim[t].reads[k])
  THEN Committed ELSE MVCCConflict

\* The statuses of a block's transactions, in order; pendingWrites is what the
\* committed ones before a transaction write.
Validate(txs) ==
  LET status[j \in DOMAIN txs] ==
        checkNs(txs[j].id,
                UNION {WriteSet(txs[i].id) : i \in {h \in 1..(j - 1) : Valid(status[h])}})
  IN status

Scattered_Wholesale(txs, status, n) ==
  [i \in 1..n |-> IF i \in DOMAIN status THEN CodeOf(status[i]) ELSE 0]

\* The block's filter: each status at its transaction's position, 0 elsewhere.
Scattered(txs, status, n) ==
  [i \in 1..n |-> IF \E j \in DOMAIN txs : txs[j].number = i - 1
                  THEN CodeOf(status[CHOOSE j \in DOMAIN txs : txs[j].number = i - 1])
                  ELSE 0]

\* ledger.process: parse, validate, fill in the filter, apply, append.
process(envs) ==
  LET txs == Parse([envs |-> envs, filter |-> [i \in DOMAIN envs |-> 0]])
      status == Validate(txs)
      done == [j \in DOMAIN txs |-> [txs[j] EXCEPT !.status = status[j]]]
  IN /\ Len(chain) < MaxBlocks
     /\ chain' = Append(chain, [envs |-> envs,
                                filter |-> Scattered(txs, status, Len(envs))])
     /\ ledger' = WithBlock(ledger, Len(chain), WritesOf(done))
     /\ UNCHANGED <<monotonicVersions, sim, rows, last>>

\* The replica receives the next block and applies it.
Handle ==
  /\ last + 1 < Len(chain)
  /\ rows' = WithBlock(rows, last + 1, WritesOf(Parse(chain[last + 2])))
  /\ last' = last + 1
  /\ UNCHANGED <<monotonicVersions, chain, ledger, sim>>

Envelopes == {t \in TxIds : sim[t].st = "endorsed"} \cup {Junk}

Next ==
  \/ \E t \in TxIds : NewSimulationStore(t) \/ Result(t)
  \/ \E t \in TxIds, k \in Keys : GetState(t, k)
  \/ \E t \in TxIds, k \in Keys, w \in {"put", "del"} : PutState(t, k, w)
  \/ \E n \in 0..MaxTxPerBlock : \E envs \in [1..n -> Envelopes] : process(envs)
  \/ Handle

Spec == Init /\ [][Next]_vars

-----------------------------------------------------------------------------
\* Properties.

\* The record of k just before transaction number n of block b.
Before(k, b, n) ==
  HighestVersion({r \in RowsOf(ledger, k) : r.block < b \/ (r.block = b /\ r.tx < n)})

\* The transactions of block b with their outcome.
Outcomes(b) == Elements(Parse(chain[b + 1]))

\* Serializability in block order: every value a committed transaction was given
\* during simulation (and recorded) is the value that was current just before it
\* in the ledger, however stale its snapshot and whatever shared its block.
CommittedReadsAreCurrent ==
  \A b \in 0..(Len(chain) - 1) : \A tx \in Outcomes(b) :
    Valid(tx.status) =>
      \A k \in Reads(tx.id) : sim[tx.id].got[k] = ValueOf(Before(k, b, tx.number))

\* No spurious aborts: a transaction is only refused when, for a key it read, the
\* record just before it is newer than its snapshot and is not the absence it saw
\* (a tombstone of this same block excepted: pendingWrites holds deletes too).
ConflictsAreReal ==
  \A b \in 0..(Len(chain) - 1) : \A tx \in Outcomes(b) :
    ~Valid(tx.status) =>
      \E k \in Reads(tx.id) :
        LET rec == Before(k, b, tx.number) IN
        /\ rec # NoRecord /\ rec.block > sim[tx.id].block
        /\ \/ rec.content.kind # "delete"
           \/ sim[tx.id].reads[k] # Nil
           \/ rec.block = b

\* The replica, which only sees envelopes and filters, holds what the ledger held
\* at that height: the same rows with the same versions.
ReplicaConverges == rows = {r \in ledger : r.block <= last}
=============================================================================
