-------------------------- MODULE ExecutionProofs ---------------------------
(***************************************************************************)
(* Proofs about Execution, on both ledgers, for any keys, transactions and *)
(* blocks: what commits is serializable, what is refused had to be, and    *)
(* the replica holds what the ledger held at its height.                   *)
(***************************************************************************)
EXTENDS Execution, WorldStateProofs

Versions == {None, Nil} \cup {<<v>> : v \in Nat} \cup (Nat \X Nat)

Sims == [st : {"idle", "open", "endorsed"}, block : Nat, reads : [Keys -> Versions],
         writes : [Keys -> {None, "put", "del"}], got : [Keys -> TxIds \cup {None}]]

ChainBlocks == [envs : Seq(TxIds \cup {Junk}), filter : Seq(Nat)]

TypeInv ==
  /\ monotonicVersions \in BOOLEAN
  /\ chain \in Seq(ChainBlocks) /\ Len(chain) >= 1
  /\ last \in Nat \cup {-1} /\ last < Len(chain)
  /\ sim \in [TxIds -> Sims]

\* The ledger is a table; the genesis block wrote nothing.
LedgerInv == Table(ledger) /\ \A r \in ledger : r.block >= 1 /\ r.block < Len(chain)

\* What is in the chain was endorsed, so its read-write set is final.
EnvelopesInv ==
  \A b \in 0..(Len(chain) - 1) : \A i \in 1..Len(chain[b + 1].envs) :
    LET t == chain[b + 1].envs[i] IN t = Junk \/ sim[t].st = "endorsed"

LedgerAt(n) == {r \in ledger : r.block <= n}

\* txs is what Parse reads in block b.
ParsedAt(b, txs) == \E B : B = chain[b + 1] /\ txs = Parse(B)

\* Each block of the chain, read back with its filter, accounts for its rows.
LayersInv ==
  \A b \in 0..(Len(chain) - 1) : \A txs, W :
    ParsedAt(b, txs) /\ W = WritesOf(txs) => LedgerAt(b) = WithBlock(LedgerAt(b - 1), b, W)

\* What t recorded of k is what the ledger has of k at the height of t's snapshot.
Saw(t, k) ==
  LET rec == GetAt(ledger, k, sim[t].block)
  IN /\ sim[t].got[k] = ValueOf(rec)
     /\ \/ rec = NoRecord /\ sim[t].reads[k] = Nil
        \/ /\ rec # NoRecord /\ rec.content.kind # "delete"
           /\ sim[t].reads[k] = VersionOf(rec)

SnapshotInv ==
  \A t \in TxIds :
    /\ sim[t].block <= (IF last = -1 THEN 0 ELSE last)
    /\ \A k \in Keys : sim[t].reads[k] # None => sim[t].st # "idle" /\ Saw(t, k)

\* The rows of k before transaction n of block b.
Prior(R, k, b, n) == {r \in RowsOf(R, k) : r.block < b \/ (r.block = b /\ r.tx < n)}

\* What the two properties say of transaction tx of block b, R being the ledger.
CurrentReads(R, b, tx) ==
  Valid(tx.status) =>
    \A k \in Reads(tx.id) :
      sim[tx.id].got[k] = ValueOf(HighestVersion(Prior(R, k, b, tx.number)))

RealConflict(R, b, tx) ==
  ~Valid(tx.status) =>
    \E k \in Reads(tx.id) :
      LET rec == HighestVersion(Prior(R, k, b, tx.number)) IN
      /\ rec # NoRecord /\ rec.block > sim[tx.id].block
      /\ \/ rec.content.kind # "delete"
         \/ sim[tx.id].reads[k] # Nil
         \/ rec.block = b

RightInv ==
  \A b \in 0..(Len(chain) - 1) : \A txs, R :
    ParsedAt(b, txs) /\ R = ledger =>
      \A tx \in Elements(txs) : CurrentReads(R, b, tx) /\ RealConflict(R, b, tx)

Inv ==
  /\ TypeInv /\ LedgerInv /\ EnvelopesInv /\ LayersInv /\ SnapshotInv
  /\ RightInv /\ ReplicaConverges

-----------------------------------------------------------------------------
\* Formats.

\* The codes of the two outcomes are read back as these outcomes.
LEMMA CodesRoundTrip ==
  ASSUME NEW s \in {Committed, MVCCConflict}
  PROVE  CodeOf(s) \in Nat /\ StatusOfCode(CodeOf(s)) = s
<1>1. \A x \in Int : Lowest({x}) = x
  <2> SUFFICES ASSUME NEW x \in Int PROVE Lowest({x}) = x
    OBVIOUS
  <2>1. x \in {x} /\ \A y \in {x} : x <= y
    OBVIOUS
  <2>2. Lowest({x}) \in {x}
    BY <2>1, Zenon DEF Lowest
  <2> QED
    BY <2>2
<1>2. Lowest({11, 12}) = 11
  <2>1. 11 \in {11, 12} /\ \A y \in {11, 12} : 11 <= y
    OBVIOUS
  <2>2. \A x \in {11, 12} : (\A y \in {11, 12} : x <= y) => x = 11
    OBVIOUS
  <2>3. Lowest({11, 12}) \in {11, 12} /\ \A y \in {11, 12} : Lowest({11, 12}) <= y
    BY <2>1, Zenon DEF Lowest
  <2> QED
    BY <2>2, <2>3
<1>3. /\ {c \in TxValidationCode_name : StatusFromValidationCode(c) = Committed} = {0}
      /\ {c \in TxValidationCode_name : StatusFromValidationCode(c) = MVCCConflict} = {11, 12}
  BY DEF TxValidationCode_name, StatusFromValidationCode, Committed, MVCCConflict,
         InvalidSignature, DuplicateTxID, EndorsementPolicyFailure, Unknown, Malformed
<1>4. /\ {c \in Status_name : StatusFromCommitterStatus(c) = Committed} = {1}
      /\ {c \in Status_name : StatusFromCommitterStatus(c) = MVCCConflict} = {3}
  BY DEF Status_name, StatusFromCommitterStatus, Committed, MVCCConflict,
         InvalidSignature, DuplicateTxID, Unrecognized, Unknown, Malformed
<1>5. Committed \in Status /\ MVCCConflict \in Status
  BY DEF Status
<1>6. FabricCodes[Committed] = 0 /\ FabricCodes[MVCCConflict] = 11
  BY <1>1, <1>2, <1>3, <1>5 DEF FabricCodes, CodeFor
<1>7. FabricXCodes[Committed] = 1 /\ FabricXCodes[MVCCConflict] = 3
  BY <1>1, <1>4, <1>5 DEF FabricXCodes, CodeFor
<1>8. /\ StatusFromValidationCode(0) = Committed /\ StatusFromValidationCode(11) = MVCCConflict
      /\ StatusFromCommitterStatus(1) = Committed /\ StatusFromCommitterStatus(3) = MVCCConflict
  BY DEF StatusFromValidationCode, StatusFromCommitterStatus
<1> QED
  BY <1>6, <1>7, <1>8 DEF CodeOf, StatusOfCode

\* The n envelopes at the indices kept are what Parse reads of a block of envs.
Kept(envs, n, kept) ==
  /\ n \in Nat
  /\ kept \in [1..n -> 1..Len(envs)]
  /\ \A j \in 1..n : envs[kept[j]] # Junk
  /\ \A i, j \in 1..n : i < j => kept[i] < kept[j]
  /\ \A B : B.envs = envs => Parse(B) = [j \in 1..n |-> ParseTx(B, kept[j])]

\* Parse keeps the envelopes it understands, in order, whatever the filter says.
LEMMA ParseIs ==
  ASSUME NEW E, NEW envs \in Seq(E)
  PROVE  \E n \in Nat : \E kept : Kept(envs, n, kept)
<1> DEFINE K == {i \in DOMAIN envs : envs[i] # Junk}
           n == Cardinality(K)
           kept == InOrder(K)
<1>1. Len(envs) \in Nat /\ DOMAIN envs = 1..Len(envs)
  OBVIOUS
<1>2. K \subseteq Nat /\ K \in SUBSET (1..Len(envs))
  BY <1>1
<1>3. IsFiniteSet(K)
  <2>1. IsFiniteSet(1..Len(envs))
    BY <1>1, FS_Interval
  <2> QED
    BY <1>2, <2>1, FS_Subset
<1>4. \A B : B.envs = envs => Parse(B) = [j \in DOMAIN kept |-> ParseTx(B, kept[j])]
  BY DEF Parse
<1>5. \A i \in K : i \in 1..Len(envs) /\ envs[i] # Junk
  BY <1>1
<1> HIDE DEF K
<1>6. /\ n \in Nat /\ kept \in [1..n -> K]
      /\ \A i, j \in 1..n : i < j => kept[i] < kept[j]
  BY <1>2, <1>3, InOrderIs, Zenon
<1> HIDE DEF kept, n
<1>7. kept \in [1..n -> 1..Len(envs)] /\ DOMAIN kept = 1..n
  BY <1>5, <1>6
<1>8. \A j \in 1..n : envs[kept[j]] # Junk
  BY <1>5, <1>6
<1>9. \A B : B.envs = envs => Parse(B) = [j \in 1..n |-> ParseTx(B, kept[j])]
  BY <1>4, <1>7, Zenon
<1>10. Kept(envs, n, kept)
  BY <1>6, <1>7, <1>8, <1>9, Zenon DEF Kept
<1> QED
  BY <1>6, <1>10, Zenon

-----------------------------------------------------------------------------
\* Validation.

\* pendingWrites at transaction j.
Pending(txs, status, j) ==
  UNION {WriteSet(txs[i].id) : i \in {h \in 1..(j - 1) : Valid(status[h])}}

\* Pending looks at the statuses before j only.
LEMMA PendingFrame ==
  ASSUME NEW txs, NEW g, NEW h, NEW j, \A i \in 1..(j - 1) : g[i] = h[i]
  PROVE  Pending(txs, g, j) = Pending(txs, h, j)
<1>1. {i \in 1..(j - 1) : Valid(g[i])} = {i \in 1..(j - 1) : Valid(h[i])}
  BY DEF Valid
<1> QED
  BY <1>1 DEF Pending

\* Validate gives each transaction what checkNs says of it after those before it.
LEMMA ValidateIs ==
  ASSUME NEW n \in Nat, NEW txs, DOMAIN txs = 1..n
  PROVE  \E s \in [1..n -> {Committed, MVCCConflict}] :
           /\ s = Validate(txs)
           /\ \A j \in 1..n : \E p : p = Pending(txs, s, j) /\ s[j] = checkNs(txs[j].id, p)
<1> DEFINE Step(g, j) == checkNs(txs[j].id, Pending(txs, g, j))
           Good(m) == \E g : g = [j \in 1..m |-> Step(g, j)]
           Bad == {m \in Nat : ~Good(m)}
<1>1. Good(0)
  <2> DEFINE g == [j \in 1..0 |-> 0]
  <2>1. 1..0 = {}
    OBVIOUS
  <2>2. g = [j \in 1..0 |-> Step(g, j)]
    BY <2>1
  <2> QED
    BY <2>2
<1>2. ASSUME NEW m \in Nat, Good(m) PROVE Good(m + 1)
  <2>1. PICK g : g = [j \in 1..m |-> Step(g, j)]
    BY <1>2
  <2> DEFINE h == [j \in 1..(m + 1) |-> IF j = m + 1 THEN Step(g, m + 1) ELSE g[j]]
  <2>2. \A i \in 1..m : i \in 1..(m + 1) /\ i # m + 1 /\ h[i] = g[i]
    OBVIOUS
  <2>3. h[m + 1] = Step(g, m + 1)
    OBVIOUS
  <2>4. h = [j \in 1..(m + 1) |-> h[j]]
    OBVIOUS
  <2> HIDE DEF h
  <2>5. ASSUME NEW j \in 1..(m + 1) PROVE Step(g, j) = Step(h, j)
    <3>1. \A i \in 1..(j - 1) : g[i] = h[i]
      BY <2>2
    <3>2. Pending(txs, g, j) = Pending(txs, h, j)
      BY <3>1, PendingFrame
    <3> QED
      BY <3>2
  <2>6. ASSUME NEW j \in 1..(m + 1) PROVE h[j] = Step(h, j)
    <3>1. CASE j = m + 1
      BY <2>3, <2>5, <3>1
    <3>2. CASE j # m + 1
      <4>1. j \in 1..m
        BY <3>2
      <4>2. h[j] = g[j] /\ g[j] = Step(g, j)
        BY <2>1, <2>2, <4>1
      <4> QED
        BY <2>5, <4>2
    <3> QED
      BY <3>1, <3>2
  <2>7. h = [j \in 1..(m + 1) |-> Step(h, j)]
    BY <2>4, <2>6
  <2> QED
    BY <2>7
<1> HIDE DEF Good
<1>3. Bad = {}
  <2> SUFFICES ASSUME Bad # {} PROVE FALSE
    OBVIOUS
  <2>1. PICK m \in Bad : \A i \in Bad : m <= i
    BY First, Zenon
  <2>2. m # 0 /\ m - 1 \in Nat /\ m - 1 + 1 = m
    BY <1>1, <2>1
  <2>3. Good(m - 1)
    BY <2>1, <2>2
  <2> QED
    BY <1>2, <2>1, <2>2, <2>3
<1>4. PICK g : g = [j \in 1..n |-> Step(g, j)]
  BY <1>3 DEF Good
<1>5. Validate(txs) = CHOOSE s : s = [j \in DOMAIN txs |-> Step(s, j)]
  BY Zenon DEF Validate, Pending
<1>6. g = [j \in DOMAIN txs |-> Step(g, j)]
  BY <1>4
<1>7. Validate(txs) = [j \in DOMAIN txs |-> Step(Validate(txs), j)]
  BY <1>5, <1>6, Zenon
<1>8. PICK s : s = Validate(txs)
  OBVIOUS
<1>9. s = [j \in 1..n |-> Step(s, j)]
  BY <1>7, <1>8
<1>10. \A t, pending : checkNs(t, pending) \in {Committed, MVCCConflict}
  BY DEF checkNs
<1>11. s \in [1..n -> {Committed, MVCCConflict}]
  BY <1>9, <1>10
<1>12. ASSUME NEW j \in 1..n
       PROVE  \E p : p = Pending(txs, s, j) /\ s[j] = checkNs(txs[j].id, p)
  BY <1>9
<1> QED
  BY <1>8, <1>11, <1>12

Outcome == [id : TxIds, number : Nat, status : {Committed, MVCCConflict}]

\* The keys the committed transactions before the j-th of txs write.
Written(txs, j) ==
  UNION {WriteSet(txs[i].id) : i \in {h \in 1..(j - 1) : Valid(txs[h].status)}}

\* txs are the transactions among envs, each with its number and the status that
\* the validator owes it.
Validated(envs, txs) ==
  /\ txs \in Seq(Outcome)
  /\ \A i, j \in 1..Len(txs) : i < j => txs[i].number < txs[j].number
  /\ \A j \in 1..Len(txs) :
       /\ \E i \in 1..Len(envs) : txs[j].id = envs[i] /\ envs[i] # Junk
       /\ \E p : p = Written(txs, j) /\ txs[j].status = checkNs(txs[j].id, p)

\* n transactions, in the order of their numbers, of a block of len envelopes.
Placed(txs, n, len) ==
  /\ n \in Nat /\ len \in Nat /\ DOMAIN txs = 1..n
  /\ \A j \in 1..n : txs[j].number \in 0..(len - 1)
  /\ \A i, j \in 1..n : i < j => txs[i].number < txs[j].number

\* The filter carries each status to the position of its transaction, where it is
\* read again.
LEMMA ScatteredIs ==
  ASSUME NEW txs, NEW n, NEW len, Placed(txs, n, len),
         NEW status, status \in [1..n -> {Committed, MVCCConflict}]
  PROVE  \E f \in Seq(Nat) :
           /\ f = Scattered(txs, status, len)
           /\ \A j \in 1..n : \E c : c = f[txs[j].number + 1] /\ StatusOfCode(c) = status[j]
<1> USE DEF Placed
<1> DEFINE f == Scattered(txs, status, len)
<1>1. PICK codes \in [{Committed, MVCCConflict} -> Nat] :
        \A s \in {Committed, MVCCConflict} :
          codes[s] = CodeOf(s) /\ StatusOfCode(codes[s]) = s
  <2>1. \A s \in {Committed, MVCCConflict} :
          \E c \in Nat : c = CodeOf(s) /\ StatusOfCode(c) = s
    BY CodesRoundTrip
  <2>2. PICK codes \in [{Committed, MVCCConflict} -> Nat] :
          \A s \in {Committed, MVCCConflict} : codes[s] = CodeOf(s)
    <3> DEFINE g == [s \in {Committed, MVCCConflict} |-> CodeOf(s)]
    <3>1. g \in [{Committed, MVCCConflict} -> Nat]
      BY <2>1
    <3>2. \A s \in {Committed, MVCCConflict} : g[s] = CodeOf(s)
      OBVIOUS
    <3> QED
      BY <3>1, <3>2, Zenon
  <2> QED
    BY <2>1, <2>2
<1>2. \A i \in 1..len :
        f[i] = IF \E h \in 1..n : txs[h].number = i - 1
               THEN CodeOf(status[CHOOSE h \in 1..n : txs[h].number = i - 1]) ELSE 0
  BY Zenon DEF Scattered
<1>3. f = [i \in 1..len |-> f[i]]
  BY DEF Scattered
<1>4. \A i \in 1..len : (~\E h \in 1..n : txs[h].number = i - 1) => f[i] = 0
  BY DEF Scattered
<1> HIDE DEF f
<1>5. ASSUME NEW i \in 1..len, NEW h \in 1..n, txs[h].number = i - 1
      PROVE  f[i] = codes[status[h]]
  <2>1. PICK g : g = CHOOSE x \in 1..n : txs[x].number = i - 1
    OBVIOUS
  <2>2. g \in 1..n /\ txs[g].number = i - 1
    BY <1>5, <2>1
  <2>3. txs[g].number \in Nat /\ txs[h].number \in Nat /\ txs[g].number = txs[h].number
    BY <1>5, <2>2
  <2>4. g = h
    BY <2>2, <2>3
  <2>5. f[i] = CodeOf(status[h])
    BY <1>2, <1>5, <2>1, <2>4, Zenon
  <2> QED
    BY <1>1, <2>5
<1>6. ASSUME NEW i \in 1..len PROVE f[i] \in Nat
  <2>1. CASE \E h \in 1..n : txs[h].number = i - 1
    BY <1>1, <1>5, <2>1
  <2>2. CASE ~\E h \in 1..n : txs[h].number = i - 1
    BY <1>4, <2>2
  <2> QED
    BY <2>1, <2>2
<1>7. f \in [1..len -> Nat]
  BY <1>3, <1>6
<1>8. f \in Seq(Nat)
  BY <1>7
<1>9. ASSUME NEW j \in 1..n PROVE \E c : c = f[txs[j].number + 1] /\ StatusOfCode(c) = status[j]
  <2>1. PICK c : c = f[txs[j].number + 1]
    OBVIOUS
  <2>2. c = codes[status[j]]
    <3>1. PICK i \in 1..len : i = txs[j].number + 1
      OBVIOUS
    <3>2. txs[j].number = i - 1
      BY <3>1
    <3> QED
      BY <1>5, <2>1, <3>1, <3>2
  <2>3. StatusOfCode(c) = status[j]
    BY <1>1, <2>2
  <2> QED
    BY <2>1, <2>3
<1> QED
  BY <1>8, <1>9 DEF f

\* What process appends to the chain, and what Parse reads from it: the transactions
\* with the statuses they were given.
LEMMA ProcessIs ==
  ASSUME NEW envs \in Seq(TxIds \cup {Junk}), process(envs)
  PROVE  \E B \in ChainBlocks : \E txs, W :
           /\ chain' = Append(chain, B) /\ B.envs = envs
           /\ txs = Parse(B) /\ Validated(envs, txs)
           /\ W = WritesOf(txs) /\ ledger' = WithBlock(ledger, Len(chain), W)
<1> DEFINE Z == [envs |-> envs, filter |-> [i \in DOMAIN envs |-> 0]]
           txs == Parse(Z)
           status == Validate(txs)
           done == [j \in DOMAIN txs |-> [txs[j] EXCEPT !.status = status[j]]]
           B == [envs |-> envs, filter |-> Scattered(txs, status, Len(envs))]
<1>1. chain' = Append(chain, B) /\ ledger' = WithBlock(ledger, Len(chain), WritesOf(done))
  BY DEF process
<1>2. PICK len \in Nat : len = Len(envs)
  OBVIOUS
<1>3. PICK n \in Nat : \E kept : Kept(envs, n, kept)
  BY ParseIs, Zenon
<1>4. PICK kept \in [1..n -> 1..len] :
        /\ \A j \in 1..n : envs[kept[j]] # Junk
        /\ \A i, j \in 1..n : i < j => kept[i] < kept[j]
        /\ \A C : C.envs = envs => Parse(C) = [j \in 1..n |-> ParseTx(C, kept[j])]
  BY <1>2, <1>3, Zenon DEF Kept
<1>5. Z.envs = envs /\ B.envs = envs
  OBVIOUS
<1>6. PICK zero : zero = StatusOfCode(0)
  OBVIOUS
<1>7. PICK T : T = txs
  OBVIOUS
<1>8. T = [j \in 1..n |-> [id |-> envs[kept[j]], number |-> kept[j] - 1, status |-> zero]]
  <2>1. T = [j \in 1..n |-> ParseTx(Z, kept[j])]
    BY <1>4, <1>5, <1>7, Zenon
  <2>2. ASSUME NEW j \in 1..n
        PROVE  ParseTx(Z, kept[j]) = [id |-> envs[kept[j]], number |-> kept[j] - 1, status |-> zero]
    <3>1. Z.filter[kept[j]] = 0
      BY <1>2, <1>4
    <3> QED
      BY <1>5, <1>6, <3>1 DEF ParseTx
  <2> QED
    BY <2>1, <2>2
<1>9. DOMAIN T = 1..n /\ \A j \in 1..n : T[j].id = envs[kept[j]] /\ T[j].number = kept[j] - 1
  BY <1>8
<1>10. PICK s \in [1..n -> {Committed, MVCCConflict}] :
         /\ s = Validate(T)
         /\ \A j \in 1..n : \E p : p = Pending(T, s, j) /\ s[j] = checkNs(T[j].id, p)
  BY <1>9, ValidateIs
<1>11. s = status
  BY <1>7, <1>10
<1> HIDE DEF txs, Z, status
<1>12. s \in [1..n -> {Committed, MVCCConflict}]
  BY <1>10
<1>13. done = [j \in 1..n |-> [id |-> envs[kept[j]], number |-> kept[j] - 1, status |-> s[j]]]
  <2>1. done = [j \in 1..n |-> [T[j] EXCEPT !.status = s[j]]]
    BY <1>7, <1>9, <1>11
  <2>2. ASSUME NEW j \in 1..n
        PROVE  [T[j] EXCEPT !.status = s[j]]
                 = [id |-> envs[kept[j]], number |-> kept[j] - 1, status |-> s[j]]
    <3>1. T[j] = [id |-> envs[kept[j]], number |-> kept[j] - 1, status |-> zero]
      BY <1>8
    <3> QED
      BY <3>1
  <2> QED
    BY <2>1, <2>2, Zenon
<1>14. Placed(T, n, len)
  <2>1. ASSUME NEW j \in 1..n PROVE T[j].number \in 0..(len - 1)
    BY <1>9
  <2>2. ASSUME NEW i \in 1..n, NEW j \in 1..n, i < j PROVE T[i].number < T[j].number
    <3>1. kept[i] < kept[j] /\ kept[i] \in Nat /\ kept[j] \in Nat
      BY <1>4, <2>2
    <3>2. T[i].number = kept[i] - 1 /\ T[j].number = kept[j] - 1
      BY <1>9
    <3> QED
      BY <3>1, <3>2
  <2> QED
    BY <1>9, <2>1, <2>2 DEF Placed
<1>15. PICK f \in Seq(Nat) : /\ f = Scattered(T, s, len)
            /\ \A j \in 1..n : \E c : c = f[T[j].number + 1] /\ StatusOfCode(c) = s[j]
  BY <1>14, <1>12, ScatteredIs
<1>16. ASSUME NEW j \in 1..n PROVE StatusOfCode(f[kept[j]]) = s[j]
  <2>1. T[j].number + 1 = kept[j]
    BY <1>9
  <2> QED
    BY <1>15, <2>1
<1>17. B = [envs |-> envs, filter |-> f]
  BY <1>2, <1>7, <1>11, <1>15
<1> HIDE DEF done, B
<1>18. B \in ChainBlocks
  BY <1>17 DEF ChainBlocks
<1>19. Parse(B) = done
  <2>1. Parse(B) = [j \in 1..n |-> ParseTx(B, kept[j])]
    BY <1>4, <1>5
  <2>2. ASSUME NEW j \in 1..n
        PROVE  ParseTx(B, kept[j]) = [id |-> envs[kept[j]], number |-> kept[j] - 1, status |-> s[j]]
    BY <1>17, <1>16 DEF ParseTx
  <2> QED
    BY <1>13, <2>1, <2>2
<1>20. PICK D : D = done
  OBVIOUS
<1>21. Validated(envs, D)
  <2>1. ASSUME NEW j \in 1..n
        PROVE  /\ kept[j] \in 1..Len(envs) /\ envs[kept[j]] \in TxIds /\ kept[j] - 1 \in Nat
               /\ D[j].id = envs[kept[j]] /\ D[j].number = kept[j] - 1
               /\ D[j].status = s[j] /\ D[j] \in Outcome
    <3>1. kept[j] \in 1..Len(envs) /\ envs[kept[j]] # Junk
      BY <1>2, <1>4
    <3>2. envs[kept[j]] \in TxIds /\ kept[j] - 1 \in Nat
      BY <1>2, <3>1
    <3>3. D[j] = [id |-> envs[kept[j]], number |-> kept[j] - 1, status |-> s[j]]
      BY <1>13, <1>20
    <3>4. s[j] \in {Committed, MVCCConflict}
      BY <1>12
    <3> QED
      BY <3>1, <3>2, <3>3, <3>4 DEF Outcome
  <2>2. D \in Seq(Outcome) /\ Len(D) = n
    <3>1. D \in [1..n -> Outcome]
      BY <1>13, <1>20, <2>1
    <3> QED
      BY <3>1
  <2>3. ASSUME NEW i \in 1..n, NEW j \in 1..n, i < j PROVE D[i].number < D[j].number
    <3>1. kept[i] < kept[j] /\ kept[i] \in Nat /\ kept[j] \in Nat
      BY <1>2, <1>4, <2>3
    <3>2. D[i].number = kept[i] - 1 /\ D[j].number = kept[j] - 1
      BY <2>1
    <3> QED
      BY <3>1, <3>2
  <2>4. ASSUME NEW j \in 1..n 
        PROVE  \E p : p = Written(D, j) /\ D[j].status = checkNs(D[j].id, p)
    <3>1. \A i \in 1..(j - 1) : i \in 1..n
      OBVIOUS
    <3>2. \A i \in 1..(j - 1) : D[i].id = T[i].id /\ D[i].status = s[i]
      BY <1>9, <2>1, <3>1, Zenon
    <3>3. {h \in 1..(j - 1) : Valid(D[h].status)} = {h \in 1..(j - 1) : Valid(s[h])}
      BY <3>2
    <3>4. Written(D, j) = Pending(T, s, j)
      BY <3>2, <3>3, Zenon DEF Written, Pending
    <3>5. PICK p : p = Pending(T, s, j) /\ s[j] = checkNs(T[j].id, p)
      BY <1>10
    <3>6. D[j].status = s[j] /\ D[j].id = T[j].id
      BY <1>9, <2>1, Zenon
    <3> QED
      BY <3>4, <3>5, <3>6
  <2>5. ASSUME NEW j \in 1..n PROVE \E i \in 1..Len(envs) : D[j].id = envs[i] /\ envs[i] # Junk
    BY <1>2, <1>4, <2>1
  <2> QED
    BY <2>2, <2>3, <2>4, <2>5, Zenon DEF Validated
<1> QED
  <2>1. D = Parse(B) /\ Validated(envs, D)
    BY <1>19, <1>20, <1>21
  <2>2. PICK W : W = WritesOf(D)
    OBVIOUS
  <2>3. ledger' = WithBlock(ledger, Len(chain), W)
    BY <1>1, <1>20, <2>2
  <2> QED
    BY <1>1, <1>5, <1>18, <2>1, <2>2, <2>3

-----------------------------------------------------------------------------
\* A new block.

\* L is R with the writes of the committed ones among txs as block b.
Extended(L, R, b, txs) ==
  /\ Table(L) /\ R \subseteq L
  /\ \A r \in L : r \in R \/
       /\ r.block = b
       /\ \E j \in 1..Len(txs) : /\ Valid(txs[j].status) /\ r.tx = txs[j].number
                                 /\ r.key \in WriteSet(txs[j].id)
  /\ \A j \in 1..Len(txs) : Valid(txs[j].status) =>
       \A k \in WriteSet(txs[j].id) :
         \E r \in L : r.key = k /\ r.block = b /\ r.tx = txs[j].number

\* If there are any, one of them is the last.
LEMMA PriorHasLast ==
  ASSUME NEW R, Table(R), NEW k \in Keys, NEW b \in Nat, NEW n \in Nat, Prior(R, k, b, n) # {}
  PROVE  \E m \in Prior(R, k, b, n) :
           /\ HighestVersion(Prior(R, k, b, n)) = m
           /\ \A q \in Prior(R, k, b, n) : q.version <= m.version
<1> DEFINE P == Prior(R, k, b, n)
           S == {v \in Nat : \A q \in P : q.version <= v}
<1>1. P \subseteq UpTo(R, k, b) /\ P \subseteq R /\ \A q \in P : q.key = k
  <2>1. R \subseteq Rows
    BY DEF Table
  <2>2. \A r \in R : r.block \in Nat
    BY <2>1 DEF Rows
  <2> QED
    BY <2>2 DEF Prior, UpTo, RowsOf
<1>2. \A q \in R : q.version \in Nat
  BY DEF Table, Rows
<1>3. PICK r \in UpTo(R, k, b) : \A q \in UpTo(R, k, b) : q.version <= r.version
  BY <1>1 DEF Table
<1> HIDE DEF P
<1>4. r.version \in S
  <2>1. r \in R
    BY DEF UpTo, RowsOf
  <2> QED
    BY <1>1, <1>2, <1>3, <2>1
<1>5. PICK v \in S : \A w \in S : v <= w
  BY <1>4, First, Zenon
<1>6. \E m \in P : m.version = v
  <2>1. CASE v = 0
    <3>1. PICK q \in P : TRUE
      BY DEF P
    <3>2. q.version <= 0 /\ q.version \in Nat
      BY <1>1, <1>2, <1>5, <2>1
    <3> QED
      BY <2>1, <3>2
  <2>2. CASE v # 0
    <3>1. v - 1 \in Nat /\ v - 1 \notin S
      BY <1>5, <2>2
    <3>2. PICK q \in P : ~(q.version <= v - 1)
      BY <3>1
    <3>3. q.version <= v /\ q.version \in Nat
      BY <1>1, <1>2, <1>5
    <3> QED
      BY <1>5, <3>2, <3>3
  <2> QED
    BY <2>1, <2>2
<1>7. PICK m \in P : m.version = v
  BY <1>6
<1>8. \A q \in P : q.key = m.key /\ q.version <= m.version
  BY <1>1, <1>5, <1>7
<1>9. HighestVersion(P) = m
  BY <1>1, <1>8, HighestIs
<1> QED
  BY <1>8, <1>9 DEF P

\* The writes of a block are what WithBlock expects.
LEMMA BlockRows ==
  ASSUME TypeInv, LedgerInv, NEW envs, NEW txs, Validated(envs, txs),
         NEW R, R = ledger, NEW b \in Nat, b = Len(chain),
         NEW W, W = WritesOf(txs), NEW L, L = WithBlock(R, b, W)
  PROVE  Extended(L, R, b, txs)
<1> DEFINE num == [j \in 1..Len(txs) |-> txs[j].number]
           n == Len(txs)
<1>1. txs \in Seq(Outcome) /\ n \in Nat
  BY DEF Validated
<1>2. W = [j \in 1..n |->
             {[tx |-> txs[j].number, key |-> k, valid |-> Valid(txs[j].status),
               content |-> [by |-> txs[j].id, kind |-> Decoded(sim[txs[j].id].writes[k])]] :
                k \in WriteSet(txs[j].id)}]
  BY <1>1 DEF WritesOf
<1>3. Len(W) = n
  BY <1>1, <1>2
<1>4. ASSUME NEW j \in 1..n, NEW w \in W[j]
      PROVE  /\ w \in Writes /\ w.tx = txs[j].number /\ w.key \in WriteSet(txs[j].id)
             /\ w.valid = Valid(txs[j].status)
             /\ \A x \in W[j] : w.key = x.key => w = x
  <2>1. txs[j] \in Outcome
    BY <1>1
  <2>2. txs[j].id \in TxIds /\ txs[j].number \in Nat /\ Valid(txs[j].status) \in BOOLEAN
    BY <2>1 DEF Outcome, Valid
  <2>3. ASSUME NEW k \in WriteSet(txs[j].id)
        PROVE  /\ k \in Keys
               /\ [by |-> txs[j].id, kind |-> Decoded(sim[txs[j].id].writes[k])] \in Contents
    <3>1. k \in Keys /\ sim[txs[j].id].writes[k] # None
      BY DEF WriteSet
    <3>2. sim[txs[j].id] \in Sims
      BY <2>2 DEF TypeInv
    <3>3. sim[txs[j].id].writes[k] \in {"put", "del"}
      BY <3>1, <3>2 DEF Sims
    <3>4. Decoded(sim[txs[j].id].writes[k]) \in {"value", "empty", "delete"}
      BY <3>3 DEF Decoded
    <3> QED
      BY <2>2, <3>1, <3>4, ExecutionAssumption, Zenon
  <2>4. PICK k \in WriteSet(txs[j].id) :
          w = [tx |-> txs[j].number, key |-> k, valid |-> Valid(txs[j].status),
               content |-> [by |-> txs[j].id, kind |-> Decoded(sim[txs[j].id].writes[k])]]
    BY <1>2
  <2>5. w \in Writes
    BY <2>2, <2>3, <2>4, Zenon DEF Writes
  <2>6. ASSUME NEW x \in W[j], w.key = x.key PROVE w = x
    <3>1. PICK i \in WriteSet(txs[j].id) :
            x = [tx |-> txs[j].number, key |-> i, valid |-> Valid(txs[j].status),
                 content |-> [by |-> txs[j].id, kind |-> Decoded(sim[txs[j].id].writes[i])]]
      BY <1>2
    <3> QED
      BY <2>4, <2>6, <3>1, Zenon
  <2> QED
    BY <2>4, <2>5, <2>6
<1>5. ASSUME NEW j \in 1..n, NEW k \in WriteSet(txs[j].id)
      PROVE  \E w \in W[j] : /\ w.key = k /\ w.tx = txs[j].number
                             /\ w.valid = Valid(txs[j].status)
  <2> DEFINE w == [tx |-> txs[j].number, key |-> k, valid |-> Valid(txs[j].status),
                   content |-> [by |-> txs[j].id, kind |-> Decoded(sim[txs[j].id].writes[k])]]
  <2>1. w \in W[j]
    BY <1>2, Zenon
  <2>2. w.key = k /\ w.tx = txs[j].number /\ w.valid = Valid(txs[j].status)
    OBVIOUS
  <2> HIDE DEF w
  <2> QED
    BY <2>1, <2>2, Zenon
<1> HIDE DEF n
<1>6. Numbered(W, num)
  <2>1. ASSUME NEW j \in 1..n PROVE num[j] = txs[j].number /\ num[j] \in Nat
    <3>1. txs[j] \in Outcome
      BY <1>1 DEF n
    <3>2. num[j] = txs[j].number
      BY DEF n
    <3> QED
      BY <3>1, <3>2 DEF Outcome
  <2>2. \A i, j \in 1..n : i < j => num[i] < num[j]
    BY <2>1 DEF Validated, n
  <2> HIDE DEF num
  <2>3. \A j \in 1..n : /\ num[j] \in Nat /\ W[j] \subseteq Writes
                        /\ \A w \in W[j] : w.tx = num[j]
                        /\ \A w, x \in W[j] : w.key = x.key => w = x
    BY <1>4, <2>1
  <2> QED
    BY <1>1, <1>3, <2>2, <2>3 DEF Numbered
<1>7. Table(R) /\ \A r \in R : r.block < b
  BY DEF LedgerInv
<1>8. Stored(L, R, b, W, n)
  <2>1. PICK m : m = num
    BY Zenon
  <2>2. L = WithBlock(R, b, W) /\ Numbered(W, m)
    BY <1>6, <2>1
  <2> QED
    BY <1>3, <1>7, <2>2, WithBlockIs
<1>9. /\ Table(L) /\ R \subseteq L
      /\ \A r \in L : r \in R \/ \E j \in 1..n : \E w \in W[j] : w.valid /\ Is(r, b, w)
      /\ \A j \in 1..n : \A w \in W[j] : w.valid => \E r \in L : Is(r, b, w)
  BY <1>8 DEF Stored
<1>10. ASSUME NEW r \in L, r \notin R
       PROVE  /\ r.block = b
              /\ \E j \in 1..n : /\ Valid(txs[j].status) /\ r.tx = txs[j].number
                                 /\ r.key \in WriteSet(txs[j].id)
  <2>1. PICK j \in 1..n : \E w \in W[j] : w.valid /\ Is(r, b, w)
    BY <1>9, <1>10
  <2>2. PICK w \in W[j] : w.valid /\ Is(r, b, w)
    BY <2>1
  <2>3. /\ w.tx = txs[j].number /\ w.key \in WriteSet(txs[j].id) /\ w.valid = Valid(txs[j].status)
    BY <1>4
  <2> QED
    BY <2>2, <2>3 DEF Is
<1>11. ASSUME NEW j \in 1..n, Valid(txs[j].status), NEW k \in WriteSet(txs[j].id)
       PROVE  \E r \in L : r.key = k /\ r.block = b /\ r.tx = txs[j].number
  <2>1. PICK w \in W[j] : w.key = k /\ w.tx = txs[j].number /\ w.valid = Valid(txs[j].status)
    BY <1>5, Zenon
  <2>2. PICK r \in L : Is(r, b, w)
    BY <1>9, <1>11, <2>1, Zenon
  <2> QED
    BY <2>1, <2>2 DEF Is
<1> QED
  BY <1>9, <1>10, <1>11 DEF Extended, n

\* A version names a row of a key, and is never the missing one.
LEMMA VersionOfIs ==
  ASSUME NEW R, Table(R)
  PROVE  /\ \A r \in R : VersionOf(r) # Nil
         /\ \A r, q \in R : r.key = q.key /\ VersionOf(r) = VersionOf(q) => r = q
<1>1. \A r \in R : VersionOf(r) # Nil
  BY DEF VersionOf, Nil
<1>2. ASSUME NEW r \in R, NEW q \in R, r.key = q.key, VersionOf(r) = VersionOf(q)
      PROVE  r = q
  <2>1. CASE monotonicVersions
    <3>1. r.version = q.version
      BY <1>2, <2>1 DEF VersionOf
    <3> QED
      BY <1>2, <3>1, VersionsAreUnique
  <2>2. CASE ~monotonicVersions
    <3>1. r.block = q.block /\ r.tx = q.tx
      BY <1>2, <2>2 DEF VersionOf
    <3> QED
      BY <1>2, <3>1 DEF Table
  <2> QED
    BY <2>1, <2>2
<1> QED
  BY <1>1, <1>2

\* Validated transactions are numbered in order.
LEMMA ValidatedIs ==
  ASSUME NEW envs, NEW txs, Validated(envs, txs)
  PROVE  /\ txs \in Seq(Outcome) /\ Len(txs) \in Nat /\ DOMAIN txs = 1..Len(txs)
         /\ \A i \in 1..Len(txs) : txs[i] \in Outcome /\ txs[i].number \in Nat
         /\ \A i, h \in 1..Len(txs) : i < h => txs[i].number < txs[h].number
<1>1. txs \in Seq(Outcome)
  BY DEF Validated
<1>2. \A i \in 1..Len(txs) : txs[i] \in Outcome
  BY <1>1
<1>3. \A x \in Outcome : x.number \in Nat
  BY DEF Outcome
<1>4. \A i, h \in 1..Len(txs) : i < h => txs[i].number < txs[h].number
  BY Zenon DEF Validated
<1> QED
  BY <1>1, <1>2, <1>3, <1>4

\* What a transaction reads of a key that nobody before it in its block writes is
\* the ledger's latest record.
LEMMA NotWritten ==
  ASSUME NEW R, Table(R), NEW b \in Nat, \A r \in R : r.block < b,
         NEW envs, NEW txs, Validated(envs, txs), NEW L, Extended(L, R, b, txs),
         NEW j \in 1..Len(txs), NEW k, k \notin Written(txs, j)
  PROVE  Prior(L, k, b, txs[j].number) = RowsOf(R, k)
<1>1. /\ txs \in Seq(Outcome)
      /\ \A i \in 1..Len(txs) : txs[i].number \in Nat
      /\ \A i, h \in 1..Len(txs) : i < h => txs[i].number < txs[h].number
  BY ValidatedIs, Zenon
<1>2. ASSUME NEW r \in L, r.key = k, r \notin R, ~(r.block < b), r.tx < txs[j].number
      PROVE  FALSE
  <2>1. PICK i \in 1..Len(txs) : /\ Valid(txs[i].status) /\ r.tx = txs[i].number
                                 /\ r.key \in WriteSet(txs[i].id)
    BY <1>2 DEF Extended
  <2>2. i < j
    <3>1. i \in Nat /\ j \in Nat
      BY <1>1
    <3>2. i # j /\ ~(j < i)
      BY <1>1, <1>2, <2>1
    <3> QED
      BY <3>1, <3>2
  <2>3. i \in 1..(j - 1)
    BY <1>1, <2>2
  <2>4. k \in Written(txs, j)
    BY <1>2, <2>1, <2>3 DEF Written
  <2> QED
    BY <2>4
<1>3. \A r \in L : r \in R \/ (r.block = b /\ ~(r.block < b))
  BY DEF Extended
<1>4. R \subseteq L
  BY DEF Extended
<1> QED
  BY <1>2, <1>3, <1>4 DEF Prior, RowsOf

\* Of a key that a committed one before it writes, the latest record is new.
LEMMA JustWritten ==
  ASSUME NEW R, NEW b \in Nat, NEW envs, NEW txs, Validated(envs, txs),
         NEW L, Extended(L, R, b, txs),
         NEW j \in 1..Len(txs), NEW k \in Keys, k \in Written(txs, j)
  PROVE  \E m \in Rows : HighestVersion(Prior(L, k, b, txs[j].number)) = m /\ m.block = b
<1>1. /\ txs \in Seq(Outcome)
      /\ \A i \in 1..Len(txs) : txs[i].number \in Nat
      /\ \A i, h \in 1..Len(txs) : i < h => txs[i].number < txs[h].number
  BY ValidatedIs
<1>2. PICK i \in 1..(j - 1) : Valid(txs[i].status) /\ k \in WriteSet(txs[i].id)
  BY DEF Written
<1>3. i \in 1..Len(txs) /\ i < j
  BY <1>1
<1>4. PICK r \in L : r.key = k /\ r.block = b /\ r.tx = txs[i].number
  BY <1>2, <1>3 DEF Extended
<1>5. PICK n \in Nat : n = txs[j].number
  BY <1>1
<1>6. r \in Prior(L, k, b, n)
  BY <1>1, <1>3, <1>4, <1>5 DEF Prior, RowsOf
<1>7. Table(L)
  BY DEF Extended
<1>8. PICK m \in Prior(L, k, b, n) :
           /\ HighestVersion(Prior(L, k, b, n)) = m
           /\ \A q \in Prior(L, k, b, n) : q.version <= m.version
  BY <1>6, <1>7, PriorHasLast
<1>9. m \in L /\ m.key = k /\ (m.block < b \/ m.block = b)
  BY DEF Prior, RowsOf
<1>10. m \in Rows /\ r \in Rows /\ L \subseteq Rows
  BY <1>7, <1>9 DEF Table
<1>11. ~(m.block < b)
  <2> SUFFICES ASSUME m.block < b PROVE FALSE
    OBVIOUS
  <2>1. Earlier(m, r)
    BY <1>4 DEF Earlier
  <2>2. m.version < r.version
    BY <1>4, <1>7, <1>9, <2>1 DEF Table
  <2>3. r.version <= m.version /\ r.version \in Nat /\ m.version \in Nat
    BY <1>6, <1>8, <1>10 DEF Rows
  <2> QED
    BY <2>2, <2>3
<1> QED
  BY <1>5, <1>8, <1>9, <1>10, <1>11

\* The record a snapshot shows of a key, and the ledger's latest one.
LEMMA LatestIs ==
  ASSUME NEW R, Table(R), NEW b \in Nat, \A r \in R : r.block < b, NEW k \in Keys, NEW n \in Nat
  PROVE  /\ (Get(R, k) = NoRecord /\ RowsOf(R, k) = {}) \/ (Get(R, k) \in R /\ Get(R, k).key = k)
         /\ GetAt(R, k, n) = NoRecord \/ (GetAt(R, k, n) \in R /\ GetAt(R, k, n).key = k)
         /\ Get(R, k) # NoRecord /\ Get(R, k).block <= n => GetAt(R, k, n) = Get(R, k)
<1>1. PICK cur, rec : cur = Get(R, k) /\ rec = GetAt(R, k, n)
  OBVIOUS
<1>2. \A r \in R : r \in Rows /\ r.block \in Nat /\ r.version \in Nat
  BY DEF Table, Rows
<1>3. cur = GetAt(R, k, b) /\ UpTo(R, k, b) = RowsOf(R, k)
  <2>1. \A r \in RowsOf(R, k) : r.block <= b
    BY <1>2 DEF RowsOf
  <2> QED
    BY <1>1, <2>1, GetIsGetAt
<1>4. \/ cur = NoRecord /\ RowsOf(R, k) = {}
      \/ /\ cur \in RowsOf(R, k)
         /\ \A q \in RowsOf(R, k) : q.version <= cur.version
  BY <1>3, GetAtIs
<1>5. \/ rec = NoRecord /\ UpTo(R, k, n) = {}
      \/ /\ rec \in UpTo(R, k, n)
         /\ \A q \in UpTo(R, k, n) : q.version <= rec.version
  BY <1>1, GetAtIs
<1>6. ASSUME cur # NoRecord, cur.block <= n PROVE rec = cur
  <2>1. cur \in UpTo(R, k, n) /\ cur \in R /\ cur.key = k
    BY <1>4, <1>6 DEF UpTo, RowsOf
  <2>2. rec \in RowsOf(R, k) /\ rec \in R /\ rec.key = k /\ cur.version <= rec.version
    BY <1>5, <2>1 DEF UpTo, RowsOf
  <2>3. rec.version <= cur.version
    BY <1>4, <1>6, <2>2
  <2>4. rec.version = cur.version
    BY <1>2, <2>1, <2>2, <2>3
  <2> QED
    BY <2>1, <2>2, <2>4, VersionsAreUnique
<1>7. \A r \in RowsOf(R, k) : r \in R /\ r.key = k
  BY DEF RowsOf
<1>8. UpTo(R, k, n) \subseteq RowsOf(R, k)
  BY DEF UpTo
<1> QED
  BY <1>1, <1>4, <1>5, <1>6, <1>7, <1>8

\* The validator accepts what is current and refuses what is not.
LEMMA NewBlockIsRight ==
  ASSUME TypeInv, LedgerInv, SnapshotInv,
         NEW R, R = ledger, NEW b \in Nat, b = Len(chain),
         NEW envs, NEW txs, Validated(envs, txs), NEW L, Extended(L, R, b, txs),
         NEW j \in 1..Len(txs), NEW tx, tx = txs[j]
  PROVE  CurrentReads(L, b, tx) /\ RealConflict(L, b, tx)
<1>1. Table(R) /\ \A r \in R : r.block < b
  BY DEF LedgerInv
<1>2. tx \in Outcome
  BY ValidatedIs
<1>3. PICK t \in TxIds : \E n \in Nat : t = tx.id /\ n = tx.number
  BY <1>2 DEF Outcome
<1>4. PICK n \in Nat : t = tx.id /\ n = tx.number
  BY <1>3
<1>5. PICK p : p = Written(txs, j) /\ tx.status = checkNs(t, p)
  BY <1>4 DEF Validated
<1>6. PICK s \in Sims : s = sim[t]
  BY DEF TypeInv
<1>7. s.block \in Nat /\ s.block < b
  <2>1. s.block \in Nat
    BY DEF Sims
  <2>2. s.block <= (IF last = -1 THEN 0 ELSE last)
    BY <1>6 DEF SnapshotInv
  <2>3. last \in Nat \cup {-1} /\ last < b /\ b >= 1
    BY DEF TypeInv
  <2> QED
    BY <2>1, <2>2, <2>3
<1>8. ASSUME NEW k \in Reads(t)
      PROVE  /\ k \in Keys
             /\ \E rec, cur :
                  /\ rec = GetAt(R, k, s.block) /\ cur = Get(R, k)
                  /\ s.got[k] = ValueOf(rec)
                  /\ \/ rec = NoRecord /\ s.reads[k] = Nil
                     \/ /\ rec # NoRecord /\ rec.content.kind # "delete"
                        /\ s.reads[k] = VersionOf(rec)
                  /\ (cur = NoRecord /\ RowsOf(R, k) = {}) \/ (cur \in R /\ cur.key = k)
                  /\ rec = NoRecord \/ (rec \in R /\ rec.key = k)
                  /\ cur # NoRecord /\ cur.block <= s.block => rec = cur
  <2>1. k \in Keys /\ s.reads[k] # None
    BY <1>6 DEF Reads
  <2>2. Saw(t, k)
    BY <1>6, <2>1 DEF SnapshotInv
  <2>3. PICK rec, cur : rec = GetAt(R, k, s.block) /\ cur = Get(R, k)
    OBVIOUS
  <2>4. /\ s.got[k] = ValueOf(rec)
        /\ \/ rec = NoRecord /\ s.reads[k] = Nil
           \/ /\ rec # NoRecord /\ rec.content.kind # "delete"
              /\ s.reads[k] = VersionOf(rec)
    BY <1>6, <2>2, <2>3, Zenon DEF Saw
  <2>5. /\ (cur = NoRecord /\ RowsOf(R, k) = {}) \/ (cur \in R /\ cur.key = k)
        /\ rec = NoRecord \/ (rec \in R /\ rec.key = k)
        /\ cur # NoRecord /\ cur.block <= s.block => rec = cur
    BY <1>1, <1>7, <2>1, <2>3, LatestIs, Zenon
  <2> QED
    BY <2>1, <2>3, <2>4, <2>5
<1>9. ASSUME NEW k \in Reads(t), k \notin p
      PROVE  HighestVersion(Prior(L, k, b, tx.number)) = Get(R, k)
  <2>1. Prior(L, k, b, txs[j].number) = RowsOf(R, k)
    BY <1>1, <1>5, <1>9, NotWritten
  <2> QED
    BY <2>1 DEF Get
<1>10. R \subseteq Rows /\ NoRecord \notin R
  BY <1>1, NoRecordAssumption, Zenon DEF Table
<1>11. CurrentReads(L, b, tx)
  <2> SUFFICES ASSUME Valid(tx.status), NEW k \in Reads(t)
               PROVE  s.got[k] = ValueOf(HighestVersion(Prior(L, k, b, tx.number)))
    BY <1>4, <1>6, Zenon DEF CurrentReads
  <2>1. Reads(t) \cap p = {} /\ ReadHolds(k, s.reads[k])
    BY <1>5, <1>6, Zenon DEF checkNs, Valid, Committed, MVCCConflict
  <2>2. PICK rec, cur :
                  /\ rec = GetAt(R, k, s.block) /\ cur = Get(R, k)
                  /\ s.got[k] = ValueOf(rec)
                  /\ \/ rec = NoRecord /\ s.reads[k] = Nil
                     \/ /\ rec # NoRecord /\ rec.content.kind # "delete"
                        /\ s.reads[k] = VersionOf(rec)
                  /\ (cur = NoRecord /\ RowsOf(R, k) = {}) \/ (cur \in R /\ cur.key = k)
                  /\ rec = NoRecord \/ (rec \in R /\ rec.key = k)
    BY <1>8, Zenon
  <2>3. IF cur = NoRecord \/ cur.content.kind = "delete" THEN s.reads[k] = Nil
        ELSE s.reads[k] = VersionOf(cur)
    BY <2>1, <2>2, Zenon DEF ReadHolds
  <2>4. HighestVersion(Prior(L, k, b, tx.number)) = cur
    BY <1>9, <2>1, <2>2, Zenon
  <2>5. ValueOf(rec) = ValueOf(cur)
    <3>1. CASE cur = NoRecord \/ cur.content.kind = "delete"
      <4>1. ValueOf(cur) = None
        BY <3>1 DEF ValueOf
      <4>2. rec = NoRecord
        BY <1>1, <2>2, <2>3, <3>1, VersionOfIs
      <4> QED
        BY <4>1, <4>2 DEF ValueOf
    <3>2. CASE ~(cur = NoRecord \/ cur.content.kind = "delete")
      <4>1. cur \in R /\ s.reads[k] = VersionOf(cur)
        BY <2>2, <2>3, <3>2, Zenon
      <4>2. rec \in R /\ VersionOf(rec) = VersionOf(cur) /\ rec.key = cur.key
        BY <1>1, <2>2, <3>2, <4>1, VersionOfIs, Zenon
      <4> QED
        BY <1>1, <4>1, <4>2, VersionOfIs, Zenon
    <3> QED
      BY <3>1, <3>2
  <2> QED
    BY <2>2, <2>4, <2>5, Zenon
<1>12. RealConflict(L, b, tx)
  <2> SUFFICES ASSUME ~Valid(tx.status)
               PROVE  \E k \in Reads(t) : \E rec :
                        /\ rec = HighestVersion(Prior(L, k, b, tx.number))
                        /\ rec # NoRecord /\ rec.block > s.block
                        /\ \/ rec.content.kind # "delete"
                           \/ s.reads[k] # Nil
                           \/ rec.block = b
    BY <1>4, <1>6, Zenon DEF RealConflict
  <2>1. \/ \E k \in Reads(t) : k \in p
        \/ \E k \in Reads(t) : k \notin p /\ ~ReadHolds(k, s.reads[k])
    BY <1>5, <1>6 DEF checkNs, Valid, Committed, MVCCConflict
  <2>2. ASSUME NEW k \in Reads(t), k \in p
        PROVE  \E rec : /\ rec = HighestVersion(Prior(L, k, b, tx.number))
                        /\ rec # NoRecord /\ rec.block > s.block /\ rec.block = b
    <3>1. k \in Keys
      BY DEF Reads
    <3>2. k \in Written(txs, j)
      BY <1>5, <2>2, Zenon
    <3>3. \E m \in Rows : HighestVersion(Prior(L, k, b, txs[j].number)) = m /\ m.block = b
      BY <3>1, <3>2, JustWritten
    <3>4. PICK m \in Rows : HighestVersion(Prior(L, k, b, tx.number)) = m /\ m.block = b
      BY <3>3, Zenon
    <3> QED
      BY <1>7, <3>4, NoRecordAssumption
  <2>3. ASSUME NEW k \in Reads(t), k \notin p, ~ReadHolds(k, s.reads[k])
        PROVE  \E rec : /\ rec = HighestVersion(Prior(L, k, b, tx.number))
                        /\ rec # NoRecord /\ rec.block > s.block
                        /\ rec.content.kind # "delete" \/ s.reads[k] # Nil
    <3>1. PICK rec, cur :
                  /\ rec = GetAt(R, k, s.block) /\ cur = Get(R, k)
                  /\ \/ rec = NoRecord /\ s.reads[k] = Nil
                     \/ /\ rec # NoRecord /\ rec.content.kind # "delete"
                        /\ s.reads[k] = VersionOf(rec)
                  /\ (cur = NoRecord /\ RowsOf(R, k) = {}) \/ (cur \in R /\ cur.key = k)
                  /\ rec = NoRecord \/ (rec \in R /\ rec.key = k)
                  /\ cur # NoRecord /\ cur.block <= s.block => rec = cur
      BY <1>8, Zenon
    <3>2. ~IF cur = NoRecord \/ cur.content.kind = "delete" THEN s.reads[k] = Nil
           ELSE s.reads[k] = VersionOf(cur)
      BY <2>3, <3>1 DEF ReadHolds
    <3>3. cur # NoRecord
      <4> SUFFICES ASSUME cur = NoRecord PROVE FALSE
        OBVIOUS
      <4>1. rec \in R /\ rec.key = k /\ RowsOf(R, k) = {}
        BY <1>10, <3>1, <3>2
      <4> QED
        BY <4>1 DEF RowsOf
    <3>4. cur \in Rows /\ cur.block \in Nat
      BY <1>10, <3>1, <3>3 DEF Rows
    <3>5. ~(cur.block <= s.block)
      BY <3>1, <3>2, <3>3
    <3>6. cur.content.kind # "delete" \/ s.reads[k] # Nil
      BY <3>2
    <3>7. cur.block > s.block
      BY <1>7, <3>4, <3>5
    <3>8. cur = HighestVersion(Prior(L, k, b, tx.number))
      BY <1>9, <2>3, <3>1, Zenon
    <3> QED
      BY <3>3, <3>6, <3>7, <3>8, Zenon
  <2> QED
    BY <2>1, <2>2, <2>3, Zenon
<1> QED
  BY <1>11, <1>12

-----------------------------------------------------------------------------
\* What is settled stays settled.

\* Parse depends on the block and the kind of network only.
LEMMA ParseFrame ==
  ASSUME monotonicVersions' = monotonicVersions, NEW B
  PROVE  Parse(B)' = Parse(B)
BY Zenon DEF Parse, ParseTx, StatusOfCode

\* So do the writes of transactions whose simulations do not change.
LEMMA WritesFrame ==
  ASSUME monotonicVersions' = monotonicVersions, NEW txs,
         \A j \in DOMAIN txs : sim'[txs[j].id] = sim[txs[j].id]
  PROVE  WritesOf(txs)' = WritesOf(txs)
<1>1. ASSUME NEW j \in DOMAIN txs
      PROVE  /\ WriteSet(txs[j].id)' = WriteSet(txs[j].id)
             /\ \A k : Decoded(sim[txs[j].id].writes[k])' = Decoded(sim[txs[j].id].writes[k])
  BY Zenon DEF WriteSet, Decoded
<1>2. ASSUME NEW j \in DOMAIN txs
      PROVE  {[tx |-> txs[j].number, key |-> k, valid |-> Valid(txs[j].status),
               content |-> [by |-> txs[j].id, kind |-> Decoded(sim[txs[j].id].writes[k])]] :
                k \in WriteSet(txs[j].id)}'
             = {[tx |-> txs[j].number, key |-> k, valid |-> Valid(txs[j].status),
                 content |-> [by |-> txs[j].id, kind |-> Decoded(sim[txs[j].id].writes[k])]] :
                  k \in WriteSet(txs[j].id)}
  BY <1>1
<1> QED
  BY <1>2, Zenon DEF WritesOf

\* And the judgement on a transaction, while the rows before it stay.
LEMMA RightFrame ==
  ASSUME NEW tx, sim'[tx.id] = sim[tx.id], NEW b, NEW R, NEW Q,
         \A k : Prior(R, k, b, tx.number) = Prior(Q, k, b, tx.number),
         CurrentReads(R, b, tx), RealConflict(R, b, tx)
  PROVE  CurrentReads(Q, b, tx)' /\ RealConflict(Q, b, tx)'
<1>1. Reads(tx.id)' = Reads(tx.id)
  BY DEF Reads
<1>2. CurrentReads(Q, b, tx)'
  BY <1>1, Zenon DEF CurrentReads
<1>3. RealConflict(Q, b, tx)'
  BY <1>1, Zenon DEF RealConflict
<1> QED
  BY <1>2, <1>3

\* What is in the chain was endorsed.
LEMMA ParsedIs ==
  ASSUME TypeInv, EnvelopesInv, NEW b \in 0..(Len(chain) - 1), NEW txs, ParsedAt(b, txs)
  PROVE  \A j \in DOMAIN txs : txs[j].id \in TxIds /\ sim[txs[j].id].st = "endorsed"
<1>1. PICK B : B = chain[b + 1] /\ txs = Parse(B)
  BY DEF ParsedAt
<1>2. B \in ChainBlocks
  <2>1. Len(chain) \in Nat /\ b + 1 \in 1..Len(chain) /\ chain \in Seq(ChainBlocks)
    BY DEF TypeInv
  <2> QED
    BY <1>1, <2>1
<1>3. PICK envs \in Seq(TxIds \cup {Junk}) : envs = B.envs
  BY <1>2 DEF ChainBlocks
<1>4. PICK n \in Nat : \E kept : Kept(envs, n, kept)
  BY ParseIs, Zenon
<1>5. PICK kept \in [1..n -> 1..Len(envs)] :
      /\ \A j \in 1..n : envs[kept[j]] # Junk
      /\ \A C : C.envs = envs => Parse(C) = [j \in 1..n |-> ParseTx(C, kept[j])]
  BY <1>4, Zenon DEF Kept
<1>6. txs = [j \in 1..n |-> ParseTx(B, kept[j])]
  BY <1>1, <1>3, <1>5
<1>7. ASSUME NEW j \in DOMAIN txs
      PROVE  txs[j].id \in TxIds /\ sim[txs[j].id].st = "endorsed"
  <2>1. j \in 1..n
    BY <1>6
  <2>2. txs[j].id = envs[kept[j]]
    BY <1>3, <1>6, <2>1 DEF ParseTx
  <2>3. kept[j] \in 1..Len(envs) /\ envs[kept[j]] # Junk
    BY <1>5, <2>1
  <2>4. envs[kept[j]] \in TxIds
    BY <2>3
  <2>5. sim[envs[kept[j]]].st = "endorsed"
    BY <1>1, <1>3, <2>3, Zenon DEF EnvelopesInv
  <2> QED
    BY <2>2, <2>4, <2>5
<1> QED
  BY <1>7

\* A parsed block is parsed again to the same.
LEMMA ParsedFrame ==
  ASSUME monotonicVersions' = monotonicVersions, NEW b, chain'[b + 1] = chain[b + 1],
         NEW txs, ParsedAt(b, txs)'
  PROVE  ParsedAt(b, txs)
<1>1. PICK B : B = chain'[b + 1] /\ txs = Parse(B)'
  BY DEF ParsedAt
<1>2. txs = Parse(B)
  BY <1>1, ParseFrame
<1> QED
  BY <1>1, <1>2 DEF ParsedAt

\* The steps of endorsers and replicas.
LEMMA OtherSteps ==
  ASSUME Inv, monotonicVersions' = monotonicVersions, chain' = chain, ledger' = ledger,
         \A t \in TxIds : sim[t].st = "endorsed" => sim'[t] = sim[t]
  PROVE  LedgerInv' /\ EnvelopesInv' /\ LayersInv' /\ RightInv'
<1>1. LedgerInv'
  BY DEF Inv, LedgerInv
<1>2. EnvelopesInv'
  <2> SUFFICES ASSUME NEW b \in 0..(Len(chain) - 1), NEW i \in 1..Len(chain[b + 1].envs),
                      NEW t, t = chain[b + 1].envs[i], t # Junk
               PROVE  sim'[t].st = "endorsed"
    BY DEF EnvelopesInv
  <2>1. sim[t].st = "endorsed"
    BY DEF Inv, EnvelopesInv
  <2>2. t \in TxIds
    <3>1. Len(chain) \in Nat /\ b + 1 \in 1..Len(chain) /\ chain \in Seq(ChainBlocks)
      BY DEF Inv, TypeInv
    <3>2. chain[b + 1] \in ChainBlocks
      BY <3>1
    <3>3. chain[b + 1].envs \in Seq(TxIds \cup {Junk})
      BY <3>2 DEF ChainBlocks
    <3> QED
      BY <3>3
  <2> QED
    BY <2>1, <2>2
<1>3. ASSUME NEW b \in 0..(Len(chain) - 1), NEW txs, ParsedAt(b, txs)'
      PROVE  ParsedAt(b, txs) /\ \A j \in DOMAIN txs : sim'[txs[j].id] = sim[txs[j].id]
  <2>1. ParsedAt(b, txs)
    BY <1>3, ParsedFrame
  <2>2. \A j \in DOMAIN txs : txs[j].id \in TxIds /\ sim[txs[j].id].st = "endorsed"
    BY <2>1, ParsedIs DEF Inv
  <2> QED
    BY <2>1, <2>2
<1>4. LayersInv'
  <2> SUFFICES ASSUME NEW b \in 0..(Len(chain) - 1), NEW txs, NEW W,
                      ParsedAt(b, txs)', W = WritesOf(txs)'
               PROVE  LedgerAt(b) = WithBlock(LedgerAt(b - 1), b, W)
    BY DEF LayersInv, LedgerAt
  <2>1. ParsedAt(b, txs) /\ W = WritesOf(txs)
    BY <1>3, WritesFrame, Zenon
  <2> QED
    BY <2>1 DEF Inv, LayersInv
<1>5. RightInv'
  <2> SUFFICES ASSUME NEW b \in 0..(Len(chain) - 1), NEW txs, NEW R,
                      ParsedAt(b, txs)', R = ledger, NEW tx \in Elements(txs)
               PROVE  CurrentReads(R, b, tx)' /\ RealConflict(R, b, tx)'
    BY DEF RightInv
  <2>1. ParsedAt(b, txs) /\ sim'[tx.id] = sim[tx.id]
    BY <1>3 DEF Elements
  <2>2. CurrentReads(R, b, tx) /\ RealConflict(R, b, tx)
    BY <2>1, Zenon DEF Inv, RightInv
  <2> QED
    BY <2>1, <2>2, RightFrame, Zenon
<1> QED
  BY <1>1, <1>2, <1>4, <1>5

\* A new block leaves the blocks before it, and what they wrote, as they are.
LEMMA ProcessStep ==
  ASSUME Inv, NEW m \in 0..MaxTxPerBlock, NEW envs \in [1..m -> Envelopes], process(envs)
  PROVE  Inv'
<1>1. /\ envs \in Seq(TxIds \cup {Junk})
      /\ \A i \in 1..Len(envs) : envs[i] = Junk \/ sim[envs[i]].st = "endorsed"
  <2>1. envs \in [1..m -> Envelopes]
    OBVIOUS
  <2>2. m \in Nat
    BY ExecutionAssumption
  <2>3. \A e \in Envelopes : e \in TxIds \cup {Junk} /\ (e = Junk \/ sim[e].st = "endorsed")
    BY DEF Envelopes
  <2>4. envs \in [1..m -> TxIds \cup {Junk}] /\ Len(envs) = m
    BY <2>1, <2>2, <2>3
  <2> QED
    BY <2>1, <2>2, <2>3, <2>4
<1>2. PICK B \in ChainBlocks : \E txs, W :
           /\ chain' = Append(chain, B) /\ B.envs = envs
           /\ txs = Parse(B) /\ Validated(envs, txs)
           /\ W = WritesOf(txs) /\ ledger' = WithBlock(ledger, Len(chain), W)
  BY <1>1, ProcessIs
<1>3. PICK txs, W :
           /\ chain' = Append(chain, B) /\ B.envs = envs
           /\ txs = Parse(B) /\ Validated(envs, txs)
           /\ W = WritesOf(txs) /\ ledger' = WithBlock(ledger, Len(chain), W)
  BY <1>2
<1>4. UNCHANGED <<monotonicVersions, sim, rows, last>>
  BY DEF process
<1>5. TypeInv /\ chain \in Seq(ChainBlocks) /\ Len(chain) \in Nat /\ Len(chain) >= 1
  BY DEF Inv, TypeInv
<1>6. PICK R : R = ledger
  OBVIOUS
<1>7. PICK b \in Nat : b = Len(chain)
  BY <1>5
<1>8. PICK L : L = ledger'
  OBVIOUS
<1>9. Extended(L, R, b, txs)
  <2>1. L = WithBlock(R, b, W)
    BY <1>3, <1>6, <1>7, <1>8, Zenon
  <2> QED
    BY <1>3, <1>6, <1>7, <2>1, BlockRows, Zenon DEF Inv
<1>10. /\ Table(L) /\ R \subseteq L
       /\ \A r \in L : r \in R \/ r.block = b
       /\ \A r \in R : r.block \in Nat /\ r.block >= 1 /\ r.block < b
  <2>1. \A r \in R : r.block \in Nat
    BY <1>6, Zenon DEF Inv, LedgerInv, Table, Rows
  <2> QED
    BY <1>6, <1>7, <1>9, <2>1 DEF Inv, LedgerInv, Extended
<1>11. /\ chain' \in Seq(ChainBlocks) /\ Len(chain') = b + 1 /\ chain'[b + 1] = B
       /\ \A c \in 0..(b - 1) : c \in 0..(Len(chain) - 1) /\ chain'[c + 1] = chain[c + 1]
  BY <1>3, <1>5, <1>7
<1>12. TypeInv'
  BY <1>4, <1>5, <1>7, <1>11 DEF TypeInv
<1>13. LedgerInv'
  <2>1. \A r \in L : r.block >= 1 /\ r.block < b + 1
    BY <1>5, <1>7, <1>10
  <2> QED
    BY <1>8, <1>10, <1>11, <2>1 DEF LedgerInv
<1>14. EnvelopesInv'
  <2> SUFFICES ASSUME NEW c \in 0..b, NEW i \in 1..Len(chain'[c + 1].envs),
                      NEW t, t = chain'[c + 1].envs[i], t # Junk
               PROVE  sim[t].st = "endorsed"
    <3>1. Len(chain') - 1 = b
      BY <1>7, <1>11
    <3> QED
      BY <1>4, <3>1, Zenon DEF EnvelopesInv
  <2>1. CASE c = b
    BY <1>1, <1>3, <1>11, <2>1
  <2>2. CASE c # b
    <3>1. c \in 0..(Len(chain) - 1) /\ chain'[c + 1] = chain[c + 1]
      BY <1>11, <2>2
    <3> QED
      BY <3>1, Zenon DEF Inv, EnvelopesInv
  <2> QED
    BY <2>1, <2>2
<1>15. ASSUME NEW D PROVE WritesOf(D)' = WritesOf(D)
  BY <1>4, WritesFrame
<1>16. ASSUME NEW D, ParsedAt(b, D)' PROVE D = txs
  <2>1. PICK C : C = chain'[b + 1] /\ D = Parse(C)'
    BY <1>16 DEF ParsedAt
  <2>2. C = B /\ D = Parse(C)
    BY <1>4, <1>11, <2>1, ParseFrame
  <2> QED
    BY <1>3, <2>2
<1>17. ASSUME NEW c \in 0..(b - 1), NEW D, ParsedAt(c, D)'
       PROVE  c \in 0..(Len(chain) - 1) /\ ParsedAt(c, D)
  BY <1>4, <1>11, <1>17, ParsedFrame, Zenon
<1>18. \A n \in Int : n < b => {r \in L : r.block <= n} = {r \in R : r.block <= n}
  BY <1>10
<1>19. {r \in L : r.block <= b} = L /\ {r \in L : r.block <= b - 1} = R
  BY <1>10
<1>20. LayersInv'
  <2> SUFFICES ASSUME NEW c \in 0..b, NEW D, NEW V, ParsedAt(c, D)', V = WritesOf(D)'
               PROVE  {r \in L : r.block <= c} = WithBlock({r \in L : r.block <= c - 1}, c, V)
    BY <1>8, <1>11 DEF LayersInv, LedgerAt
  <2>1. V = WritesOf(D)
    BY <1>15
  <2>2. CASE c = b
    <3>1. D = txs /\ V = W
      BY <1>3, <1>16, <2>1, <2>2
    <3>2. L = WithBlock(R, b, W)
      BY <1>3, <1>6, <1>7, <1>8
    <3> QED
      BY <1>19, <2>2, <3>1, <3>2, Zenon
  <2>3. CASE c # b
    <3>1. c \in 0..(b - 1) /\ c < b /\ c - 1 < b /\ c \in Int /\ c - 1 \in Int
      BY <2>3
    <3>2. c \in 0..(Len(chain) - 1) /\ ParsedAt(c, D)
      BY <1>17, <3>1
    <3>3. {r \in R : r.block <= c} = WithBlock({r \in R : r.block <= c - 1}, c, V)
      BY <1>6, <2>1, <3>2 DEF Inv, LayersInv, LedgerAt
    <3> QED
      BY <1>18, <3>1, <3>3
  <2> QED
    BY <2>2, <2>3
<1>21. RightInv'
  <2> SUFFICES ASSUME NEW c \in 0..b, NEW D, ParsedAt(c, D)', NEW tx \in Elements(D)
               PROVE  CurrentReads(L, c, tx)' /\ RealConflict(L, c, tx)'
    BY <1>8, <1>11 DEF RightInv
  <2>1. sim'[tx.id] = sim[tx.id]
    BY <1>4, Zenon
  <2>2. CASE c = b
    <3>1. D = txs
      BY <1>16, <2>2
    <3>2. PICK j \in 1..Len(txs) : tx = txs[j]
      BY <1>3, <3>1, ValidatedIs, Zenon DEF Elements
    <3>3. CurrentReads(L, b, tx) /\ RealConflict(L, b, tx)
      BY <1>3, <1>6, <1>7, <1>9, <3>2, NewBlockIsRight DEF Inv
    <3> QED
      BY <2>1, <2>2, <3>3, RightFrame, Zenon
  <2>3. CASE c # b
    <3>1. c \in 0..(b - 1)
      BY <2>3
    <3>2. c \in 0..(Len(chain) - 1) /\ ParsedAt(c, D)
      BY <1>17, <3>1
    <3>3. CurrentReads(R, c, tx) /\ RealConflict(R, c, tx)
      BY <1>6, <3>2 DEF Inv, RightInv
    <3>4. \A k : Prior(R, k, c, tx.number) = Prior(L, k, c, tx.number)
      <4>1. \A r \in L : r \notin R => ~(r.block < c) /\ r.block # c
        BY <1>10, <3>1
      <4> QED
        BY <1>10, <4>1 DEF Prior, RowsOf
    <3> QED
      BY <2>1, <3>3, <3>4, RightFrame
  <2> QED
    BY <2>2, <2>3
<1>22. SnapshotInv'
  <2> SUFFICES ASSUME NEW t \in TxIds
               PROVE  /\ sim[t].block <= (IF last = -1 THEN 0 ELSE last)
                      /\ \A k \in Keys : sim[t].reads[k] # None =>
                           sim[t].st # "idle" /\ Saw(t, k)'
    BY <1>4 DEF SnapshotInv
  <2>1. /\ sim[t].block <= (IF last = -1 THEN 0 ELSE last)
        /\ \A k \in Keys : sim[t].reads[k] # None => sim[t].st # "idle" /\ Saw(t, k)
    BY DEF Inv, SnapshotInv
  <2>2. sim[t].block \in Int /\ sim[t].block < b
    <3>1. sim[t].block \in Nat
      BY <1>5 DEF TypeInv, Sims
    <3>2. last \in Nat \cup {-1} /\ last < b
      BY <1>5, <1>7 DEF TypeInv
    <3> QED
      BY <1>5, <1>7, <2>1, <3>1, <3>2
  <2>3. ASSUME NEW k PROVE GetAt(L, k, sim[t].block) = GetAt(R, k, sim[t].block)
    <3>1. {r \in RowsOf(L, k) : r.block <= sim[t].block}
            = {r \in RowsOf(R, k) : r.block <= sim[t].block}
      BY <1>18, <2>2 DEF RowsOf
    <3> QED
      BY <3>1, Zenon DEF GetAt
  <2>4. ASSUME NEW k, Saw(t, k) PROVE Saw(t, k)'
    BY <1>4, <1>6, <1>8, <2>3, <2>4 DEF Saw, VersionOf
  <2> QED
    BY <2>1, <2>4
<1>23. ReplicaConverges'
  <2>1. last \in Int /\ last < b
    BY <1>5, <1>7 DEF TypeInv
  <2> QED
    BY <1>4, <1>6, <1>8, <1>18, <2>1 DEF Inv, ReplicaConverges
<1> QED
  BY <1>12, <1>13, <1>14, <1>20, <1>21, <1>22, <1>23 DEF Inv

-----------------------------------------------------------------------------
\* The steps of an endorser and of a replica.

\* A step that changes one open or idle simulation: what is left to show is what
\* it makes of that one.
LEMMA SimStep ==
  ASSUME Inv, NEW t \in TxIds, sim[t].st # "endorsed", NEW s \in Sims,
         sim' = [sim EXCEPT ![t] = s],
         UNCHANGED <<monotonicVersions, chain, ledger, rows, last>>,
         s.block <= (IF last = -1 THEN 0 ELSE last),
         \A k \in Keys : s.reads[k] # None => s.st # "idle" /\ Saw(t, k)'
  PROVE  Inv'
<1>1. sim \in [TxIds -> Sims] /\ TypeInv
  BY DEF Inv, TypeInv
<1>2. TypeInv'
  BY <1>1 DEF TypeInv
<1>3. \A u \in TxIds : u # t => sim'[u] = sim[u]
  BY <1>1
<1>4. sim'[t] = s
  BY <1>1
<1>5. LedgerInv' /\ EnvelopesInv' /\ LayersInv' /\ RightInv'
  BY <1>3, OtherSteps
<1>6. ASSUME NEW u \in TxIds
      PROVE  /\ sim'[u].block <= (IF last = -1 THEN 0 ELSE last)
             /\ \A k \in Keys : sim'[u].reads[k] # None => sim'[u].st # "idle" /\ Saw(u, k)'
  <2>1. CASE u = t
    BY <1>4, <2>1
  <2>2. CASE u # t
    <3>1. sim'[u] = sim[u]
      BY <1>3, <2>2
    <3>2. /\ sim[u].block <= (IF last = -1 THEN 0 ELSE last)
          /\ \A k \in Keys : sim[u].reads[k] # None => sim[u].st # "idle" /\ Saw(u, k)
      BY Zenon DEF Inv, SnapshotInv
    <3>3. ASSUME NEW k, Saw(u, k) PROVE Saw(u, k)'
      BY <3>1, <3>3 DEF Saw, VersionOf
    <3> QED
      BY <3>1, <3>2, <3>3
  <2> QED
    BY <2>1, <2>2
<1>7. SnapshotInv'
  BY <1>6 DEF SnapshotInv
<1>8. ReplicaConverges'
  BY Zenon DEF Inv, ReplicaConverges
<1> QED
  BY <1>2, <1>5, <1>7, <1>8 DEF Inv

\* The snapshot of the replica is the snapshot of the ledger.
LEMMA SnapshotsAgree ==
  ASSUME Inv, NEW t \in TxIds, NEW k
  PROVE  GetAt(rows, k, sim[t].block) = GetAt(ledger, k, sim[t].block)
<1>1. sim[t].block \in Nat /\ last \in Nat \cup {-1}
  BY DEF Inv, TypeInv, Sims
<1>2. sim[t].block <= (IF last = -1 THEN 0 ELSE last)
  BY DEF Inv, SnapshotInv
<1>3. \A r \in ledger : r.block \in Nat /\ r.block >= 1
  BY DEF Inv, LedgerInv, Table, Rows
<1>4. \A r \in ledger : r.block <= sim[t].block => r.block <= last
  BY <1>1, <1>2, <1>3
<1>5. {r \in RowsOf(rows, k) : r.block <= sim[t].block}
        = {r \in RowsOf(ledger, k) : r.block <= sim[t].block}
  BY <1>4 DEF Inv, ReplicaConverges, RowsOf
<1> QED
  BY <1>5, Zenon DEF GetAt

\* A simulation opens at the replica's height with nothing read.
LEMMA NewStep ==
  ASSUME Inv, NEW t \in TxIds, NewSimulationStore(t)
  PROVE  Inv'
<1> DEFINE h == IF last = -1 THEN 0 ELSE last
           s == [sim[t] EXCEPT !.st = "open", !.block = h]
<1>1. sim \in [TxIds -> Sims] /\ sim[t] \in Sims /\ h \in Nat
  BY DEF Inv, TypeInv
<1>2. sim' = [sim EXCEPT ![t] = s]
  BY <1>1, Zenon DEF NewSimulationStore
<1>3. s \in Sims /\ s.block = h /\ s.reads = sim[t].reads
  BY <1>1, Zenon DEF Sims
<1>4. \A k \in Keys : sim[t].reads[k] = None
  BY DEF Inv, SnapshotInv, NewSimulationStore
<1>5. h <= (IF last = -1 THEN 0 ELSE last)
  BY <1>1 DEF Inv, TypeInv
<1>6. UNCHANGED <<monotonicVersions, chain, ledger, rows, last>> /\ sim[t].st # "endorsed"
  BY DEF NewSimulationStore
<1> HIDE DEF s, h
<1> QED
  BY <1>2, <1>3, <1>4, <1>5, <1>6, SimStep, Zenon

\* A read records what the snapshot shows; a tombstone is recorded as nothing, and
\* was never recorded as anything else.
LEMMA GetStep ==
  ASSUME Inv, NEW t \in TxIds, NEW k \in Keys, GetState(t, k)
  PROVE  Inv'
<1> DEFINE rec == GetAt(ledger, k, sim[t].block)
           v == IF rec = NoRecord THEN Nil
                ELSE IF rec.content.kind = "delete" THEN sim[t].reads[k] ELSE VersionOf(rec)
           s == [sim[t] EXCEPT !.got[k] = ValueOf(rec), !.reads[k] = v]
<1>1. sim \in [TxIds -> Sims] /\ sim[t] \in Sims
  BY DEF Inv, TypeInv
<1>2. GetAt(rows, k, sim[t].block) = rec
  BY SnapshotsAgree
<1>3. sim' = [sim EXCEPT ![t] = s]
  BY <1>1, <1>2, Zenon DEF GetState
<1>4. rec = NoRecord \/ rec \in Rows
  <2>1. Table(ledger) /\ sim[t].block \in Nat
    BY <1>1 DEF Inv, LedgerInv, Sims
  <2> QED
    BY <2>1, GetAtIs
<1>5. ValueOf(rec) \in TxIds \cup {None}
  BY <1>4, ExecutionAssumption, Zenon DEF ValueOf, Rows
<1>6. v \in Versions
  <2>1. sim[t].reads[k] \in Versions
    BY <1>1 DEF Sims
  <2>2. rec \in Rows => VersionOf(rec) \in Versions
    BY Zenon DEF VersionOf, Versions, Rows
  <2>3. Nil \in Versions
    BY DEF Versions
  <2> QED
    BY <1>4, <2>1, <2>2, <2>3, Zenon
<1> HIDE DEF rec, v
<1>7. /\ s \in Sims /\ s.block = sim[t].block /\ s.st = sim[t].st
      /\ s.reads[k] = v /\ s.got[k] = ValueOf(rec)
      /\ \A i \in Keys : i # k => s.reads[i] = sim[t].reads[i] /\ s.got[i] = sim[t].got[i]
  BY <1>1, <1>5, <1>6, Zenon DEF Sims
<1> HIDE DEF s
<1>8. /\ UNCHANGED <<monotonicVersions, chain, ledger, rows, last>> /\ sim[t].st = "open"
      /\ sim'[t] = s
  BY <1>1, <1>3, Zenon DEF GetState
<1>9. /\ sim[t].block <= (IF last = -1 THEN 0 ELSE last)
      /\ \A i \in Keys : sim[t].reads[i] # None => Saw(t, i)
  BY DEF Inv, SnapshotInv
<1>10. ASSUME NEW i \in Keys, s.reads[i] # None PROVE Saw(t, i)'
  <2>1. CASE i # k
    <3>1. s.reads[i] = sim[t].reads[i] /\ s.got[i] = sim[t].got[i]
      BY <1>7, <2>1, Zenon
    <3>2. Saw(t, i)
      BY <1>9, <1>10, <3>1, Zenon
    <3> QED
      BY <1>7, <1>8, <3>1, <3>2 DEF Saw, VersionOf
  <2>2. CASE i = k
    <3>1. ~(rec # NoRecord /\ rec.content.kind = "delete")
      <4> SUFFICES ASSUME rec # NoRecord, rec.content.kind = "delete" PROVE FALSE
        BY Zenon
      <4>1. sim[t].reads[k] # None
        BY <1>7, <1>10, <2>2 DEF v
      <4> QED
        BY <1>9, <4>1, Zenon DEF Saw, rec
    <3>2. GetAt(ledger', k, s.block) = rec
      BY <1>7, <1>8, Zenon DEF rec
    <3>3. \/ rec = NoRecord /\ s.reads[k] = Nil
          \/ /\ rec # NoRecord /\ rec.content.kind # "delete" /\ s.reads[k] = VersionOf(rec)
      BY <1>7, <3>1, Zenon DEF v
    <3> QED
      BY <1>7, <1>8, <2>2, <3>2, <3>3 DEF Saw, VersionOf
  <2> QED
    BY <2>1, <2>2, Zenon
<1>11. sim[t].st # "endorsed" /\ s.st # "idle"
  BY <1>7, <1>8, Zenon
<1> QED
  BY <1>3, <1>7, <1>8, <1>9, <1>10, <1>11, SimStep, Zenon

\* Writes and the end of the simulation leave the reads alone.
LEMMA PutStep ==
  ASSUME Inv, NEW t \in TxIds, NEW s \in Sims, sim[t].st = "open", s.st # "idle",
         s.block = sim[t].block, s.reads = sim[t].reads, s.got = sim[t].got,
         sim' = [sim EXCEPT ![t] = s],
         UNCHANGED <<monotonicVersions, chain, ledger, rows, last>>
  PROVE  Inv'
<1>1. sim'[t] = s
  BY DEF Inv, TypeInv
<1>2. /\ sim[t].block <= (IF last = -1 THEN 0 ELSE last)
      /\ \A i \in Keys : sim[t].reads[i] # None => Saw(t, i)
  BY DEF Inv, SnapshotInv
<1>3. ASSUME NEW i \in Keys, s.reads[i] # None PROVE Saw(t, i)'
  BY <1>1, <1>2, <1>3 DEF Saw, VersionOf
<1>4. sim[t].st # "endorsed"
  OBVIOUS
<1> QED
  BY <1>2, <1>3, <1>4, SimStep, Zenon

\* A block applied to the replica's rows adds the ledger's layer.
LEMMA HandleStep ==
  ASSUME Inv, Handle
  PROVE  Inv'
<1>1. UNCHANGED <<monotonicVersions, chain, ledger, sim>> /\ last' = last + 1
  BY DEF Handle
<1>2. /\ last \in Nat \cup {-1} /\ Len(chain) \in Nat /\ last + 1 < Len(chain)
      /\ sim \in [TxIds -> Sims]
  BY DEF Inv, TypeInv, Handle
<1>3. TypeInv'
  BY <1>1, <1>2 DEF Inv, TypeInv
<1>4. LedgerInv' /\ EnvelopesInv' /\ LayersInv' /\ RightInv'
  BY <1>1, OtherSteps
<1>5. SnapshotInv'
  <2> SUFFICES ASSUME NEW t \in TxIds
               PROVE  /\ sim[t].block <= (IF last' = -1 THEN 0 ELSE last')
                      /\ \A k \in Keys : sim[t].reads[k] # None =>
                           sim[t].st # "idle" /\ Saw(t, k)'
    BY <1>1 DEF SnapshotInv
  <2>1. sim[t].block \in Nat
    BY <1>2 DEF Sims
  <2>2. /\ sim[t].block <= (IF last = -1 THEN 0 ELSE last)
        /\ \A k \in Keys : sim[t].reads[k] # None => sim[t].st # "idle" /\ Saw(t, k)
    BY DEF Inv, SnapshotInv
  <2>3. sim[t].block <= (IF last' = -1 THEN 0 ELSE last')
    BY <1>1, <1>2, <2>1, <2>2
  <2>4. ASSUME NEW k, Saw(t, k) PROVE Saw(t, k)'
    BY <1>1, <2>4 DEF Saw, VersionOf
  <2> QED
    BY <2>2, <2>3, <2>4, Zenon
<1>6. ReplicaConverges'
  <2>1. PICK b \in 0..(Len(chain) - 1) : b = last + 1
    BY <1>2
  <2>2. PICK B, txs, W : B = chain[b + 1] /\ txs = Parse(B) /\ W = WritesOf(txs)
    OBVIOUS
  <2>3. LedgerAt(b) = WithBlock(LedgerAt(b - 1), b, W)
    BY <2>2 DEF Inv, LayersInv, ParsedAt
  <2>4. rows = LedgerAt(b - 1)
    BY <1>2, <2>1 DEF Inv, ReplicaConverges, LedgerAt
  <2>5. last + 2 = b + 1
    BY <1>2, <2>1
  <2>6. rows' = WithBlock(rows, b, W)
    BY <2>1, <2>2, <2>5 DEF Handle
  <2> QED
    BY <1>1, <2>1, <2>3, <2>4, <2>6 DEF ReplicaConverges, LedgerAt
<1> QED
  BY <1>3, <1>4, <1>5, <1>6 DEF Inv

-----------------------------------------------------------------------------
\* The theorems.

\* The genesis block parses to nothing.
LEMMA InitInv ==
  ASSUME Init
  PROVE  Inv
<1> DEFINE G == [envs |-> <<Junk>>, filter |-> <<0>>]
<1>1. chain = <<G>> /\ ledger = {} /\ rows = {} /\ last = -1 /\ sim = [t \in TxIds |-> Idle]
  BY DEF Init
<1>2. G \in ChainBlocks /\ G.envs = <<Junk>>
  <2>1. <<Junk>> \in Seq(TxIds \cup {Junk}) /\ <<0>> \in Seq(Nat)
    OBVIOUS
  <2> QED
    BY <2>1 DEF ChainBlocks
<1>3. Idle \in Sims
  BY DEF Idle, Sims, Versions
<1> HIDE DEF G
<1>4. Len(chain) = 1 /\ chain[1] = G /\ chain \in Seq(ChainBlocks)
  BY <1>1, <1>2
<1>5. TypeInv
  BY <1>1, <1>3, <1>4 DEF TypeInv, Init
<1>6. LedgerInv
  BY <1>1, EmptyTable DEF LedgerInv
<1>7. EnvelopesInv
  <2>1. \A i \in 1..Len(G.envs) : G.envs[i] = Junk
    BY <1>2
  <2> QED
    BY <1>4, <2>1 DEF EnvelopesInv
<1>8. ASSUME NEW b \in 0..(Len(chain) - 1), NEW txs, ParsedAt(b, txs)
      PROVE  b = 0 /\ DOMAIN txs = {}
  <2>1. b = 0
    BY <1>4
  <2>2. txs = Parse(G)
    BY <1>4, <1>8, <2>1 DEF ParsedAt
  <2>3. PICK envs \in Seq({Junk}) : envs = <<Junk>>
    <3>1. <<Junk>> \in Seq({Junk})
      OBVIOUS
    <3> QED
      BY <3>1, Zenon
  <2>4. PICK n \in Nat : \E kept : Kept(envs, n, kept)
    BY ParseIs, Zenon
  <2>5. PICK kept \in [1..n -> 1..Len(envs)] :
        /\ \A j \in 1..n : envs[kept[j]] # Junk
        /\ \A C : C.envs = envs => Parse(C) = [j \in 1..n |-> ParseTx(C, kept[j])]
    BY <2>4, Zenon DEF Kept
  <2>6. \A i \in 1..Len(envs) : envs[i] = Junk
    BY <2>3
  <2>7. 1..n = {}
    BY <2>5, <2>6
  <2>8. txs = [j \in 1..n |-> ParseTx(G, kept[j])]
    BY <1>2, <2>2, <2>3, <2>5
  <2> QED
    BY <2>1, <2>7, <2>8, Zenon
<1>9. LayersInv
  <2> SUFFICES ASSUME NEW b \in 0..(Len(chain) - 1), NEW txs, NEW W,
                      ParsedAt(b, txs), W = WritesOf(txs)
               PROVE  {} = WithBlock({}, b, W)
    BY <1>1 DEF LayersInv, LedgerAt
  <2>1. DOMAIN txs = {}
    BY <1>8, Zenon
  <2>2. W = <<>> /\ Len(W) = 0
    BY <2>1 DEF WritesOf
  <2>3. PICK after : after[0] = {} /\ WithBlock({}, b, W) = after[Len(W)]
    BY <2>2, WithBlockSteps
  <2> QED
    BY <2>2, <2>3
<1>10. SnapshotInv
  BY <1>1 DEF SnapshotInv, Idle
<1>11. RightInv
  BY <1>8 DEF RightInv, Elements
<1>12. ReplicaConverges
  BY <1>1 DEF ReplicaConverges
<1> QED
  BY <1>5, <1>6, <1>7, <1>9, <1>10, <1>11, <1>12 DEF Inv

\* Every step preserves Inv.
LEMMA NextInv ==
  ASSUME Inv, [Next]_vars
  PROVE  Inv'
<1>1. TypeInv
  BY DEF Inv
<1>2. ASSUME NEW t \in TxIds, NewSimulationStore(t) PROVE Inv'
  BY <1>2, NewStep
<1>3. ASSUME NEW t \in TxIds, Result(t) PROVE Inv'
  <2> DEFINE s == [sim[t] EXCEPT !.st = "endorsed"]
  <2>1. sim[t] \in Sims /\ sim' = [sim EXCEPT ![t] = s]
    BY <1>1, <1>3 DEF TypeInv, Result
  <2>2. /\ s \in Sims /\ s.st # "idle"
        /\ s.block = sim[t].block /\ s.reads = sim[t].reads /\ s.got = sim[t].got
    BY <2>1 DEF Sims
  <2> HIDE DEF s
  <2> QED
    BY <1>3, <2>1, <2>2, PutStep, Zenon DEF Result
<1>4. ASSUME NEW t \in TxIds, NEW k \in Keys, GetState(t, k) PROVE Inv'
  BY <1>4, GetStep
<1>5. ASSUME NEW t \in TxIds, NEW k \in Keys, NEW w \in {"put", "del"}, PutState(t, k, w)
      PROVE  Inv'
  <2> DEFINE s == [sim[t] EXCEPT !.writes[k] = w]
  <2>1. sim[t] \in Sims /\ sim' = [sim EXCEPT ![t] = s] /\ sim[t].st = "open"
    BY <1>1, <1>5 DEF TypeInv, PutState
  <2>2. /\ s \in Sims /\ s.st = sim[t].st
        /\ s.block = sim[t].block /\ s.reads = sim[t].reads /\ s.got = sim[t].got
    BY <2>1 DEF Sims
  <2> HIDE DEF s
  <2> QED
    BY <1>5, <2>1, <2>2, PutStep, Zenon DEF PutState
<1>6. ASSUME NEW m \in 0..MaxTxPerBlock, NEW envs \in [1..m -> Envelopes], process(envs)
      PROVE  Inv'
  BY <1>6, ProcessStep
<1>7. CASE Handle
  BY <1>7, HandleStep
<1>8. CASE UNCHANGED vars
  <2>1. UNCHANGED <<monotonicVersions, chain, ledger, sim, rows, last>>
    BY <1>8 DEF vars
  <2>2. LedgerInv' /\ EnvelopesInv' /\ LayersInv' /\ RightInv'
    BY <2>1, OtherSteps
  <2>3. TypeInv'
    BY <1>1, <2>1, Zenon DEF TypeInv
  <2>4. SnapshotInv' /\ ReplicaConverges'
    BY <2>1 DEF Inv, SnapshotInv, Saw, VersionOf, ReplicaConverges
  <2> QED
    BY <2>2, <2>3, <2>4 DEF Inv
<1> QED
  BY <1>2, <1>3, <1>4, <1>5, <1>6, <1>7, <1>8 DEF Next

\* Inv implies the two properties.
LEMMA InvIsRight ==
  ASSUME Inv
  PROVE  CommittedReadsAreCurrent /\ ConflictsAreReal
<1>1. ASSUME NEW b \in 0..(Len(chain) - 1), NEW tx \in Outcomes(b), NEW R, R = ledger
      PROVE  CurrentReads(R, b, tx) /\ RealConflict(R, b, tx)
  <2>1. PICK B, txs : B = chain[b + 1] /\ txs = Parse(B)
    OBVIOUS
  <2>2. tx \in Elements(txs)
    BY <2>1 DEF Outcomes
  <2> QED
    BY <1>1, <2>1, <2>2 DEF Inv, RightInv, ParsedAt
<1>2. ASSUME NEW k, NEW b, NEW n
      PROVE  Before(k, b, n) = HighestVersion(Prior(ledger, k, b, n))
  BY Zenon DEF Before, Prior
<1>3. CommittedReadsAreCurrent
  BY <1>1, <1>2, Zenon DEF CommittedReadsAreCurrent, CurrentReads
<1>4. ConflictsAreReal
  BY <1>1, <1>2 DEF ConflictsAreReal, RealConflict
<1> QED
  BY <1>3, <1>4

\* The invariant holds in every reachable state.
LEMMA InvHolds == Spec => []Inv
<1>1. Init => Inv
  BY InitInv
<1>2. Inv /\ [Next]_vars => Inv'
  BY NextInv
<1> QED
  BY <1>1, <1>2, PTL DEF Spec

\* Serializability: whatever the endorsers' lag and the order of the envelopes, what
\* a committed transaction read is what was current at its place in the chain.
THEOREM CommitsAreSerializable == Spec => []CommittedReadsAreCurrent
<1>1. Inv => CommittedReadsAreCurrent
  BY InvIsRight
<1> QED
  BY <1>1, InvHolds, PTL

\* The validator refuses a transaction only for a read that is out of date.
THEOREM RefusalsAreReal == Spec => []ConflictsAreReal
<1>1. Inv => ConflictsAreReal
  BY InvIsRight
<1> QED
  BY <1>1, InvHolds, PTL

\* A replica that applies what it parses holds the ledger's rows at its height.
THEOREM ReplicasConverge == Spec => []ReplicaConverges
<1>1. Inv => ReplicaConverges
  BY DEF Inv
<1> QED
  BY <1>1, InvHolds, PTL
=============================================================================
