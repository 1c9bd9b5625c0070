------------------------ MODULE LocalSubmitterProofs ------------------------
(***************************************************************************)
(* For any number of clients, endorsers, identities and keys: what an      *)
(* endorser signed stays bound to the call it answered (SignaturesVerify), *)
(* the payload depends only on what was read (RefusalMeansDivergence), and *)
(* Submits that do not overlap are serializable and visible.               *)
(***************************************************************************)
EXTENDS LocalSubmitter, WorldStateProofs

\* What the builders encode, whatever the order they meet the keys in: the read
\* items and the write items of a set of keys, sorted.
ReadItems(S, reads) == {[key |-> k, version |-> reads[k]] : k \in S}
WriteItems(S) == {[key |-> k] : k \in S}
Sorted(E) == OrderBy(E, {p \in E \X E : p[1].key < p[2].key})

\* A function on K.
Map(f, K) == \E V : f \in [K -> V]

Namespaces(reads, writes) ==
  [readsOnly   |-> Sorted(ReadItems(DOMAIN reads \ writes, reads)),
   readWrites  |-> Sorted(ReadItems(DOMAIN reads \cap writes, reads)),
   blindWrites |-> Sorted(WriteItems(writes \ DOMAIN reads))]

RWSet(reads, writes) ==
  [reads  |-> Sorted(ReadItems(DOMAIN reads, reads)), writes |-> Sorted(WriteItems(writes))]

\* The payload as a function of the format, the proposal and the read-write set.
Encoded(m, txid, reads, writes) ==
  IF m THEN Namespaces(reads, writes) ELSE [hash |-> txid, rws |-> RWSet(reads, writes)]

\* An answer of endorser p in the current call of c: it is signed for this call,
\* and it refuses the call or encodes what p read and what the call writes.
Signed(c, p) ==
  /\ results[c][p].err = FALSE /\ results[c][p].endorser = identity[p]
  /\ results[c][p].signed = Digest(TxID(c), results[c][p].payload, identity[p])
  /\ \/ results[c][p].status = 400
     \/ /\ Map(results[c][p].reads, program[c].reads)
        /\ results[c][p].payload =
             Encoded(monotonicVersions, TxID(c), results[c][p].reads, program[c].writes)

NoProgram == [reads |-> {}, writes |-> {}]
Submitting == {"numbered", "checked"}

TypeInv ==
  /\ monotonicVersions \in BOOLEAN
  /\ pc \in [Clients -> {"idle", "executing", "endorsed"} \cup Submitting]
  /\ count \in [Clients -> 0..MaxCalls]
  /\ program \in [Clients -> Programs \cup {NoProgram}]
  /\ results = [c \in Clients |-> [p \in Peers |-> results[c][p]]]

\* No answer outlives its call, and a call is endorsed only when all have answered.
Answered ==
  \A c \in Clients :
    /\ pc[c] # "idle" => count[c] >= 1
    /\ \A p \in Peers :
         /\ results[c][p] \in {Waiting, Failed} \/ Signed(c, p)
         /\ pc[c] = "idle" => results[c][p] = Waiting
         /\ pc[c] \in {"endorsed"} \cup Submitting => Signed(c, p)

Inv == TypeInv /\ Answered

\* What Submit parsed is what every endorser read and what the call writes.
Parsed ==
  /\ DOMAIN tx = Clients /\ DOMAIN blockNum = Clients
  /\ \A c \in Clients : pc[c] \in Submitting =>
       /\ tx[c].writes = program[c].writes
       /\ \A p \in Peers : results[c][p].reads = tx[c].reads

\* Submits that do not overlap: the table is in ledger order, the height read is
\* the store's, and the reads that were validated stay current.
SerialInv ==
  /\ Table(rows) /\ last \in Nat \cup {-1} /\ \A r \in rows : r.block <= last
  /\ \A c \in Clients : pc[c] \in Submitting =>
       /\ blockNum[c] = BlockNumber
       /\ \A d \in Clients : pc[d] \in Submitting => d = c
       /\ pc[c] = "checked" => Current(tx[c].reads)

-----------------------------------------------------------------------------
\* Encoding and decoding.

\* A Go map yields all its keys, in any order.
LEMMA OrderCovers ==
  ASSUME NEW S, IsFiniteSet(S), NEW order \in MapOrders(S)
  PROVE  /\ DOMAIN order = 1..Cardinality(S) /\ Cardinality(S) \in Nat
         /\ Elements(order) = S
<1>1. Cardinality(S) \in Nat
  BY FS_CardinalityType
<1> QED
  BY <1>1 DEF MapOrders, Bijection, Surjection, Elements

\* The keys of S that a loop over a map with those keys meets are S.
LEMMA RangedIs ==
  ASSUME NEW order, NEW n \in Nat, DOMAIN order = 1..n, NEW S, S \subseteq Elements(order)
  PROVE  Elements(Ranged(order, S)) = S
<1> DEFINE I == {i \in DOMAIN order : order[i] \in S}
           at == InOrder(I)
<1>1. IsFiniteSet(I) /\ I \subseteq Nat
  <2>1. IsFiniteSet(1..n) /\ I \in SUBSET (1..n)
    BY FS_Interval
  <2> QED
    BY <2>1, FS_Subset
<1>2. Elements(at) = I
  BY <1>1, InOrderIs, Zenon
<1>3. Ranged(order, S) = [j \in DOMAIN at |-> order[at[j]]]
  BY DEF Ranged
<1> HIDE DEF at
<1> DEFINE ks == [j \in DOMAIN at |-> order[at[j]]]
<1>4. ASSUME NEW x \in Elements(ks) PROVE x \in S
  <2>1. PICK j \in DOMAIN at : x = order[at[j]]
    BY DEF Elements
  <2>2. at[j] \in I
    BY <1>2 DEF Elements
  <2> QED
    BY <2>1, <2>2
<1>5. ASSUME NEW x \in S PROVE x \in Elements(ks)
  <2>1. PICK i \in I : x = order[i]
    BY DEF Elements
  <2>2. PICK j \in DOMAIN at : at[j] = i
    BY <1>2 DEF Elements
  <2> QED
    BY <2>1, <2>2 DEF Elements
<1> QED
  BY <1>3, <1>4, <1>5, Zenon

LEMMA ItemsIn ==
  ASSUME NEW order, NEW n \in Nat, DOMAIN order = 1..n, NEW S, S \subseteq Elements(order),
         NEW reads
  PROVE  /\ Elements(ReadsIn(order, S, reads)) = ReadItems(S, reads)
         /\ Elements(WritesIn(order, S)) = WriteItems(S)
<1> DEFINE ks == Ranged(order, S)
<1>1. Elements(ks) = S
  BY RangedIs
<1>2. /\ ReadsIn(order, S, reads) = [i \in DOMAIN ks |-> [key |-> ks[i], version |-> reads[ks[i]]]]
      /\ WritesIn(order, S) = [i \in DOMAIN ks |-> [key |-> ks[i]]]
  BY DEF ReadsIn, WritesIn
<1> HIDE DEF ks
<1>3. S = {ks[i] : i \in DOMAIN ks}
  BY <1>1 DEF Elements
<1>4. Elements(ReadsIn(order, S, reads)) = ReadItems(S, reads)
  BY <1>2, <1>3 DEF Elements, ReadItems
<1>5. Elements(WritesIn(order, S)) = WriteItems(S)
  BY <1>2, <1>3 DEF Elements, WriteItems
<1> QED
  BY <1>4, <1>5

\* The order of a map does not reach the payload.
LEMMA PayloadIs ==
  ASSUME NEW inv, NEW reads, NEW writes, IsFiniteSet(DOMAIN reads), IsFiniteSet(writes),
         NEW order \in MapOrders(DOMAIN reads \cup writes)
  PROVE  Payload(inv, reads, writes, order) = Encoded(monotonicVersions, inv.txid, reads, writes)
<1>1. IsFiniteSet(DOMAIN reads \cup writes)
  BY FS_Union, Zenon
<1> DEFINE n == Cardinality(DOMAIN reads \cup writes)
<1>2. DOMAIN order = 1..n /\ n \in Nat /\ Elements(order) = DOMAIN reads \cup writes
  BY <1>1, OrderCovers
<1> HIDE DEF n
<1>3. \A S : S \subseteq Elements(order) =>
        /\ Elements(ReadsIn(order, S, reads)) = ReadItems(S, reads)
        /\ Elements(WritesIn(order, S)) = WriteItems(S)
  BY <1>2, ItemsIn, Zenon
<1>4. \A S : S \subseteq Elements(order) =>
        /\ ByKey(ReadsIn(order, S, reads)) = Sorted(ReadItems(S, reads))
        /\ ByKey(WritesIn(order, S)) = Sorted(WriteItems(S))
  BY <1>3, Zenon DEF ByKey, Sorted
<1>5. /\ DOMAIN reads \ writes \subseteq Elements(order)
      /\ DOMAIN reads \cap writes \subseteq Elements(order)
      /\ writes \ DOMAIN reads \subseteq Elements(order)
      /\ DOMAIN reads \subseteq Elements(order) /\ writes \subseteq Elements(order)
  BY <1>2
<1>6. buildTx(reads, writes, order) = Namespaces(reads, writes)
  BY <1>4, <1>5 DEF buildTx, Namespaces
<1>7. marshalRWSet(reads, writes, order) = RWSet(reads, writes)
  BY <1>4, <1>5 DEF marshalRWSet, RWSet
<1> QED
  BY <1>6, <1>7 DEF Payload, Encoded

\* The items of a set of keys: one for each.
LEMMA ItemsAre ==
  ASSUME NEW S, NEW reads
  PROVE  /\ \A r \in ReadItems(S, reads) : r.key \in S /\ r.version = reads[r.key]
         /\ \A k \in S : \E r \in ReadItems(S, reads) : r.key = k
         /\ \A w \in WriteItems(S) : w.key \in S
         /\ \A k \in S : \E w \in WriteItems(S) : w.key = k
<1>1. \A r \in ReadItems(S, reads) : r.key \in S /\ r.version = reads[r.key]
  BY DEF ReadItems
<1>2. ASSUME NEW k \in S PROVE \E r \in ReadItems(S, reads) : r.key = k
  <2>1. [key |-> k, version |-> reads[k]] \in ReadItems(S, reads)
    BY DEF ReadItems
  <2> QED
    BY <2>1
<1>3. \A w \in WriteItems(S) : w.key \in S
  BY DEF WriteItems
<1>4. ASSUME NEW k \in S PROVE \E w \in WriteItems(S) : w.key = k
  <2>1. [key |-> k] \in WriteItems(S)
    BY DEF WriteItems
  <2> QED
    BY <2>1
<1> QED
  BY <1>1, <1>2, <1>3, <1>4

\* sort.Slice loses no item.
LEMMA SortedIs ==
  ASSUME NEW E, IsFiniteSet(E), \A x \in E : x.key \in Nat,
         \A x, y \in E : x.key = y.key => x = y
  PROVE  Elements(Sorted(E)) = E
<1> DEFINE before == {p \in E \X E : p[1].key < p[2].key}
<1>1. \A x, y \in E : <<x, y>> \in before <=> x.key < y.key
  OBVIOUS
<1>2. Sorted(E) = OrderBy(E, before)
  BY DEF Sorted
<1> HIDE DEF before
<1>3. Orders(before, E)
  BY <1>1 DEF Orders
<1> QED
  BY <1>2, <1>3, OrderByIs

LEMMA ItemsAreSorted ==
  ASSUME NEW S, S \subseteq Nat, IsFiniteSet(S), NEW reads
  PROVE  /\ Elements(Sorted(ReadItems(S, reads))) = ReadItems(S, reads)
         /\ Elements(Sorted(WriteItems(S))) = WriteItems(S)
<1> DEFINE r == [k \in S |-> [key |-> k, version |-> reads[k]]]
           w == [k \in S |-> [key |-> k]]
<1>1. r \in Surjection(S, ReadItems(S, reads)) /\ w \in Surjection(S, WriteItems(S))
  BY DEF ReadItems, WriteItems, Surjection
<1>2. IsFiniteSet(ReadItems(S, reads)) /\ IsFiniteSet(WriteItems(S))
  BY <1>1, FS_Surjection
<1>3. \A x, y \in ReadItems(S, reads) : x.key = y.key => x = y
  BY DEF ReadItems
<1>4. \A x, y \in WriteItems(S) : x.key = y.key => x = y
  BY DEF WriteItems
<1>5. /\ \A x \in ReadItems(S, reads) : x.key \in Nat
      /\ \A x \in WriteItems(S) : x.key \in Nat
  BY ItemsAre, Zenon
<1> QED
  BY <1>2, <1>3, <1>4, <1>5, SortedIs

\* R holds an item for each key of K, W one for each of writes.
Items(R, W, K, reads, writes) ==
  /\ \A r \in R : r.key \in K /\ r.version = reads[r.key]
  /\ \A k \in K : \E r \in R : r.key = k
  /\ \A w \in W : w.key \in writes
  /\ \A k \in writes : \E w \in W : w.key = k

\* What the parser makes of items: the keys and versions they were made from.
LEMMA DecodedIs ==
  ASSUME NEW K, NEW reads, Map(reads, K), NEW R, NEW W, NEW writes,
         Items(R, W, K, reads, writes)
  PROVE  Decoded(R, W).reads = reads /\ Decoded(R, W).writes = writes
<1> USE DEF Items
<1>1. PICK V : reads \in [K -> V]
  BY DEF Map
<1>2. {r.key : r \in R} = K /\ {w.key : w \in W} = writes
  OBVIOUS
<1>3. ASSUME NEW k \in K PROVE (CHOOSE r \in R : r.key = k).version = reads[k]
  <2>1. (CHOOSE r \in R : r.key = k) \in R /\ (CHOOSE r \in R : r.key = k).key = k
    OBVIOUS
  <2> QED
    BY <2>1
<1>4. [k \in {r.key : r \in R} |-> (CHOOSE r \in R : r.key = k).version] = reads
  BY <1>1, <1>2, <1>3
<1> QED
  BY <1>2, <1>4 DEF Decoded

\* The parser reads back the read-write set that was encoded.
LEMMA EncodedDecodes ==
  ASSUME NEW K, K \subseteq Nat, IsFiniteSet(K), NEW reads, Map(reads, K),
         NEW writes, writes \subseteq Nat, IsFiniteSet(writes)
  PROVE  /\ DecodeNamespaces(Namespaces(reads, writes)).reads = reads
         /\ DecodeNamespaces(Namespaces(reads, writes)).writes = writes
         /\ \A x : x.rws = RWSet(reads, writes) =>
              FabricRWSet(x).reads = reads /\ FabricRWSet(x).writes = writes
<1>1. DOMAIN reads = K
  BY DEF Map
<1>2. \A S : S \subseteq K \/ S \subseteq writes =>
        /\ Elements(Sorted(ReadItems(S, reads))) = ReadItems(S, reads)
        /\ Elements(Sorted(WriteItems(S))) = WriteItems(S)
  <2> TAKE S
  <2> HAVE S \subseteq K \/ S \subseteq writes
  <2>1. S \subseteq Nat
    BY Zenon
  <2>2. IsFiniteSet(S)
    BY FS_Subset
  <2> QED
    BY <2>1, <2>2, ItemsAreSorted, Zenon
<1> DEFINE ns == Namespaces(reads, writes)
           rws == RWSet(reads, writes)
<1>3. /\ ns.readsOnly = Sorted(ReadItems(K \ writes, reads))
      /\ ns.readWrites = Sorted(ReadItems(K \cap writes, reads))
      /\ ns.blindWrites = Sorted(WriteItems(writes \ K))
  BY <1>1 DEF Namespaces
<1>4. /\ rws.reads = Sorted(ReadItems(K, reads)) /\ rws.writes = Sorted(WriteItems(writes))
  BY <1>1 DEF RWSet
<1>5. /\ Elements(ns.readsOnly) = ReadItems(K \ writes, reads)
      /\ Elements(ns.readWrites) = ReadItems(K \cap writes, reads)
      /\ Elements(ns.blindWrites) = WriteItems(writes \ K)
  <2>1. K \ writes \subseteq K /\ K \cap writes \subseteq K /\ writes \ K \subseteq writes
    OBVIOUS
  <2> QED
    BY <1>2, <1>3, <2>1
<1>6. Elements(rws.reads) = ReadItems(K, reads) /\ Elements(rws.writes) = WriteItems(writes)
  BY <1>2, <1>4
<1>7. DecodeNamespaces(ns) = Decoded(Elements(ns.readsOnly) \cup Elements(ns.readWrites),
                                     Elements(ns.blindWrites) \cup Elements(ns.readWrites))
  BY DEF DecodeNamespaces
<1> HIDE DEF ns, rws
<1>8. /\ Decoded(ReadItems(K, reads), WriteItems(writes)).reads = reads
      /\ Decoded(ReadItems(K, reads), WriteItems(writes)).writes = writes
  <2>1. /\ \A r \in ReadItems(K, reads) : r.key \in K /\ r.version = reads[r.key]
        /\ \A k \in K : \E r \in ReadItems(K, reads) : r.key = k
    BY ItemsAre
  <2>2. /\ \A w \in WriteItems(writes) : w.key \in writes
        /\ \A k \in writes : \E w \in WriteItems(writes) : w.key = k
    BY ItemsAre, Zenon
  <2>3. Items(ReadItems(K, reads), WriteItems(writes), K, reads, writes)
    BY <2>1, <2>2 DEF Items
  <2> QED
    BY <2>3, DecodedIs
<1>9. DecodeNamespaces(ns).reads = reads /\ DecodeNamespaces(ns).writes = writes
  <2> DEFINE R == ReadItems(K \ writes, reads) \cup ReadItems(K \cap writes, reads)
             W == WriteItems(writes \ K) \cup ReadItems(K \cap writes, reads)
  <2>1. \A S : /\ \A r \in ReadItems(S, reads) : r.key \in S /\ r.version = reads[r.key]
               /\ \A k \in S : \E r \in ReadItems(S, reads) : r.key = k
    BY ItemsAre
  <2>2. \A S : /\ \A w \in WriteItems(S) : w.key \in S
               /\ \A k \in S : \E w \in WriteItems(S) : w.key = k
    BY ItemsAre, Zenon
  <2>3. \A r \in R : r.key \in K /\ r.version = reads[r.key]
    BY <2>1
  <2>4. ASSUME NEW k \in K PROVE \E r \in R : r.key = k
    <3>1. k \in K \ writes \/ k \in K \cap writes
      OBVIOUS
    <3> QED
      BY <2>1, <3>1
  <2>5. \A w \in W : w.key \in writes
    BY <2>1, <2>2
  <2>6. ASSUME NEW k \in writes PROVE \E w \in W : w.key = k
    <3>1. k \in writes \ K \/ k \in K \cap writes
      OBVIOUS
    <3> QED
      BY <2>1, <2>2, <3>1
  <2> HIDE DEF R, W
  <2>7. Items(R, W, K, reads, writes)
    BY <2>3, <2>4, <2>5, <2>6 DEF Items
  <2>8. Decoded(R, W).reads = reads /\ Decoded(R, W).writes = writes
    BY <2>7, DecodedIs
  <2> QED
    BY <1>5, <1>7, <2>8 DEF R, W
<1>10. \A x : x.rws = RWSet(reads, writes) =>
         FabricRWSet(x).reads = reads /\ FabricRWSet(x).writes = writes
  BY <1>6, <1>8 DEF rws, FabricRWSet
<1> QED
  BY <1>9, <1>10 DEF ns

-----------------------------------------------------------------------------
\* The answers.

LEMMA ProgramsAreFinite ==
  ASSUME NEW x \in Programs \cup {NoProgram}
  PROVE  /\ x.reads \subseteq Keys /\ IsFiniteSet(x.reads)
         /\ x.writes \subseteq Keys /\ IsFiniteSet(x.writes)
BY EndorsementAssumption, FS_EmptySet DEF NoProgram

\* There is an identifier left for the next call.
LEMMA CountIsBounded ==
  ASSUME Inv, NEW c \in Clients, Cardinality(TxIDs) < MaxCalls
  PROVE  count[c] < MaxCalls
<1>1. PICK T : T = TxIDs
  OBVIOUS
<1>2. T \subseteq Clients \X (1..MaxCalls)
  BY <1>1 DEF TxIDs
<1>3. IsFiniteSet(T) /\ Cardinality(T) \in Nat
  <2>1. MaxCalls \in Nat /\ IsFiniteSet(1..MaxCalls)
    BY EndorsementAssumption, FS_Interval
  <2>2. IsFiniteSet(Clients \X (1..MaxCalls))
    BY <2>1, EndorsementAssumption, FS_Product
  <2>3. IsFiniteSet(T)
    BY <1>2, <2>2, FS_Subset
  <2> QED
    BY <2>3, FS_CardinalityType
<1>4. ASSUME count[c] >= MaxCalls PROVE FALSE
  <2> DEFINE f == [n \in 1..MaxCalls |-> <<c, n>>]
  <2>1. MaxCalls \in Nat /\ count[c] \in Nat
    BY EndorsementAssumption DEF Inv, TypeInv
  <2>2. \A n \in 1..MaxCalls : <<c, n>> \in T
    BY <1>1, <1>4, <2>1 DEF TxIDs
  <2>3. f \in Injection(1..MaxCalls, T)
    BY <2>2 DEF Injection, IsInjective
  <2>4. Cardinality(1..MaxCalls) <= Cardinality(T)
    BY <1>3, <2>3, FS_Injection
  <2>5. Cardinality(1..MaxCalls) = MaxCalls
    BY <2>1, FS_Interval
  <2> QED
    BY <1>1, <1>3, <2>1, <2>4, <2>5
<1> QED
  BY <1>4, EndorsementAssumption DEF Inv, TypeInv

\* A call that keeps its results, its count, its program and its pc keeps its
\* answers.
LEMMA Untouched ==
  ASSUME NEW c \in Clients, NEW p \in Peers, Signed(c, p),
         results'[c] = results[c], count'[c] = count[c], program'[c] = program[c],
         monotonicVersions' = monotonicVersions, identity' = identity
  PROVE  Signed(c, p)'
BY DEF Signed, Digest, TxID

LEMMA InitInv == Init => Inv
<1> SUFFICES ASSUME Init PROVE Inv
  OBVIOUS
<1>1. MaxCalls \in Nat
  BY EndorsementAssumption
<1>2. TypeInv
  BY <1>1 DEF Init, EndorsementInit, TypeInv, NoProgram
<1>3. Answered
  BY DEF Init, EndorsementInit, Answered, Submitting
<1> QED
  BY <1>2, <1>3 DEF Inv

\* A step of client c leaves the answers of the others alone.
LEMMA Others ==
  ASSUME Inv, NEW c \in Clients, TypeInv',
         monotonicVersions' = monotonicVersions, identity' = identity,
         \A d \in Clients \ {c} :
           /\ results'[d] = results[d] /\ count'[d] = count[d]
           /\ program'[d] = program[d] /\ pc'[d] = pc[d],
         pc'[c] # "idle" => count'[c] >= 1,
         \A p \in Peers :
           /\ results'[c][p] \in {Waiting, Failed} \/ Signed(c, p)'
           /\ pc'[c] = "idle" => results'[c][p] = Waiting
           /\ pc'[c] \in {"endorsed"} \cup Submitting => Signed(c, p)'
  PROVE  Inv'
<1>1. ASSUME NEW d \in Clients \ {c}
      PROVE  /\ pc'[d] # "idle" => count'[d] >= 1
             /\ \A p \in Peers :
                  /\ results'[d][p] \in {Waiting, Failed} \/ Signed(d, p)'
                  /\ pc'[d] = "idle" => results'[d][p] = Waiting
                  /\ pc'[d] \in {"endorsed"} \cup Submitting => Signed(d, p)'
  <2>1. \A p \in Peers : Signed(d, p) => Signed(d, p)'
    BY Untouched
  <2> QED
    BY <2>1 DEF Inv, Answered
<1> QED
  BY <1>1 DEF Inv, Answered

LEMMA StartCallInv == ASSUME Inv, NEW c \in Clients, StartCall(c) PROVE Inv'
<1>1. /\ pc' = [pc EXCEPT ![c] = "executing"] /\ count' = [count EXCEPT ![c] = @ + 1]
      /\ results' = results /\ pc[c] = "idle"
      /\ monotonicVersions' = monotonicVersions /\ identity' = identity
  BY DEF StartCall
<1>2. PICK x \in Programs : program' = [program EXCEPT ![c] = x]
  BY Zenon DEF StartCall
<1>3. count'[c] = count[c] + 1 /\ count[c] + 1 \in 1..MaxCalls
  <2>1. count[c] < MaxCalls
    BY CountIsBounded DEF StartCall
  <2> QED
    BY <1>1, <2>1, EndorsementAssumption DEF Inv, TypeInv
<1>4. count' \in [Clients -> 0..MaxCalls]
  BY <1>1, <1>3, EndorsementAssumption DEF Inv, TypeInv
<1>5. pc'[c] = "executing" /\ pc' \in [Clients -> {"idle", "executing", "endorsed"} \cup Submitting]
  BY <1>1 DEF Inv, TypeInv
<1>6. program' \in [Clients -> Programs \cup {NoProgram}]
  BY <1>2 DEF Inv, TypeInv
<1>7. TypeInv'
  BY <1>1, <1>4, <1>5, <1>6 DEF Inv, TypeInv
<1>8. \A p \in Peers : results'[c][p] = Waiting
  BY <1>1 DEF Inv, Answered
<1>9. \A d \in Clients \ {c} :
        /\ results'[d] = results[d] /\ count'[d] = count[d]
        /\ program'[d] = program[d] /\ pc'[d] = pc[d]
  BY <1>1, <1>2 DEF Inv, TypeInv
<1> QED
  BY <1>1, <1>3, <1>5, <1>7, <1>8, <1>9, Others DEF Submitting

LEMMA AnswersInv ==
  ASSUME Inv, NEW c \in Clients, NEW p \in Peers, NEW answer, Answers(c, p, answer),
         \/ answer = Failed
         \/ /\ answer.err = FALSE /\ answer.endorser = identity[p]
            /\ answer.signed = Digest(TxID(c), answer.payload, identity[p])
            /\ \/ answer.status = 400
               \/ /\ Map(answer.reads, program[c].reads)
                  /\ answer.payload =
                       Encoded(monotonicVersions, TxID(c), answer.reads, program[c].writes)
  PROVE  Inv'
<1>1. /\ results' = [results EXCEPT ![c][p] = answer]
      /\ pc' = pc /\ count' = count /\ program' = program /\ pc[c] = "executing"
      /\ monotonicVersions' = monotonicVersions /\ identity' = identity
  BY DEF Answers
<1>2. results'[c][p] = answer
  BY <1>1 DEF Inv, TypeInv
<1>3. \A q \in Peers \ {p} : results'[c][q] = results[c][q]
  BY <1>1 DEF Inv, TypeInv
<1>4. TypeInv'
  BY <1>1, Zenon DEF Inv, TypeInv
<1>5. \A d \in Clients \ {c} :
        /\ results'[d] = results[d] /\ count'[d] = count[d]
        /\ program'[d] = program[d] /\ pc'[d] = pc[d]
  BY <1>1 DEF Inv, TypeInv
<1>6. ASSUME NEW q \in Peers PROVE results'[c][q] \in {Waiting, Failed} \/ Signed(c, q)'
  <2>1. CASE q = p
    BY <1>1, <1>2, <2>1 DEF Signed, Digest, TxID
  <2>2. CASE q # p
    BY <1>1, <1>3, <2>2 DEF Inv, Answered, Signed, Digest, TxID
  <2> QED
    BY <2>1, <2>2
<1>7. count'[c] >= 1
  BY <1>1 DEF Inv, Answered
<1> QED
  BY <1>1, <1>4, <1>5, <1>6, <1>7, Others DEF Submitting

\* Done forgets the answers of the call.
LEMMA DoneInv ==
  ASSUME Inv, NEW c \in Clients, Done(c), count' = count,
         monotonicVersions' = monotonicVersions, identity' = identity
  PROVE  Inv'
<1>1. TypeInv'
  BY Zenon DEF Inv, TypeInv, Done, NoProgram
<1>2. pc'[c] = "idle" /\ \A p \in Peers : results'[c][p] = Waiting
  BY DEF Inv, TypeInv, Done
<1>3. \A d \in Clients \ {c} :
        /\ results'[d] = results[d] /\ count'[d] = count[d]
        /\ program'[d] = program[d] /\ pc'[d] = pc[d]
  BY DEF Inv, TypeInv, Done
<1> QED
  BY <1>1, <1>2, <1>3, Others, Zenon DEF Submitting

\* A call with every answer goes on to its next step.
LEMMA SubmitInv ==
  ASSUME Inv, NEW c \in Clients, NEW s \in {"endorsed"} \cup Submitting, pc[c] # "idle",
         \A p \in Peers : Signed(c, p), pc' = [pc EXCEPT ![c] = s], UNCHANGED endorsing
  PROVE  Inv'
<1>1. /\ results' = results /\ count' = count /\ program' = program
      /\ monotonicVersions' = monotonicVersions /\ identity' = identity
  BY DEF endorsing
<1>2. TypeInv'
  BY <1>1 DEF Inv, TypeInv
<1>3. pc'[c] = s /\ \A d \in Clients \ {c} : pc'[d] = pc[d]
  BY DEF Inv, TypeInv
<1>4. \A p \in Peers : Signed(c, p)'
  BY <1>1, Untouched
<1>5. count'[c] >= 1 /\ s # "idle"
  BY <1>1 DEF Inv, Answered, Submitting
<1> QED
  BY <1>1, <1>2, <1>3, <1>4, <1>5, Others

LEMMA CollectInv == ASSUME Inv, NEW c \in Clients, Collect(c) PROVE Inv'
<1>1. CASE Done(c)
  BY <1>1, DoneInv DEF Collect
<1>2. CASE ~Done(c)
  <2>1. /\ pc' = [pc EXCEPT ![c] = "endorsed"] /\ UNCHANGED endorsing /\ pc[c] = "executing"
        /\ \A p \in Peers : results[c][p] # Waiting /\ ~results[c][p].err
    BY <1>2 DEF Collect, endorsing
  <2>2. \A p \in Peers : Signed(c, p)
    BY <2>1 DEF Inv, Answered, Failed
  <2> QED
    BY <2>1, <2>2, SubmitInv, Zenon
<1> QED
  BY <1>1, <1>2

\* The proposal names the call, in both formats and on both ways to the endorsers.
LEMMA ProposalIs == ASSUME NEW c, NEW p PROVE Invocation(c, p).txid = TxID(c)
BY DEF Invocation, Proposal, NewSignedProposal, FabricInvocation, FabricXInvocation

\* A successful answer encodes what the endorser read.
LEMMA EndorsesInv == ASSUME Inv, NEW c \in Clients, NEW p \in Peers, PeerEndorses(c, p) PROVE Inv'
<1>1. PICK order \in MapOrders(program[c].reads \cup program[c].writes) :
        Answers(c, p, Endorse(Invocation(c, p), 200, Simulated(c, BlockNumber),
                              program[c].writes, order, identity[p]))
  BY DEF PeerEndorses
<1>2. PICK reads : reads = Simulated(c, BlockNumber)
  OBVIOUS
<1>3. PICK inv : inv = Invocation(c, p)
  OBVIOUS
<1>4. PICK answer : answer = Endorse(Invocation(c, p), 200, Simulated(c, BlockNumber),
                                     program[c].writes, order, identity[p])
  OBVIOUS
<1>5. PICK payload : payload = Payload(inv, reads, program[c].writes, order)
  OBVIOUS
<1>6. PICK x \in Programs \cup {NoProgram} : x = program[c]
  BY DEF Inv, TypeInv
<1>7. Map(reads, x.reads) /\ DOMAIN reads = x.reads
  <2> DEFINE f == [k \in x.reads |-> VersionOf(GetAt(rows, k, BlockNumber))]
  <2>1. reads = f
    BY <1>2, <1>6 DEF Simulated
  <2>2. f \in [x.reads -> {f[k] : k \in x.reads}]
    OBVIOUS
  <2> HIDE DEF f
  <2> QED
    BY <2>1, <2>2, Zenon DEF Map
<1>8. inv.txid = TxID(c)
  BY <1>3, ProposalIs
<1>9. payload = Encoded(monotonicVersions, inv.txid, reads, x.writes)
  <2>1. IsFiniteSet(x.reads) /\ IsFiniteSet(x.writes)
    BY ProgramsAreFinite
  <2>2. order \in MapOrders(DOMAIN reads \cup x.writes) /\ IsFiniteSet(DOMAIN reads)
    BY <1>1, <1>6, <1>7, <2>1
  <2>3. Payload(inv, reads, x.writes, order) =
          Encoded(monotonicVersions, inv.txid, reads, x.writes)
    BY <2>1, <2>2, PayloadIs, Zenon
  <2> QED
    BY <1>5, <1>6, <2>3
<1>10. /\ answer.err = FALSE /\ answer.endorser = identity[p] /\ answer.reads = reads
       /\ answer.payload = payload
       /\ answer.signed = Digest(inv.txid, payload, identity[p])
  BY <1>2, <1>3, <1>4, <1>5, Zenon DEF Endorse
<1>11. Answers(c, p, answer)
  BY <1>1, <1>4
<1> QED
  BY <1>6, <1>7, <1>8, <1>9, <1>10, <1>11, AnswersInv, Zenon

LEMMA RejectsInv == ASSUME Inv, NEW c \in Clients, NEW p \in Peers, PeerRejects(c, p) PROVE Inv'
<1>1. PICK inv : inv = Invocation(c, p)
  OBVIOUS
<1>2. PICK answer : answer = Endorse(Invocation(c, p), 400, <<>>, {}, <<>>, identity[p])
  OBVIOUS
<1>3. inv.txid = TxID(c)
  BY <1>1, ProposalIs
<1>4. /\ answer.err = FALSE /\ answer.endorser = identity[p] /\ answer.status = 400
      /\ answer.signed = Digest(inv.txid, answer.payload, identity[p])
  BY <1>1, <1>2 DEF Endorse
<1>5. Answers(c, p, answer)
  BY <1>2 DEF PeerRejects
<1> QED
  BY <1>3, <1>4, <1>5, AnswersInv, Zenon

LEMMA NextInv == Inv /\ [Next]_vars => Inv'
<1> SUFFICES ASSUME Inv, [Next]_vars PROVE Inv'
  OBVIOUS
<1>1. ASSUME NEW c \in Clients, EndorsementNext(c) PROVE Inv'
  <2>1. ASSUME NEW p \in Peers, PeerFails(c, p) PROVE Inv'
    BY <2>1, AnswersInv, Zenon DEF PeerFails
  <2> QED
    BY <1>1, <2>1, StartCallInv, CollectInv, EndorsesInv, RejectsInv DEF EndorsementNext
<1>2. ASSUME NEW c \in Clients, Returns(c) PROVE Inv'
  BY <1>2, DoneInv DEF Returns
<1>3. ASSUME NEW c \in Clients, NEW s \in Submitting, pc[c] \in {"endorsed"} \cup Submitting,
             pc' = [pc EXCEPT ![c] = s], UNCHANGED endorsing
      PROVE  Inv'
  <2>1. \A p \in Peers : Signed(c, p)
    BY <1>3 DEF Inv, Answered
  <2>2. pc[c] # "idle"
    BY <1>3 DEF Submitting
  <2> QED
    BY <1>3, <2>1, <2>2, SubmitInv, Zenon
<1>4. ASSUME NEW c \in Clients, SubmitNumber(c) PROVE Inv'
  BY <1>3, <1>4, Zenon DEF SubmitNumber, Submitting
<1>5. ASSUME NEW c \in Clients, PackageTxFails(c) \/ SubmitFails(c) \/ Handle(c) PROVE Inv'
  BY <1>2, <1>5 DEF PackageTxFails, SubmitFails, Handle
<1>6. ASSUME NEW c \in Clients, checkMVCC(c) PROVE Inv'
  BY <1>2, <1>3, <1>6 DEF checkMVCC, Submitting
<1>7. CASE UNCHANGED vars
  <2>1. /\ monotonicVersions' = monotonicVersions /\ identity' = identity /\ pc' = pc
        /\ count' = count /\ results' = results /\ program' = program
    BY <1>7 DEF vars
  <2>2. TypeInv'
    BY <2>1, Zenon DEF Inv, TypeInv
  <2>3. \A c \in Clients, p \in Peers : Signed(c, p) => Signed(c, p)'
    BY <2>1, Untouched
  <2>4. Answered'
    BY <2>1, <2>3 DEF Inv, Answered
  <2> QED
    BY <2>2, <2>4 DEF Inv
<1> QED
  BY <1>1, <1>4, <1>5, <1>6, <1>7 DEF Next

-----------------------------------------------------------------------------
\* Packages.

\* A status that counts as success is not the one of a refusal.
LEMMA NotRefused == \A status \in 200..399 : status # 400
OBVIOUS

\* Endorsers that read the same signed the same bytes.
LEMMA Diverges ==
  ASSUME Inv, NEW c \in Clients, pc[c] = "endorsed", Successful(c),
         \A p, q \in Peers : results[c][p].reads = results[c][q].reads
  PROVE  Packages(c)
<1>1. ASSUME NEW p \in Peers
      PROVE  results[c][p].payload =
               Encoded(monotonicVersions, TxID(c), results[c][p].reads, program[c].writes)
  <2>1. results[c][p].status # 400
    BY NotRefused, Zenon DEF Successful
  <2>2. Signed(c, p)
    BY Zenon DEF Inv, Answered
  <2> QED
    BY <2>1, <2>2, Zenon DEF Signed
<1>2. \A p, q \in Peers : results[c][p].payload = results[c][q].payload
  BY <1>1
<1> QED
  BY <1>2 DEF Packages

LEMMA FirstPeer == Min(Peers) \in Peers
BY First, EndorsementAssumption, Zenon DEF Min

\* Once all have answered, what is packaged verifies.
LEMMA Verifies ==
  ASSUME Inv, NEW c \in Clients, pc[c] = "endorsed", Packages(c)
  PROVE  LET env == CreateTx(c)
         IN /\ \A e \in env.endorsements : e.over = Digest(env.txid, env.payload, e.by)
            /\ \A e, f \in env.endorsements : e.by = f.by => e = f
            /\ {e.by : e \in env.endorsements} = {identity[p] : p \in Peers}
            /\ ParseTx(env) # Nil
<1> DEFINE env == CreateTx(c)
           E(p) == [by |-> results[c][p].endorser, over |-> results[c][p].signed, at |-> p]
<1>1. /\ env.txid = TxID(c) /\ env.payload = results[c][Min(Peers)].payload
      /\ env.endorsements = {E(p) : p \in Unique(c)}
      /\ env.type = IF monotonicVersions THEN "MESSAGE" ELSE "ENDORSER_TRANSACTION"
  BY Zenon DEF CreateTx, Proposal, NewSignedProposal, FabricInvocation, FabricXInvocation
<1>2. \A p \in Peers : Signed(c, p)
  BY DEF Inv, Answered
<1>3. Min(Peers) \in Peers
  BY FirstPeer
<1>4. \A p \in Peers : results[c][p].payload = env.payload
  BY <1>1, <1>3 DEF Packages
<1>5. Unique(c) \subseteq Peers
  BY DEF Unique
<1>6. \A p \in Peers : E(p).by = identity[p] /\ E(p).over = Digest(TxID(c), env.payload, identity[p])
  BY <1>2, <1>4, Zenon DEF Signed
<1>7. ParseTx(env) # Nil
  <2>1. \A R, W : Decoded(R, W) # Nil
    BY DEF Decoded, Nil
  <2> QED
    BY <1>1, <2>1 DEF ParseTx, DecodeNamespaces, FabricRWSet, Inv, TypeInv
<1> HIDE DEF env
<1>8. ASSUME NEW e \in env.endorsements PROVE e.over = Digest(env.txid, env.payload, e.by)
  <2>1. PICK p \in Unique(c) : e = E(p)
    BY <1>1, Zenon
  <2>2. e.by = identity[p] /\ e.over = Digest(TxID(c), env.payload, identity[p])
    BY <1>5, <1>6, <2>1, Zenon
  <2> QED
    BY <1>1, <2>2
<1>9. ASSUME NEW p \in Unique(c), NEW q \in Unique(c), E(p).by = E(q).by PROVE E(p) = E(q)
  <2>1. p \in Nat /\ q \in Nat /\ p <= q /\ q <= p
    BY <1>9, EndorsementAssumption, Zenon DEF Unique
  <2>2. p = q
    BY <2>1
  <2> QED
    BY <2>2
<1>10. ASSUME NEW e \in env.endorsements, NEW f \in env.endorsements, e.by = f.by PROVE e = f
  <2>1. PICK p \in Unique(c) : e = E(p)
    BY <1>1, Zenon
  <2>2. PICK q \in Unique(c) : f = E(q)
    BY <1>1, Zenon
  <2> HIDE DEF E
  <2> QED
    BY <1>9, <1>10, <2>1, <2>2, Zenon
<1>11. ASSUME NEW p \in Peers PROVE \E u \in Unique(c) : E(u).by = identity[p]
  <2> DEFINE S == {q \in Peers : results[c][q].endorser = results[c][p].endorser}
  <2>1. S \subseteq Nat /\ S # {}
    BY EndorsementAssumption, Zenon
  <2>2. PICK u \in S : \A q \in S : u <= q
    BY <2>1, First, Zenon
  <2>3. u \in Unique(c)
    BY <2>2 DEF Unique
  <2> QED
    BY <2>2, <2>3, <1>2, Zenon DEF Signed
<1>12. {e.by : e \in env.endorsements} = {identity[p] : p \in Peers}
  <2>1. ASSUME NEW p \in Unique(c) PROVE E(p).by \in {identity[q] : q \in Peers}
    BY <1>5, <1>6
  <2>2. ASSUME NEW p \in Peers PROVE identity[p] \in {e.by : e \in env.endorsements}
    BY <1>1, <1>11, Zenon
  <2> HIDE DEF E
  <2> QED
    BY <1>1, <2>1, <2>2, Zenon
<1> QED
  BY <1>7, <1>8, <1>10, <1>12, Zenon DEF env

\* What Submit parses is what every endorser read, and the writes of the call.
LEMMA PackagedIs ==
  ASSUME Inv, NEW c \in Clients, pc[c] = "endorsed", Packages(c), NEW p \in Peers
  PROVE  /\ ParseTx(CreateTx(c)).reads = results[c][p].reads
         /\ ParseTx(CreateTx(c)).writes = program[c].writes
<1>1. PICK env : env = CreateTx(c)
  OBVIOUS
<1>2. /\ env.payload = results[c][Min(Peers)].payload
      /\ env.type = IF monotonicVersions THEN "MESSAGE" ELSE "ENDORSER_TRANSACTION"
  BY <1>1 DEF CreateTx, Proposal, NewSignedProposal, FabricInvocation, FabricXInvocation
<1>3. env.payload = results[c][p].payload
  BY <1>2, FirstPeer DEF Packages
<1>4. PICK K, W : /\ K = program[c].reads /\ K \subseteq Nat /\ IsFiniteSet(K)
                  /\ W = program[c].writes /\ W \subseteq Nat /\ IsFiniteSet(W)
  BY ProgramsAreFinite, EndorsementAssumption DEF Inv, TypeInv
<1>5. PICK reads : reads = results[c][p].reads
  OBVIOUS
<1>6. PICK id : id = TxID(c)
  BY Zenon
<1>7. Map(reads, K) /\ env.payload = Encoded(monotonicVersions, id, reads, W)
  <2>1. results[c][p].status # 400
    BY NotRefused, Zenon DEF Packages, Successful
  <2>2. Signed(c, p)
    BY Zenon DEF Inv, Answered
  <2> QED
    BY <1>3, <1>4, <1>5, <1>6, <2>1, <2>2, Zenon DEF Signed
<1>8. /\ DecodeNamespaces(Namespaces(reads, W)).reads = reads
      /\ DecodeNamespaces(Namespaces(reads, W)).writes = W
      /\ \A y : y.rws = RWSet(reads, W) => FabricRWSet(y).reads = reads /\ FabricRWSet(y).writes = W
  BY <1>4, <1>7, EncodedDecodes
<1>9. CASE monotonicVersions
  <2>1. env.payload = Namespaces(reads, W)
    BY <1>7, <1>9, Zenon DEF Encoded
  <2>2. ParseTx(env) = DecodeNamespaces(env.payload)
    BY <1>2, <1>9, Zenon DEF ParseTx
  <2> QED
    BY <1>1, <1>4, <1>5, <1>8, <2>1, <2>2, Zenon
<1>10. CASE ~monotonicVersions
  <2>1. env.payload = [hash |-> id, rws |-> RWSet(reads, W)]
    BY <1>7, <1>10, Zenon DEF Encoded
  <2>2. env.payload.rws = RWSet(reads, W)
    BY <2>1
  <2>3. ParseTx(env) = FabricRWSet(env.payload)
    BY <1>2, <1>10, Zenon DEF ParseTx
  <2> QED
    BY <1>1, <1>4, <1>5, <1>8, <2>2, <2>3, Zenon
<1> QED
  BY <1>9, <1>10

LEMMA InitParsed == Init => Parsed
BY Zenon DEF Init, EndorsementInit, Parsed, Submitting

LEMMA NextParsed == Inv /\ Parsed /\ [Next]_vars => Parsed'
<1> SUFFICES ASSUME Inv, Parsed, [Next]_vars PROVE Parsed'
  OBVIOUS
\* A step that lets no call into Submit.
<1>1. ASSUME DOMAIN tx' = Clients, DOMAIN blockNum' = Clients,
             \A d \in Clients : pc'[d] \in Submitting =>
               /\ pc[d] \in Submitting /\ tx'[d] = tx[d]
               /\ program'[d] = program[d] /\ results'[d] = results[d]
      PROVE  Parsed'
  BY <1>1 DEF Parsed
<1>2. ASSUME NEW c \in Clients, EndorsementNext(c), UNCHANGED <<tx, blockNum>> PROVE Parsed'
  <2>1. \A d \in Clients : pc'[d] \in Submitting =>
          /\ pc[d] \in Submitting /\ tx'[d] = tx[d]
          /\ program'[d] = program[d] /\ results'[d] = results[d]
    BY <1>2, Zenon DEF EndorsementNext, StartCall, Collect, Done, PeerFails, PeerEndorses, PeerRejects,
                Answers, Inv, TypeInv, Submitting
  <2> QED
    BY <1>1, <1>2, <2>1, Zenon DEF Parsed
<1>3. ASSUME NEW c \in Clients, Returns(c) PROVE Parsed'
  <2>1. \A d \in Clients : pc'[d] \in Submitting =>
          /\ pc[d] \in Submitting /\ tx'[d] = tx[d]
          /\ program'[d] = program[d] /\ results'[d] = results[d]
    BY <1>3 DEF Returns, Done, Inv, TypeInv, Parsed, Submitting
  <2>2. DOMAIN tx' = Clients /\ DOMAIN blockNum' = Clients
    BY <1>3 DEF Returns, Parsed
  <2> QED
    BY <1>1, <2>1, <2>2
<1>4. ASSUME NEW c \in Clients, SubmitNumber(c) PROVE Parsed'
  <2>1. \A p \in Peers : /\ ParseTx(CreateTx(c)).reads = results[c][p].reads
                         /\ ParseTx(CreateTx(c)).writes = program[c].writes
    BY <1>4, PackagedIs DEF SubmitNumber
  <2>2. PICK t : t = ParseTx(CreateTx(c))
    OBVIOUS
  <2>3. t.writes = program[c].writes /\ \A p \in Peers : results[c][p].reads = t.reads
    BY <2>1, <2>2, FirstPeer
  <2>4. /\ tx' = [tx EXCEPT ![c] = t] /\ DOMAIN blockNum' = DOMAIN blockNum
        /\ pc' = [pc EXCEPT ![c] = "numbered"] /\ results' = results /\ program' = program
    BY <1>4, <2>2 DEF SubmitNumber, endorsing
  <2> QED
    BY <2>3, <2>4 DEF Parsed, Inv, TypeInv
<1>5. ASSUME NEW c \in Clients, PackageTxFails(c) \/ SubmitFails(c) \/ Handle(c) PROVE Parsed'
  BY <1>3, <1>5 DEF PackageTxFails, SubmitFails, Handle
<1>6. ASSUME NEW c \in Clients, checkMVCC(c), ~Returns(c) PROVE Parsed'
  <2>1. /\ tx' = tx /\ blockNum' = blockNum /\ pc[c] = "numbered"
        /\ pc' = [pc EXCEPT ![c] = "checked"] /\ results' = results /\ program' = program
    BY <1>6 DEF checkMVCC, endorsing
  <2> QED
    BY <2>1 DEF Parsed, Inv, TypeInv, Submitting
<1>7. CASE UNCHANGED vars
  BY <1>7 DEF vars, Parsed
<1> QED
  BY <1>2, <1>3, <1>4, <1>5, <1>6, <1>7 DEF Next

-----------------------------------------------------------------------------
\* Submits that do not overlap.

LEMMA InitSerial == Init => SerialInv
<1> SUFFICES ASSUME Init PROVE SerialInv
  OBVIOUS
<1>1. rows = {} /\ last = -1 /\ pc = [c \in Clients |-> "idle"]
  BY DEF Init, EndorsementInit
<1> QED
  BY <1>1, EmptyTable DEF SerialInv, Submitting

\* A step that stores nothing and lets no call take its turn.
LEMMA SerialFrame ==
  ASSUME SerialInv, rows' = rows, last' = last, monotonicVersions' = monotonicVersions,
         \A d \in Clients : pc'[d] \in Submitting =>
           pc'[d] = pc[d] /\ blockNum'[d] = blockNum[d] /\ tx'[d] = tx[d]
  PROVE  SerialInv'
<1>1. Table(rows') /\ last' \in Nat \cup {-1} /\ \A r \in rows' : r.block <= last'
  BY DEF SerialInv
<1>2. ASSUME NEW d \in Clients, pc'[d] \in Submitting
      PROVE  /\ blockNum'[d] = BlockNumber'
             /\ \A e \in Clients : pc'[e] \in Submitting => e = d
             /\ pc'[d] = "checked" => Current(tx[d].reads)'
  <2>1. blockNum'[d] = BlockNumber' /\ \A e \in Clients : pc'[e] \in Submitting => e = d
    BY <1>2 DEF SerialInv, BlockNumber
  <2>2. pc'[d] = "checked" => Current(tx[d].reads)
    BY <1>2 DEF SerialInv
  <2>3. Current(tx[d].reads) => Current(tx[d].reads)'
    BY <1>2 DEF Current, VersionOf
  <2> QED
    BY <2>1, <2>2, <2>3
<1> QED
  BY <1>1, <1>2, Zenon DEF SerialInv

LEMMA NumberSerial ==
  ASSUME Serial, Inv, Parsed, SerialInv, NEW c \in Clients, SubmitNumber(c)
  PROVE  SerialInv'
<1>1. /\ \A d \in Clients : pc[d] \notin Submitting
      /\ blockNum' = [blockNum EXCEPT ![c] = BlockNumber] /\ pc' = [pc EXCEPT ![c] = "numbered"]
      /\ rows' = rows /\ last' = last
  BY DEF SubmitNumber, Submitting
<1>2. /\ pc'[c] = "numbered" /\ \A d \in Clients \ {c} : pc'[d] \notin Submitting
      /\ blockNum'[c] = BlockNumber
  BY <1>1 DEF Inv, TypeInv, Parsed
<1>3. BlockNumber' = BlockNumber
  BY <1>1 DEF BlockNumber
<1> QED
  BY <1>1, <1>2, <1>3 DEF SerialInv

LEMMA CheckSerial ==
  ASSUME Inv, Parsed, SerialInv, NEW c \in Clients, checkMVCC(c), ~Returns(c)
  PROVE  SerialInv'
<1>1. /\ pc[c] = "numbered" /\ Current(tx[c].reads) /\ pc' = [pc EXCEPT ![c] = "checked"]
      /\ rows' = rows /\ last' = last /\ tx' = tx /\ blockNum' = blockNum
      /\ monotonicVersions' = monotonicVersions
  BY DEF checkMVCC, endorsing
<1>2. Table(rows') /\ last' \in Nat \cup {-1} /\ \A r \in rows' : r.block <= last'
  BY <1>1 DEF SerialInv
<1>3. \A d \in Clients : pc'[d] \in Submitting => pc[d] \in Submitting
  BY <1>1 DEF Inv, TypeInv, Submitting
<1>4. ASSUME NEW d \in Clients, pc'[d] \in Submitting
      PROVE  /\ blockNum'[d] = BlockNumber'
             /\ \A e \in Clients : pc'[e] \in Submitting => e = d
             /\ Current(tx[d].reads)'
  <2>1. d = c
    BY <1>1, <1>3, <1>4, Zenon DEF SerialInv, Submitting
  <2>2. blockNum'[d] = BlockNumber' /\ \A e \in Clients : pc'[e] \in Submitting => e = d
    BY <1>1, <1>3, <1>4, Zenon DEF SerialInv, BlockNumber
  <2> QED
    BY <1>1, <2>1, <2>2, Zenon DEF Current, VersionOf
<1> QED
  BY <1>2, <1>4 DEF SerialInv

\* The writes of the one transaction of a block, all of them puts.
Puts(K, id) == {[tx |-> 0, key |-> k, valid |-> TRUE, content |-> id] : k \in K}

LEMMA PutsAre ==
  ASSUME NEW K, K \subseteq Keys, NEW id \in Contents
  PROVE  /\ Puts(K, id) \subseteq Writes
         /\ \A w \in Puts(K, id) : w.tx = 0 /\ w.valid /\ w.content = id /\ w.key \in K
         /\ \A w, x \in Puts(K, id) : w.key = x.key => w = x
         /\ \A k \in K : \E w \in Puts(K, id) : w.key = k
<1> DEFINE f(k) == [tx |-> 0, key |-> k, valid |-> TRUE, content |-> id]
<1>1. \A k \in K : /\ f(k) \in Writes
                   /\ f(k).tx = 0 /\ f(k).valid /\ f(k).content = id /\ f(k).key = k
  BY DEF Writes
<1> HIDE DEF f
<1> DEFINE ws == {f(k) : k \in K}
<1>2. /\ ws \subseteq Writes
      /\ \A w \in ws : w.tx = 0 /\ w.valid /\ w.content = id /\ w.key \in K
      /\ \A w, x \in ws : w.key = x.key => w = x
      /\ \A k \in K : \E w \in ws : w.key = k
  BY <1>1
<1> QED
  BY <1>2 DEF f, Puts

\* The block is stored after all rows, and shows in every key it writes.
LEMMA HandleStores ==
  ASSUME Inv, Parsed, SerialInv, NEW c \in Clients, Handle(c)
  PROVE  /\ Table(rows') /\ last' \in Nat \cup {-1} /\ \A r \in rows' : r.block <= last'
         /\ \A k \in program[c].writes : Get(rows', k).content = TxID(c)
<1>1. PICK b : b = NewBlock(c)
  OBVIOUS
<1>2. PICK ws : ws = BlockOf(c)
  OBVIOUS
<1>3. PICK id : id = TxID(c)
  OBVIOUS
<1>4. PICK K : K = program[c].writes /\ K \subseteq Keys
  BY ProgramsAreFinite DEF Inv, TypeInv
<1>5. id \in Contents
  <2>1. count[c] \in 1..MaxCalls
    BY DEF Inv, TypeInv, Answered, Handle
  <2> QED
    BY <1>3, <2>1, EndorsementAssumption DEF TxID
<1>6. tx[c].writes = K
  BY <1>4 DEF Parsed, Handle, Submitting
<1>7. ws = Puts(K, id)
  BY <1>2, <1>3, <1>6, Zenon DEF BlockOf, Puts
<1>8. /\ ws \subseteq Writes
      /\ \A w \in ws : w.tx = 0 /\ w.valid /\ w.content = id /\ w.key \in K
      /\ \A w, x \in ws : w.key = x.key => w = x
      /\ \A k \in K : \E w \in ws : w.key = k
  BY <1>4, <1>5, <1>7, PutsAre
<1>9. b \in Nat /\ last < b /\ \A r \in rows : r.block < b
  <2>1. b = BlockNumber + 1 /\ last \in Nat \cup {-1}
    BY <1>1, Zenon DEF NewBlock, SerialInv, Handle, Submitting
  <2>2. \A r \in rows : r.block \in Nat /\ r.block <= last
    BY Zenon DEF SerialInv, Table, Rows
  <2> QED
    BY <2>1, <2>2 DEF BlockNumber
<1>10. Table(rows)
  BY DEF SerialInv
<1>11. \A w \in ws : Agrees(rows, b, w)
  BY <1>9 DEF Agrees, SameRow, RowsOf, SerialInv, Table, Rows
<1>12. rows' = WithTx(rows, b, ws) /\ last' = b
  BY <1>1, <1>2, <1>9, <1>11 DEF Handle
<1>13. PICK R, T : R = rows /\ T = WithTx(R, b, ws)
  BY Zenon
<1>14. /\ Table(T)
       /\ \A r \in T : r \in R \/ \E w \in ws : w.valid /\ Is(r, b, w) /\ r.content = w.content
       /\ \A w \in ws : w.valid =>
            \E r \in T : /\ Is(r, b, w) /\ r.content = w.content
                         /\ \A q \in RowsOf(T, w.key) : q.version <= r.version
  <2>1. PICK n \in Nat : n = 0
    OBVIOUS
  <2>2. b \in Nat /\ Table(R) /\ ws \subseteq Writes
    BY <1>8, <1>9, <1>10, <1>13, Zenon
  <2>3. \A w \in ws : w.tx = n
    BY <1>8, <2>1, Zenon
  <2>4. \A w, x \in ws : w.key = x.key => w = x
    BY <1>8, Zenon
  <2>5. \A r \in R : r.block < b \/ (r.block = b /\ r.tx < n)
    BY <1>9, <1>13, Zenon
  <2> QED
    BY <1>13, <2>2, <2>3, <2>4, <2>5, WithTxIs
<1>15. ASSUME NEW r \in T PROVE r.block <= b
  <2>1. CASE r \in R
    BY <1>9, <1>10, <1>13, <2>1 DEF Table, Rows
  <2>2. CASE r \notin R
    <3>1. PICK w \in ws : Is(r, b, w)
      BY <1>14, <2>2, Zenon
    <3> QED
      BY <1>9, <3>1 DEF Is
  <2> QED
    BY <2>1, <2>2
<1>16. ASSUME NEW k \in K PROVE Get(T, k).content = id
  <2>1. PICK w \in ws : w.key = k /\ w.content = id /\ w.valid
    BY <1>8
  <2>2. PICK r \in T : /\ Is(r, b, w) /\ r.content = id
                       /\ \A q \in RowsOf(T, k) : q.version <= r.version
    BY <1>14, <2>1
  <2>3. r \in RowsOf(T, k) /\ RowsOf(T, k) \subseteq T /\ \A q \in RowsOf(T, k) : q.key = r.key
    BY <2>1, <2>2 DEF RowsOf, Is
  <2>4. HighestVersion(RowsOf(T, k)) = r
    BY <1>14, <2>2, <2>3, HighestIs
  <2> QED
    BY <2>2, <2>4 DEF Get
<1> QED
  BY <1>3, <1>4, <1>9, <1>12, <1>13, <1>14, <1>15, <1>16, Zenon

LEMMA NextSerial ==
  ASSUME Serial, Inv, Parsed, SerialInv, [Next]_vars
  PROVE  SerialInv'
<1>1. ASSUME NEW c \in Clients, EndorsementNext(c), UNCHANGED <<tx, blockNum>> PROVE SerialInv'
  <2>1. \A d \in Clients : pc'[d] \in Submitting => pc'[d] = pc[d]
    BY <1>1, Zenon DEF EndorsementNext, StartCall, Collect, Done, PeerFails, PeerEndorses, PeerRejects,
                Answers, Inv, TypeInv, Submitting
  <2>2. rows' = rows /\ last' = last /\ monotonicVersions' = monotonicVersions
    BY <1>1 DEF EndorsementNext, StartCall, Collect, PeerFails, PeerEndorses, PeerRejects, Answers
  <2> QED
    BY <1>1, <2>1, <2>2, SerialFrame, Zenon
<1>2. ASSUME NEW c \in Clients, Returns(c)
      PROVE  \A d \in Clients : pc'[d] \in Submitting =>
               d # c /\ pc'[d] = pc[d] /\ blockNum'[d] = blockNum[d] /\ tx'[d] = tx[d]
  BY <1>2 DEF Returns, Done, Inv, TypeInv, Parsed, Submitting
<1>3. ASSUME NEW c \in Clients, Returns(c), rows' = rows, last' = last PROVE SerialInv'
  BY <1>2, <1>3, SerialFrame, Zenon DEF Returns
<1>4. ASSUME NEW c \in Clients, PackageTxFails(c) \/ SubmitFails(c) PROVE SerialInv'
  BY <1>3, <1>4 DEF PackageTxFails, SubmitFails
<1>5. ASSUME NEW c \in Clients, checkMVCC(c) PROVE SerialInv'
  BY <1>3, <1>5, CheckSerial DEF checkMVCC
<1>6. ASSUME NEW c \in Clients, Handle(c) PROVE SerialInv'
  <2>1. \A d \in Clients : pc'[d] \notin Submitting
    BY <1>2, <1>6, Zenon DEF Handle, SerialInv, Submitting
  <2> QED
    BY <1>6, <2>1, HandleStores DEF SerialInv
<1>7. CASE UNCHANGED vars
  BY <1>7, SerialFrame DEF vars
<1> QED
  BY <1>1, <1>4, <1>5, <1>6, <1>7, NumberSerial DEF Next

-----------------------------------------------------------------------------
\* The theorems.

LEMMA InvHolds == Spec => [](Inv /\ Parsed)
BY InitInv, NextInv, InitParsed, NextParsed, PTL DEF Spec

\* SignaturesVerify, for every number of clients and endorsers, whatever blocks
\* are stored between their answers.
THEOREM PackagesVerify == Spec => []SignaturesVerify
<1>1. Inv => SignaturesVerify
  BY Verifies, Zenon DEF SignaturesVerify
<1> QED
  BY <1>1, InvHolds, PTL

\* RefusalMeansDivergence, for every number of clients, endorsers and keys: with
\* equal reads, the order of Go's maps and the endorser do not reach the payload.
THEOREM RefusalsAreDivergence == Spec => []RefusalMeansDivergence
<1>1. Inv => RefusalMeansDivergence
  BY Diverges DEF RefusalMeansDivergence
<1> QED
  BY <1>1, InvHolds, PTL

\* A step that ends a validated Submit is its Handle.
LEMMA OnlyHandle ==
  ASSUME Inv, [Next]_vars, NEW c \in Clients, pc[c] = "checked", pc'[c] = "idle"
  PROVE  Handle(c)
<1>1. ASSUME NEW d \in Clients, EndorsementNext(d) PROVE FALSE
  BY <1>1, Zenon DEF EndorsementNext, StartCall, Collect, Done, PeerFails, PeerEndorses, PeerRejects,
              Answers, Inv, TypeInv
<1>2. ASSUME NEW d \in Clients, Returns(d), d # c PROVE FALSE
  BY <1>2 DEF Returns, Done, Inv, TypeInv
<1>3. ASSUME NEW d \in Clients, SubmitNumber(d) PROVE FALSE
  BY <1>3 DEF SubmitNumber, Inv, TypeInv
<1>4. ASSUME NEW d \in Clients, PackageTxFails(d) \/ SubmitFails(d) PROVE FALSE
  BY <1>2, <1>4 DEF PackageTxFails, SubmitFails
<1>5. ASSUME NEW d \in Clients, checkMVCC(d) PROVE FALSE
  BY <1>2, <1>5, Zenon DEF checkMVCC, Inv, TypeInv
<1>6. ASSUME NEW d \in Clients, Handle(d), d # c PROVE FALSE
  BY <1>2, <1>6 DEF Handle
<1>7. CASE UNCHANGED vars
  BY <1>7 DEF vars
<1> QED
  BY <1>1, <1>3, <1>4, <1>5, <1>6, <1>7, Zenon DEF Next

LEMMA SerialHolds == ASSUME Serial PROVE Spec => []SerialInv
<1>1. Inv /\ Parsed /\ SerialInv /\ [Next]_vars => SerialInv'
  BY NextSerial
<1> QED
  BY <1>1, InvHolds, InitSerial, PTL DEF Spec

\* StoredReadsAreCurrent, for every number of clients and keys, if the clients
\* wait for one Submit before the next.
THEOREM SerialSubmitsAreSerializable == ASSUME Serial PROVE Spec => StoredReadsAreCurrent
<1>1. ASSUME Inv, Parsed, SerialInv, NEW c \in Clients, pc[c] = "checked", NEW p \in Peers
      PROVE  Current(results[c][p].reads)
  <2>1. Current(tx[c].reads) /\ results[c][p].reads = tx[c].reads
    BY <1>1 DEF SerialInv, Parsed, Submitting
  <2> QED
    BY <2>1
<1>2. Inv /\ Parsed /\ SerialInv /\ [Next]_vars =>
        [\A c \in Clients : (pc[c] = "checked" /\ rows' # rows /\ pc'[c] = "idle")
           => \A p \in Peers : Current(results[c][p].reads)]_vars
  BY <1>1
<1> QED
  BY <1>2, InvHolds, SerialHolds, PTL DEF Spec, StoredReadsAreCurrent

\* StoredIsVisible, for every number of clients and keys, if the clients wait for
\* one Submit before the next.
THEOREM SerialSubmitsAreVisible == ASSUME Serial PROVE Spec => StoredIsVisible
<1>1. ASSUME Inv, Parsed, SerialInv, [Next]_vars, NEW c \in Clients, pc[c] = "checked",
             pc'[c] = "idle", NEW k \in program[c].writes
      PROVE  Get(rows', k).content = TxID(c)
  BY <1>1, OnlyHandle, HandleStores
<1>2. Inv /\ Parsed /\ SerialInv /\ [Next]_vars =>
        [\A c \in Clients : (pc[c] = "checked" /\ pc'[c] = "idle")
           => \A k \in program[c].writes : Get(rows', k).content = TxID(c)]_vars
  BY <1>1
<1> QED
  BY <1>2, InvHolds, SerialHolds, PTL DEF Spec, StoredIsVisible
=============================================================================
