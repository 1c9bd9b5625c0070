-------------------------- MODULE WorldStateProofs --------------------------
(***************************************************************************)
(* What the operators of WorldState and Ordering compute, for every set    *)
(* of keys and every number of rows: sorting, the versions of a table, and *)
(* what storing a transaction or a block adds to it.  The proofs about     *)
(* VersionedDB, Execution and LocalSubmitter build on these facts.         *)
(***************************************************************************)
EXTENDS WorldState, TLAPS, FiniteSetTheorems, WellFoundedInduction

-----------------------------------------------------------------------------
\* Numbers and sorting.

\* A set of numbers has a least one.
LEMMA First ==
  ASSUME NEW S, S \subseteq Nat, S # {}
  PROVE  \E m \in S : \A n \in S : m <= n
<1> DEFINE Less == OpToRel(<, Nat)
<1>1. \A m, n \in Nat : n < m => <<n, m>> \in Less
  BY DEF OpToRel
<1>2. IsWellFoundedOn(Less, Nat)
  BY NatLessThanWellFounded, Zenon
<1> HIDE DEF Less
<1>3. PICK m \in S : \A n \in S : ~(<<n, m>> \in Less)
  BY <1>2, WFMin
<1>4. ASSUME NEW n \in S PROVE m <= n
  <2>1. m \in Nat /\ n \in Nat /\ ~(n < m)
    BY <1>1, <1>3
  <2> QED
    BY <2>1
<1> QED
  BY <1>4

\* A strict total order on S.
Orders(before, S) ==
  /\ \A x \in S : <<x, x>> \notin before
  /\ \A x, y, z \in S : <<x, y>> \in before /\ <<y, z>> \in before => <<x, z>> \in before
  /\ \A x, y \in S : x # y => <<x, y>> \in before \/ <<y, x>> \in before

Below(S, before, x) == {y \in S : <<y, x>> \in before}

\* An element is before another when it has fewer elements below it.
LEMMA RankGrows ==
  ASSUME NEW S, IsFiniteSet(S), NEW before, Orders(before, S)
  PROVE  /\ \A x \in S : Cardinality(Below(S, before, x)) \in 0..(Cardinality(S) - 1)
         /\ \A x, y \in S : <<x, y>> \in before =>
              Cardinality(Below(S, before, x)) < Cardinality(Below(S, before, y))
<1>1. \A x \in S : Below(S, before, x) \in SUBSET S
  BY DEF Below
<1>2. ASSUME NEW x \in S
      PROVE  IsFiniteSet(Below(S, before, x)) /\ Cardinality(Below(S, before, x)) \in Nat
  BY <1>1, FS_Subset, FS_CardinalityType
<1>3. Cardinality(S) \in Nat
  BY FS_CardinalityType
<1>4. ASSUME NEW x \in S PROVE Cardinality(Below(S, before, x)) < Cardinality(S)
  <2>1. x \notin Below(S, before, x)
    BY DEF Below, Orders
  <2>2. /\ Cardinality(Below(S, before, x)) <= Cardinality(S)
        /\ Cardinality(S) = Cardinality(Below(S, before, x)) => S = Below(S, before, x)
    BY <1>1, FS_Subset
  <2> QED
    BY <1>2, <1>3, <2>1, <2>2
<1>5. ASSUME NEW x \in S, NEW y \in S, <<x, y>> \in before
      PROVE  Cardinality(Below(S, before, x)) < Cardinality(Below(S, before, y))
  <2>1. Below(S, before, x) \in SUBSET Below(S, before, y)
    BY <1>5 DEF Below, Orders
  <2>2. x \notin Below(S, before, x) /\ x \in Below(S, before, y)
    BY <1>5 DEF Below, Orders
  <2>3. /\ Cardinality(Below(S, before, x)) <= Cardinality(Below(S, before, y))
        /\ Cardinality(Below(S, before, y)) = Cardinality(Below(S, before, x))
             => Below(S, before, y) = Below(S, before, x)
    BY <1>2, <2>1, FS_Subset
  <2> QED
    BY <1>2, <2>2, <2>3
<1> QED
  BY <1>2, <1>3, <1>4, <1>5

\* OrderBy lists every element once, and in order.
LEMMA OrderByIs ==
  ASSUME NEW S, IsFiniteSet(S), NEW before, Orders(before, S)
  PROVE  /\ Cardinality(S) \in Nat /\ OrderBy(S, before) \in [1..Cardinality(S) -> S]
         /\ \A i \in 1..Cardinality(S) :
              Cardinality(Below(S, before, OrderBy(S, before)[i])) = i - 1
         /\ Elements(OrderBy(S, before)) = S
         /\ \A i, j \in 1..Cardinality(S) :
              i < j => <<OrderBy(S, before)[i], OrderBy(S, before)[j]>> \in before
<1> DEFINE n == Cardinality(S)
           o == OrderBy(S, before)
           rank == [x \in S |-> Cardinality(Below(S, before, x))]
<1>1. n \in Nat
  BY FS_CardinalityType
<1>2. \A x \in S : rank[x] \in 0..(n - 1)
  BY RankGrows
<1>3. \A x, y \in S : <<x, y>> \in before => rank[x] < rank[y]
  BY RankGrows
<1>4. \A x, y \in S : rank[x] = rank[y] => x = y
  <2> SUFFICES ASSUME NEW x \in S, NEW y \in S, rank[x] = rank[y], x # y PROVE FALSE
    OBVIOUS
  <2>1. rank[x] < rank[y] \/ rank[y] < rank[x]
    BY <1>3 DEF Orders
  <2>2. rank[x] \in 0..(n - 1) /\ rank[y] \in 0..(n - 1)
    BY <1>2
  <2> QED
    BY <1>1, <2>1, <2>2
<1>5. rank \in Injection(S, 0..(n - 1))
  <2>1. rank \in [S -> 0..(n - 1)]
    BY <1>2
  <2> HIDE DEF rank
  <2> QED
    BY <1>4, <2>1 DEF Injection, IsInjective
<1>6. IsFiniteSet(0..(n - 1)) /\ Cardinality(0..(n - 1)) = n
  <2>1. 0 \in Int /\ n - 1 \in Int
    BY <1>1
  <2>2. /\ IsFiniteSet(0..(n - 1))
        /\ Cardinality(0..(n - 1)) = IF 0 > n - 1 THEN 0 ELSE (n - 1) - 0 + 1
    BY <2>1, FS_Interval
  <2> QED
    BY <1>1, <2>2
<1>7. rank \in Surjection(S, 0..(n - 1))
  BY <1>5, <1>6, FS_Injection
<1>8. ASSUME NEW i \in 1..n PROVE \E x \in S : rank[x] = i - 1
  <2>1. i - 1 \in 0..(n - 1)
    BY <1>1
  <2> QED
    BY <1>7, <2>1 DEF Surjection
<1>9. \A x \in S : rank[x] = Cardinality(Below(S, before, x))
  OBVIOUS
<1> HIDE DEF rank
<1>10. o = [i \in 1..n |-> CHOOSE x \in S : Cardinality(Below(S, before, x)) = i - 1]
  BY DEF OrderBy, Below
<1> HIDE DEF o, n
<1>11. \A i \in 1..n : o[i] \in S /\ rank[o[i]] = i - 1
  <2> SUFFICES ASSUME NEW i \in 1..n PROVE o[i] \in S /\ rank[o[i]] = i - 1
    OBVIOUS
  <2>1. o[i] = CHOOSE x \in S : Cardinality(Below(S, before, x)) = i - 1
    BY <1>10
  <2>2. \E x \in S : Cardinality(Below(S, before, x)) = i - 1
    BY <1>8, <1>9
  <2> QED
    BY <1>9, <2>1, <2>2
<1>12. ASSUME NEW x \in S PROVE \E i \in 1..n : o[i] = x
  <2>1. rank[x] + 1 \in 1..n /\ (rank[x] + 1) - 1 = rank[x]
    BY <1>1, <1>2
  <2>2. PICK i \in 1..n : i = rank[x] + 1 /\ i - 1 = rank[x]
    BY <2>1
  <2> QED
    BY <1>4, <1>11, <2>2
<1>13. o \in [1..n -> S]
  BY <1>10, <1>11
<1>14. Elements(o) = S
  BY <1>11, <1>12, <1>13 DEF Elements
<1>15. ASSUME NEW i \in 1..n, NEW j \in 1..n, i < j PROVE <<o[i], o[j]>> \in before
  <2>1. o[i] \in S /\ o[j] \in S /\ rank[o[i]] = i - 1 /\ rank[o[j]] = j - 1
    BY <1>11
  <2>2. rank[o[i]] < rank[o[j]] /\ ~(rank[o[j]] < rank[o[i]])
    BY <1>1, <1>15, <2>1
  <2>3. o[i] # o[j]
    BY <1>15, <2>1, <1>1
  <2> QED
    BY <1>3, <2>1, <2>2, <2>3 DEF Orders
<1> QED
  BY <1>1, <1>9, <1>11, <1>13, <1>14, <1>15 DEF o, n

\* InOrder enumerates a finite set of numbers, in increasing order.
LEMMA InOrderIs ==
  ASSUME NEW S, IsFiniteSet(S), S \subseteq Nat
  PROVE  /\ Cardinality(S) \in Nat /\ InOrder(S) \in [1..Cardinality(S) -> S]
         /\ Elements(InOrder(S)) = S
         /\ \A i, j \in 1..Cardinality(S) : i < j => InOrder(S)[i] < InOrder(S)[j]
<1> DEFINE before == {p \in S \X S : p[1] < p[2]}
<1>1. \A x, y \in S : <<x, y>> \in before <=> x < y
  OBVIOUS
<1>2. \A x \in S : x \in Nat
  OBVIOUS
<1> HIDE DEF before
<1>3. Orders(before, S)
  BY <1>1, <1>2 DEF Orders
<1>4. InOrder(S) = OrderBy(S, before)
  BY DEF InOrder, before
<1>5. /\ Cardinality(S) \in Nat /\ OrderBy(S, before) \in [1..Cardinality(S) -> S]
      /\ Elements(OrderBy(S, before)) = S
      /\ \A i, j \in 1..Cardinality(S) :
           i < j => <<OrderBy(S, before)[i], OrderBy(S, before)[j]>> \in before
  BY <1>3, OrderByIs
<1> QED
  BY <1>1, <1>4, <1>5

-----------------------------------------------------------------------------
\* Tables.

UpTo(R, k, n) == {r \in RowsOf(R, k) : r.block <= n}

\* A table: a row per key, block and transaction, versions without gaps in ledger
\* order, and a highest version up to every height at which the key has a row.
Table(R) ==
  /\ R \subseteq Rows
  /\ \A r, q \in R : r.key = q.key /\ r.block = q.block /\ r.tx = q.tx => r = q
  /\ \A r, q \in R : r.key = q.key => (Earlier(r, q) <=> r.version < q.version)
  /\ \A r \in R : \A v \in 0..r.version : \E q \in R : q.key = r.key /\ q.version = v
  /\ \A k \in Keys : \A n \in Nat :
       UpTo(R, k, n) = {} \/
       \E r \in UpTo(R, k, n) : \A q \in UpTo(R, k, n) : q.version <= r.version

Is(r, b, w) == r.key = w.key /\ r.block = b /\ r.tx = w.tx

LEMMA EmptyTable == Table({})
BY DEF Table, UpTo, RowsOf

\* A version is given once.
LEMMA VersionsAreUnique ==
  ASSUME NEW R, Table(R), NEW r \in R, NEW q \in R, r.key = q.key, r.version = q.version
  PROVE  r = q
<1>1. /\ r.block \in Nat /\ r.tx \in Nat /\ r.version \in Nat
      /\ q.block \in Nat /\ q.tx \in Nat /\ q.version \in Nat
  BY DEF Table, Rows
<1>2. ~Earlier(r, q) /\ ~Earlier(q, r)
  BY <1>1 DEF Table
<1>3. r.block = q.block /\ r.tx = q.tx
  BY <1>1, <1>2 DEF Earlier
<1> QED
  BY <1>3 DEF Table

\* MAX(version) + 1 is above every version of the key and leaves no gap.
LEMMA NextVersionIsNext ==
  ASSUME NEW R, Table(R), NEW b \in Nat, NEW k \in Keys,
         \A r \in RowsOf(R, k) : r.block <= b
  PROVE  /\ NextVersion(R, k) \in Nat
         /\ \A r \in RowsOf(R, k) : r.version < NextVersion(R, k)
         /\ NextVersion(R, k) = 0 \/ \E r \in RowsOf(R, k) : NextVersion(R, k) = r.version + 1
<1>1. CASE RowsOf(R, k) = {}
  BY <1>1 DEF NextVersion
<1>2. CASE RowsOf(R, k) # {}
  <2> DEFINE V == {r.version : r \in RowsOf(R, k)}
  <2>1. \A r \in RowsOf(R, k) : r.version \in Nat
    BY DEF Table, RowsOf, Rows
  <2>2. UpTo(R, k, b) = RowsOf(R, k)
    BY DEF UpTo
  <2>3. PICK m \in RowsOf(R, k) : \A q \in RowsOf(R, k) : q.version <= m.version
    BY <1>2, <2>2 DEF Table
  <2>4. m.version \in V /\ \A y \in V : m.version >= y
    BY <2>1, <2>3
  <2>5. Max(V) \in V /\ \A y \in V : Max(V) >= y
    BY <2>4, Zenon DEF Max
  <2>6. PICK p \in RowsOf(R, k) : Max(V) = p.version
    BY <2>5
  <2>7. NextVersion(R, k) = p.version + 1
    BY <1>2, <2>6 DEF NextVersion
  <2>8. \A r \in RowsOf(R, k) : r.version <= p.version
    BY <2>1, <2>5, <2>6
  <2> QED
    BY <2>1, <2>7, <2>8
<1> QED
  BY <1>1, <1>2

\* New rows keep a table if there is one per key at most, later in the ledger than
\* the rows of the key, with the next version.
LEMMA AddRows ==
  ASSUME NEW R, Table(R), NEW X, X \subseteq Rows,
         \A x \in X : x.version = NextVersion(R, x.key),
         \A x \in X : \A r \in RowsOf(R, x.key) : Earlier(r, x),
         \A x, y \in X : x.key = y.key => x = y
  PROVE  Table(R \cup X)
<1> DEFINE S == R \cup X
<1>1. \A r \in S : /\ r \in Rows /\ r.key \in Keys /\ r.block \in Nat /\ r.tx \in Nat
                   /\ r.version \in Nat
  BY DEF Table, Rows
<1>2. ASSUME NEW x \in X
      PROVE  /\ \A r \in RowsOf(R, x.key) : r.version < x.version
             /\ x.version = 0 \/ \E r \in RowsOf(R, x.key) : x.version = r.version + 1
  <2>1. x.key \in Keys /\ x.block \in Nat /\ x.version = NextVersion(R, x.key)
    BY <1>1
  <2>2. \A r \in RowsOf(R, x.key) : r.block <= x.block
    BY <1>1 DEF RowsOf, Earlier
  <2> QED
    BY <2>1, <2>2, NextVersionIsNext
<1>3. ASSUME NEW r \in R, NEW x \in X, r.key = x.key
      PROVE  Earlier(r, x) /\ ~Earlier(x, r) /\ r.version < x.version
  <2>1. r \in RowsOf(R, x.key)
    BY <1>3 DEF RowsOf
  <2> QED
    BY <1>1, <1>2, <2>1 DEF Earlier
<1>4. \A r, q \in S : r.key = q.key /\ r.block = q.block /\ r.tx = q.tx => r = q
  <2> SUFFICES ASSUME NEW r \in S, NEW q \in S, r.key = q.key, r.block = q.block, r.tx = q.tx
               PROVE  r = q
    OBVIOUS
  <2>1. CASE r \in R /\ q \in R
    BY <2>1 DEF Table
  <2>2. CASE r \in R /\ q \in X
    BY <1>1, <1>3, <2>2 DEF Earlier
  <2>3. CASE r \in X /\ q \in R
    BY <1>1, <1>3, <2>3 DEF Earlier
  <2>4. CASE r \in X /\ q \in X
    BY <2>4
  <2> QED
    BY <2>1, <2>2, <2>3, <2>4
<1>5. \A r, q \in S : r.key = q.key => (Earlier(r, q) <=> r.version < q.version)
  <2> SUFFICES ASSUME NEW r \in S, NEW q \in S, r.key = q.key
               PROVE  Earlier(r, q) <=> r.version < q.version
    OBVIOUS
  <2>1. CASE r \in R /\ q \in R
    BY <2>1 DEF Table
  <2>2. CASE r \in R /\ q \in X
    BY <1>3, <2>2
  <2>3. CASE r \in X /\ q \in R
    <3>1. ~Earlier(r, q) /\ q.version < r.version
      BY <1>3, <2>3
    <3> QED
      BY <1>1, <3>1
  <2>4. CASE r \in X /\ q \in X
    <3>1. r = q
      BY <2>4
    <3> QED
      BY <1>1, <3>1 DEF Earlier
  <2> QED
    BY <2>1, <2>2, <2>3, <2>4
<1>6. \A r \in S : \A u \in 0..r.version : \E q \in S : q.key = r.key /\ q.version = u
  <2> SUFFICES ASSUME NEW r \in S, NEW u \in 0..r.version
               PROVE  \E q \in S : q.key = r.key /\ q.version = u
    OBVIOUS
  <2>1. CASE r \in R
    BY <2>1 DEF Table
  <2>2. CASE u = r.version
    BY <2>2
  <2>3. CASE r \in X /\ u # r.version
    <3>1. PICK p \in RowsOf(R, r.key) : r.version = p.version + 1
      BY <1>1, <1>2, <2>3
    <3>2. p \in R /\ p.key = r.key /\ p.version \in Nat
      BY <1>1, <3>1 DEF RowsOf
    <3>3. u \in 0..p.version
      BY <1>1, <2>3, <3>1, <3>2
    <3>4. \E q \in R : q.key = p.key /\ q.version = u
      BY <3>2, <3>3 DEF Table
    <3> QED
      BY <3>2, <3>4
  <2> QED
    BY <2>1, <2>2, <2>3
<1>7. ASSUME NEW j \in Keys, NEW n \in Nat
      PROVE  UpTo(S, j, n) = {} \/
             \E r \in UpTo(S, j, n) : \A q \in UpTo(S, j, n) : q.version <= r.version
  <2>1. CASE UpTo(S, j, n) = UpTo(R, j, n)
    BY <2>1 DEF Table
  <2>2. CASE UpTo(S, j, n) # UpTo(R, j, n)
    <3>1. PICK x \in X : x.key = j /\ x.block <= n /\ x \in UpTo(S, j, n)
      BY <2>2 DEF UpTo, RowsOf
    <3>2. ASSUME NEW q \in UpTo(S, j, n) PROVE q.version <= x.version
      <4>1. q \in S /\ q.key = x.key
        BY <3>1 DEF UpTo, RowsOf
      <4>2. CASE q \in X
        BY <1>1, <4>1, <4>2
      <4>3. CASE q \in R
        BY <1>1, <1>3, <4>1, <4>3
      <4> QED
        BY <4>1, <4>2, <4>3
    <3> QED
      BY <3>1, <3>2
  <2> QED
    BY <2>1, <2>2
<1>8. S \subseteq Rows
  BY <1>1
<1> QED
  BY <1>4, <1>5, <1>6, <1>7, <1>8, Zenon DEF Table

\* An INSERT that is later in the ledger than every row of its key keeps a table.
LEMMA InsertKeepsTable ==
  ASSUME NEW R, Table(R), NEW b \in Nat, NEW w \in Writes,
         \A r \in RowsOf(R, w.key) : r.block < b \/ (r.block = b /\ r.tx < w.tx)
  PROVE  \E x \in Rows :
           /\ Is(x, b, w) /\ x.content = w.content
           /\ Inserted(R, b, w) = R \cup {x}
           /\ Table(R \cup {x})
<1> DEFINE x == NewRow(R, b, w)
<1>1. w.key \in Keys /\ w.tx \in Nat /\ w.content \in Contents
  BY DEF Writes
<1>2. \A r \in RowsOf(R, w.key) : r.block \in Nat /\ r.tx \in Nat
  BY DEF Table, Rows, RowsOf
<1>3. NextVersion(R, w.key) \in Nat
  <2>1. \A r \in RowsOf(R, w.key) : r.block <= b
    BY <1>2
  <2> QED
    BY <1>1, <2>1, NextVersionIsNext
<1>4. /\ x \in Rows /\ Is(x, b, w) /\ x.content = w.content
      /\ x.key = w.key /\ x.version = NextVersion(R, w.key) /\ x.block = b /\ x.tx = w.tx
  BY <1>1, <1>3 DEF NewRow, Rows, Is
<1>5. Inserted(R, b, w) = R \cup {x}
  <2>1. SameRow(R, b, w) = {}
    BY <1>1, <1>2 DEF SameRow
  <2> QED
    BY <2>1 DEF Inserted
<1> HIDE DEF x
<1>6. \A r \in RowsOf(R, w.key) : Earlier(r, x)
  BY <1>4 DEF Earlier
<1>7. Table(R \cup {x})
  <2> DEFINE X == {x}
  <2>1. /\ X \subseteq Rows /\ \A y \in X : y.version = NextVersion(R, y.key)
        /\ \A y \in X : \A r \in RowsOf(R, y.key) : Earlier(r, y)
        /\ \A y, z \in X : y.key = z.key => y = z
    BY <1>4, <1>6
  <2> HIDE DEF X
  <2>2. Table(R \cup X)
    BY <2>1, AddRows
  <2> QED
    BY <2>2 DEF X
<1> QED
  BY <1>4, <1>5, <1>7

\* An INSERT of a write whose row is there changes nothing.
LEMMA InsertAgain ==
  ASSUME NEW R, NEW b, NEW w, \E r \in R : Is(r, b, w)
  PROVE  Inserted(R, b, w) = R
BY DEF Inserted, SameRow, RowsOf, Is

\* The rows of a key are finitely many, numbered by their versions.
LEMMA CountByVersion ==
  ASSUME NEW R, Table(R), NEW r \in R
  PROVE  /\ IsFiniteSet({q \in RowsOf(R, r.key) : q.version < r.version})
         /\ Cardinality({q \in RowsOf(R, r.key) : q.version < r.version}) = r.version
<1> DEFINE T == {q \in RowsOf(R, r.key) : q.version < r.version}
           v == r.version
           f == [q \in T |-> q.version + 1]
<1>1. v \in Nat /\ \A q \in T : q \in R /\ q.key = r.key /\ q.version \in Nat /\ q.version < v
  BY DEF Table, Rows, RowsOf
<1>2. f \in [T -> 1..v]
  <2>1. \A q \in T : q.version + 1 \in 1..v
    BY <1>1
  <2> QED
    BY <2>1
<1>3. \A p, q \in T : f[p] = f[q] => p = q
  <2> SUFFICES ASSUME NEW p \in T, NEW q \in T, p.version + 1 = q.version + 1 PROVE p = q
    OBVIOUS
  <2>1. p \in R /\ q \in R /\ p.key = q.key /\ p.version = q.version
    BY <1>1
  <2> QED
    BY <2>1, VersionsAreUnique
<1>4. \A i \in 1..v : \E q \in T : f[q] = i
  <2> SUFFICES ASSUME NEW i \in 1..v PROVE \E q \in T : q.version + 1 = i
    OBVIOUS
  <2>1. i - 1 \in 0..v /\ i - 1 < v
    BY <1>1
  <2>2. PICK q \in R : q.key = r.key /\ q.version = i - 1
    BY <2>1 DEF Table
  <2>3. q \in T
    BY <2>1, <2>2 DEF RowsOf
  <2>4. q.version + 1 = i
    BY <1>1, <2>2
  <2> QED
    BY <2>3, <2>4
<1> HIDE DEF f
<1>5. f \in Injection(T, 1..v)
  BY <1>2, <1>3 DEF Injection, IsInjective
<1>6. f \in Surjection(T, 1..v)
  BY <1>2, <1>4 DEF Surjection
<1>7. IsFiniteSet(1..v) /\ Cardinality(1..v) = v
  <2>1. 1 \in Int /\ v \in Int
    BY <1>1
  <2>2. IsFiniteSet(1..v) /\ Cardinality(1..v) = IF 1 > v THEN 0 ELSE v - 1 + 1
    BY <2>1, FS_Interval
  <2> QED
    BY <1>1, <2>2
<1> HIDE DEF T
<1>8. IsFiniteSet(T) /\ Cardinality(T) = v
  BY <1>5, <1>6, <1>7, FS_Injection
<1> QED
  BY <1>8 DEF T

LEMMA RowsAreFinite ==
  ASSUME NEW R, Table(R), NEW b \in Nat, NEW k \in Keys,
         \A r \in RowsOf(R, k) : r.block <= b
  PROVE  IsFiniteSet(RowsOf(R, k))
<1>1. CASE RowsOf(R, k) = {}
  BY <1>1, FS_EmptySet
<1>2. CASE RowsOf(R, k) # {}
  <2>1. UpTo(R, k, b) = RowsOf(R, k)
    BY DEF UpTo
  <2>2. PICK m \in RowsOf(R, k) : \A q \in RowsOf(R, k) : q.version <= m.version
    BY <1>2, <2>1 DEF Table
  <2> DEFINE T == {q \in RowsOf(R, m.key) : q.version < m.version}
  <2>3. m \in R /\ m.key = k
    BY <2>2 DEF RowsOf
  <2>4. IsFiniteSet(T)
    BY <2>3, CountByVersion
  <2>5. IsFiniteSet(T \cup {m})
    BY <2>4, FS_AddElement
  <2>6. RowsOf(R, k) = T \cup {m}
    <3>1. ASSUME NEW q \in RowsOf(R, k) PROVE q \in T \cup {m}
      <4>1. q \in R /\ q.key = m.key /\ q.version \in Nat /\ m.version \in Nat /\ q.version <= m.version
        BY <2>2, <2>3 DEF RowsOf, Table, Rows
      <4>2. CASE q.version = m.version
        BY <2>3, <4>1, <4>2, VersionsAreUnique
      <4>3. CASE q.version # m.version
        BY <2>3, <4>1, <4>3
      <4> QED
        BY <4>2, <4>3
    <3> QED
      BY <2>2, <2>3, <3>1
  <2> QED
    BY <2>5, <2>6
<1> QED
  BY <1>1, <1>2

\* The history of a key lists its rows by version.
LEMMA HistoryByVersion ==
  ASSUME NEW R, Table(R), NEW b \in Nat, NEW k \in Keys,
         \A r \in RowsOf(R, k) : r.block <= b
  PROVE  \A i \in DOMAIN GetHistory(R, k) : GetHistory(R, k)[i].version = i - 1
<1> DEFINE S == RowsOf(R, k)
           before == {p \in R \X R : Earlier(p[1], p[2])}
<1>1. IsFiniteSet(S)
  BY RowsAreFinite
<1>2. \A r \in S : /\ r \in R /\ r.key = k /\ r.block \in Nat /\ r.tx \in Nat /\ r.version \in Nat
  BY DEF Table, Rows, RowsOf
<1>3. \A r, q \in S : <<r, q>> \in before <=> Earlier(r, q)
  BY <1>2
<1>4. GetHistory(R, k) = OrderBy(S, before)
  BY DEF GetHistory
<1> HIDE DEF before, S
<1>5. \A r, q \in S : <<r, q>> \in before <=> r.version < q.version
  <2>1. \A r, q \in R : r.key = q.key => (Earlier(r, q) <=> r.version < q.version)
    BY DEF Table
  <2> QED
    BY <1>2, <1>3, <2>1
<1>6. Orders(before, S)
  <2>1. \A r, q \in S : r # q => r.version # q.version
    BY <1>2, VersionsAreUnique
  <2> QED
    BY <1>2, <1>5, <2>1 DEF Orders
<1>7. ASSUME NEW r \in S PROVE Cardinality(Below(S, before, r)) = r.version
  <2>1. Below(S, before, r) = {q \in RowsOf(R, r.key) : q.version < r.version}
    BY <1>2, <1>5 DEF Below, S
  <2> QED
    BY <1>2, <2>1, CountByVersion
<1>8. ASSUME NEW i \in DOMAIN OrderBy(S, before) PROVE OrderBy(S, before)[i].version = i - 1
  <2>1. /\ OrderBy(S, before) \in [1..Cardinality(S) -> S]
        /\ \A h \in 1..Cardinality(S) :
             Cardinality(Below(S, before, OrderBy(S, before)[h])) = h - 1
    BY <1>1, <1>6, OrderByIs
  <2> QED
    BY <1>7, <2>1
<1> QED
  BY <1>4, <1>8

\* HighestVersion of some rows of one key is the one above all others.
LEMMA HighestIs ==
  ASSUME NEW R, Table(R), NEW U, U \subseteq R, NEW m \in U,
         \A q \in U : q.key = m.key /\ q.version <= m.version
  PROVE  HighestVersion(U) = m
<1>1. PICK h : h = HighestVersion(U)
  OBVIOUS
<1>2. h \in U /\ \A q \in U : q.version <= h.version
  <2>1. U # {}
    OBVIOUS
  <2>2. \E x \in U : \A q \in U : q.version <= x.version
    OBVIOUS
  <2> QED
    BY <1>1, <2>1, <2>2, Zenon DEF HighestVersion
<1>3. h.version <= m.version /\ m.version <= h.version /\ h.version \in Nat /\ m.version \in Nat
  BY <1>2 DEF Table, Rows
<1>4. h = m
  BY <1>2, <1>3, VersionsAreUnique
<1> QED
  BY <1>1, <1>4

\* What GetAt returns: no record, or the row of the key with the highest version
\* up to that height.
LEMMA GetAtIs ==
  ASSUME NEW R, Table(R), NEW k \in Keys, NEW n \in Nat
  PROVE  \/ UpTo(R, k, n) = {} /\ GetAt(R, k, n) = NoRecord
         \/ /\ GetAt(R, k, n) \in UpTo(R, k, n) /\ GetAt(R, k, n) \in Rows
            /\ \A q \in UpTo(R, k, n) : q.version <= GetAt(R, k, n).version
<1>1. GetAt(R, k, n) = HighestVersion(UpTo(R, k, n))
  BY DEF GetAt, UpTo
<1>2. CASE UpTo(R, k, n) = {}
  BY <1>1, <1>2 DEF HighestVersion
<1>3. CASE UpTo(R, k, n) # {}
  <2>1. PICK m \in UpTo(R, k, n) : \A q \in UpTo(R, k, n) : q.version <= m.version
    BY <1>3 DEF Table
  <2>2. UpTo(R, k, n) \subseteq R /\ \A q \in UpTo(R, k, n) : q.key = m.key
    BY <2>1 DEF UpTo, RowsOf
  <2>3. HighestVersion(UpTo(R, k, n)) = m
    BY <2>1, <2>2, HighestIs
  <2>4. m \in Rows
    BY <2>1, <2>2 DEF Table
  <2> QED
    BY <1>1, <2>1, <2>3, <2>4
<1> QED
  BY <1>2, <1>3

\* Get is GetAt at a height that covers every row of the key.
LEMMA GetIsGetAt ==
  ASSUME NEW R, NEW k, NEW n, \A r \in RowsOf(R, k) : r.block <= n
  PROVE  Get(R, k) = GetAt(R, k, n) /\ UpTo(R, k, n) = RowsOf(R, k)
<1>1. UpTo(R, k, n) = RowsOf(R, k)
  BY DEF UpTo
<1> QED
  BY <1>1 DEF Get, GetAt, UpTo

-----------------------------------------------------------------------------
\* Storing a transaction and a block.

\* The INSERTs of a transaction later than all rows: a row for each valid write,
\* with the highest version of its key.
LEMMA WithTxIs ==
  ASSUME NEW R, Table(R), NEW b \in Nat, NEW n \in Nat, NEW ws, ws \subseteq Writes,
         \A w \in ws : w.tx = n, \A w, x \in ws : w.key = x.key => w = x,
         \A r \in R : r.block < b \/ (r.block = b /\ r.tx < n)
  PROVE  /\ Table(WithTx(R, b, ws)) /\ R \subseteq WithTx(R, b, ws)
         /\ \A r \in WithTx(R, b, ws) :
              r \in R \/ \E w \in ws : w.valid /\ Is(r, b, w) /\ r.content = w.content
         /\ \A w \in ws : w.valid =>
              \E r \in WithTx(R, b, ws) :
                /\ Is(r, b, w) /\ r.content = w.content
                /\ \A q \in RowsOf(WithTx(R, b, ws), w.key) : q.version <= r.version
<1> DEFINE V == {x \in ws : x.valid /\ SameRow(R, b, x) = {}}
           X == {NewRow(R, b, w) : w \in V}
           T == R \cup X
<1>1. \A r \in R : r.block \in Nat /\ r.tx \in Nat /\ r.block <= b /\ ~(r.block = b /\ r.tx = n)
  BY DEF Table, Rows
<1>2. \A w \in ws : SameRow(R, b, w) = {}
  BY <1>1 DEF SameRow, RowsOf
<1>3. V = {x \in ws : x.valid}
  BY <1>2
<1>4. ASSUME NEW w \in V
      PROVE  /\ w \in ws /\ w.key \in Keys /\ w.content \in Contents /\ w.tx = n
             /\ NextVersion(R, w.key) \in Nat
             /\ \A r \in RowsOf(R, w.key) : r.version < NextVersion(R, w.key)
  <2>1. w \in ws /\ w.key \in Keys /\ w.content \in Contents /\ w.tx = n
    BY DEF Writes
  <2>2. \A r \in RowsOf(R, w.key) : r.block <= b
    BY <1>1 DEF RowsOf
  <2> QED
    BY <2>1, <2>2, NextVersionIsNext
<1>5. ASSUME NEW w \in V
      PROVE  /\ NewRow(R, b, w) \in Rows /\ Is(NewRow(R, b, w), b, w)
             /\ NewRow(R, b, w).content = w.content /\ NewRow(R, b, w).key = w.key
             /\ NewRow(R, b, w).version = NextVersion(R, w.key)
             /\ \A r \in RowsOf(R, w.key) : Earlier(r, NewRow(R, b, w))
  <2>1. /\ NewRow(R, b, w) \in Rows /\ Is(NewRow(R, b, w), b, w)
        /\ NewRow(R, b, w).content = w.content /\ NewRow(R, b, w).key = w.key
        /\ NewRow(R, b, w).version = NextVersion(R, w.key)
        /\ NewRow(R, b, w).block = b /\ NewRow(R, b, w).tx = n
    BY <1>4 DEF NewRow, Rows, Is
  <2>2. \A r \in RowsOf(R, w.key) : r.block < b \/ (r.block = b /\ r.tx < n)
    BY DEF RowsOf
  <2> QED
    BY <2>1, <2>2 DEF Earlier
<1>6. WithTx(R, b, ws) = T
  BY DEF WithTx
<1>7. \A x \in X : \E w \in V : x = NewRow(R, b, w)
  OBVIOUS
<1>8. \A w \in V : NewRow(R, b, w) \in X
  OBVIOUS
<1>9. \A w, x \in V : w.key = x.key => w = x
  OBVIOUS
<1>10. \A w \in ws : w.valid => w \in V
  BY <1>3
<1>11. \A w \in V : w \in ws /\ w.valid
  OBVIOUS
<1> HIDE DEF X, V
<1>12. /\ X \subseteq Rows /\ \A x \in X : x.version = NextVersion(R, x.key)
       /\ \A x \in X : \A r \in RowsOf(R, x.key) : Earlier(r, x)
       /\ \A x, y \in X : x.key = y.key => x = y
  BY <1>5, <1>7, <1>9
<1>13. Table(T)
  BY <1>12, AddRows
<1>14. ASSUME NEW r \in T
       PROVE  r \in R \/ \E w \in ws : w.valid /\ Is(r, b, w) /\ r.content = w.content
  BY <1>5, <1>7, <1>11
<1>15. ASSUME NEW w \in ws, w.valid
       PROVE  \E r \in T : /\ Is(r, b, w) /\ r.content = w.content
                           /\ \A q \in RowsOf(T, w.key) : q.version <= r.version
  <2> DEFINE r == NewRow(R, b, w)
  <2>1. w \in V
    BY <1>10, <1>15
  <2>2. r \in T /\ Is(r, b, w) /\ r.content = w.content
    BY <1>5, <1>8, <2>1
  <2>3. r \in X /\ r.key = w.key /\ r.version = NextVersion(R, w.key) /\ r.version \in Nat
    BY <1>4, <1>5, <1>8, <2>1
  <2> HIDE DEF r
  <2>4. ASSUME NEW q \in RowsOf(T, w.key) PROVE q.version <= r.version
    <3>1. q \in T /\ q.key = w.key
      BY DEF RowsOf
    <3>2. q.version \in Nat
      BY <1>13, <3>1 DEF Table, Rows
    <3>3. CASE q \in R
      <4>1. q \in RowsOf(R, w.key)
        BY <3>1, <3>3 DEF RowsOf
      <4>2. q.version < NextVersion(R, w.key)
        BY <1>4, <2>1, <4>1
      <4> QED
        BY <2>3, <3>2, <4>2
    <3>4. CASE q \in X
      <4>1. q = r
        BY <1>12, <2>3, <3>1, <3>4
      <4> QED
        BY <2>3, <4>1
    <3> QED
      BY <3>1, <3>3, <3>4
  <2> QED
    BY <2>2, <2>4
<1> HIDE DEF T
<1>16. R \subseteq T
  BY DEF T
<1> QED
  BY <1>6, <1>13, <1>14, <1>15, <1>16

\* The tables after each transaction of a block.
LEMMA WithBlockSteps ==
  ASSUME NEW R, NEW b, NEW txs, Len(txs) \in Nat
  PROVE  \E after : /\ after[0] = R
                    /\ \A i \in 1..Len(txs) : after[i] = WithTx(after[i - 1], b, txs[i])
                    /\ WithBlock(R, b, txs) = after[Len(txs)]
<1> DEFINE Step(g, i) == IF i = 0 THEN R ELSE WithTx(g[i - 1], b, txs[i])
           Good(m) == \E g : g = [i \in 0..m |-> Step(g, i)]
           Bad == {m \in Nat : ~Good(m)}
<1>1. Good(0)
  <2> DEFINE g == [i \in 0..0 |-> R]
  <2>1. \A i \in 0..0 : Step(g, i) = R
    OBVIOUS
  <2>2. g = [i \in 0..0 |-> Step(g, i)]
    BY <2>1
  <2> QED
    BY <2>2
<1>2. ASSUME NEW m \in Nat, Good(m) PROVE Good(m + 1)
  <2>1. PICK g : g = [i \in 0..m |-> Step(g, i)]
    BY <1>2
  <2> DEFINE h == [i \in 0..(m + 1) |-> IF i = m + 1 THEN WithTx(g[m], b, txs[m + 1]) ELSE g[i]]
  <2>2. ASSUME NEW i \in 0..(m + 1) PROVE h[i] = Step(h, i)
    <3>1. CASE i = m + 1
      <4>1. h[i] = WithTx(g[m], b, txs[m + 1]) /\ i - 1 = m /\ i # 0 /\ m \in 0..(m + 1) /\ m # m + 1
        BY <3>1
      <4>2. h[m] = g[m]
        BY <4>1
      <4> QED
        BY <3>1, <4>1, <4>2
    <3>2. CASE i = 0
      <4>1. i \in 0..m /\ i # m + 1
        BY <3>2
      <4> QED
        BY <2>1, <3>2, <4>1
    <3>3. CASE i # 0 /\ i # m + 1
      <4>1. i \in 0..m /\ i - 1 \in 0..(m + 1) /\ i - 1 # m + 1
        BY <3>3
      <4>2. h[i] = g[i] /\ h[i - 1] = g[i - 1]
        BY <3>3, <4>1
      <4>3. g[i] = Step(g, i)
        BY <2>1, <4>1
      <4> QED
        BY <3>3, <4>2, <4>3
    <3> QED
      BY <3>1, <3>2, <3>3
  <2>3. h = [i \in 0..(m + 1) |-> h[i]]
    OBVIOUS
  <2> HIDE DEF h
  <2>4. h = [i \in 0..(m + 1) |-> Step(h, i)]
    BY <2>2, <2>3
  <2> QED
    BY <2>4
<1> HIDE DEF Good
<1>3. Bad = {}
  <2> SUFFICES ASSUME Bad # {} PROVE FALSE
    OBVIOUS
  <2>1. PICK m \in Bad : \A i \in Bad : m <= i
    BY First
  <2>2. m # 0 /\ m - 1 \in Nat /\ m - 1 + 1 = m
    BY <1>1, <2>1
  <2>3. Good(m - 1)
    BY <2>1, <2>2
  <2> QED
    BY <1>2, <2>1, <2>2, <2>3
<1>4. Good(Len(txs))
  BY <1>3
<1>5. PICK after : /\ after = [i \in 0..Len(txs) |-> Step(after, i)]
                   /\ WithBlock(R, b, txs) = after[Len(txs)]
  BY <1>4, Zenon DEF Good, WithBlock
<1>6. 0 \in 0..Len(txs) /\ \A i \in 1..Len(txs) : i \in 0..Len(txs) /\ i # 0
  OBVIOUS
<1>7. after[0] = R
  BY <1>5, <1>6
<1>8. ASSUME NEW i \in 1..Len(txs) PROVE after[i] = WithTx(after[i - 1], b, txs[i])
  BY <1>5, <1>6
<1> QED
  BY <1>5, <1>7, <1>8

\* The writes of a block: those of a transaction carry its number, which grows from
\* one transaction to the next, and name a key once.
Numbered(txs, num) ==
  /\ Len(txs) \in Nat
  /\ \A j \in 1..Len(txs) :
       /\ num[j] \in Nat /\ txs[j] \subseteq Writes
       /\ \A w \in txs[j] : w.tx = num[j]
       /\ \A w, x \in txs[j] : w.key = x.key => w = x
  /\ \A i, j \in 1..Len(txs) : i < j => num[i] < num[j]

\* T is R with the first n transactions of block b.
Stored(T, R, b, txs, n) ==
  /\ Table(T) /\ R \subseteq T
  /\ \A r \in T : r \in R \/
       \E j \in 1..n : \E w \in txs[j] : w.valid /\ Is(r, b, w) /\ r.content = w.content
  /\ \A j \in 1..n : \A w \in txs[j] : w.valid =>
       \E r \in T : Is(r, b, w) /\ r.content = w.content

\* One transaction more.
LEMMA StoreOne ==
  ASSUME NEW R, Table(R), NEW b \in Nat, \A r \in R : r.block < b,
         NEW txs, NEW num, Numbered(txs, num),
         NEW T, NEW i \in 1..Len(txs), Stored(T, R, b, txs, i - 1)
  PROVE  Stored(WithTx(T, b, txs[i]), R, b, txs, i)
<1> DEFINE U == WithTx(T, b, txs[i])
<1>1. /\ num[i] \in Nat /\ txs[i] \subseteq Writes /\ \A w \in txs[i] : w.tx = num[i]
      /\ \A w, x \in txs[i] : w.key = x.key => w = x
  BY DEF Numbered
<1>2. i \in Nat /\ \A j \in 1..(i - 1) : j \in 1..Len(txs) /\ j < i /\ j \in 1..i
  BY DEF Numbered
<1>3. ASSUME NEW r \in T PROVE r.block < b \/ (r.block = b /\ r.tx < num[i])
  <2>1. CASE r \in R
    BY <2>1
  <2>2. CASE r \notin R
    <3>1. PICK j \in 1..(i - 1) : \E w \in txs[j] : Is(r, b, w)
      BY <2>2 DEF Stored
    <3>2. PICK w \in txs[j] : Is(r, b, w)
      BY <3>1
    <3>3. j \in 1..Len(txs) /\ j < i
      BY <1>2
    <3>4. w.tx = num[j] /\ num[j] < num[i]
      BY <3>2, <3>3 DEF Numbered
    <3> QED
      BY <3>2, <3>4 DEF Is
  <2> QED
    BY <2>1, <2>2
<1>4. Table(T)
  BY DEF Stored
<1>5. /\ Table(U) /\ T \subseteq U
      /\ \A r \in U : r \in T \/ \E w \in txs[i] : w.valid /\ Is(r, b, w) /\ r.content = w.content
      /\ \A w \in txs[i] : w.valid => \E r \in U : Is(r, b, w) /\ r.content = w.content
  <2>1. PICK n \in Nat : n = num[i]
    BY <1>1
  <2>2. PICK ws : ws = txs[i]
    OBVIOUS
  <2>3. /\ ws \subseteq Writes /\ \A w \in ws : w.tx = n
        /\ \A w, x \in ws : w.key = x.key => w = x
        /\ \A r \in T : r.block < b \/ (r.block = b /\ r.tx < n)
    BY <1>1, <1>3, <2>1, <2>2
  <2>4. /\ Table(WithTx(T, b, ws)) /\ T \subseteq WithTx(T, b, ws)
        /\ \A r \in WithTx(T, b, ws) :
             r \in T \/ \E w \in ws : w.valid /\ Is(r, b, w) /\ r.content = w.content
        /\ \A w \in ws : w.valid =>
             \E r \in WithTx(T, b, ws) : Is(r, b, w) /\ r.content = w.content
    BY <1>4, <2>3, WithTxIs
  <2> QED
    BY <2>2, <2>4
<1> HIDE DEF U
<1>6. R \subseteq U
  BY <1>5 DEF Stored
<1>7. i \in 1..i
  BY <1>2
<1>8. ASSUME NEW r \in U, r \notin R
      PROVE  \E j \in 1..i : \E w \in txs[j] : w.valid /\ Is(r, b, w) /\ r.content = w.content
  <2>1. CASE r \in T
    <3>1. PICK j \in 1..(i - 1) :
            \E w \in txs[j] : w.valid /\ Is(r, b, w) /\ r.content = w.content
      BY <1>8, <2>1 DEF Stored
    <3> QED
      BY <1>2, <3>1
  <2>2. CASE r \notin T
    BY <1>5, <1>7, <2>2
  <2> QED
    BY <2>1, <2>2
<1>9. ASSUME NEW j \in 1..i, NEW w \in txs[j], w.valid
      PROVE  \E r \in U : Is(r, b, w) /\ r.content = w.content
  <2>1. CASE j = i
    BY <1>5, <1>9, <2>1
  <2>2. CASE j # i
    <3>1. j \in 1..(i - 1)
      BY <1>2, <2>2
    <3>2. \E r \in T : Is(r, b, w) /\ r.content = w.content
      BY <1>9, <3>1 DEF Stored
    <3> QED
      BY <1>5, <3>2
  <2> QED
    BY <2>1, <2>2
<1>10. Stored(U, R, b, txs, i)
  BY <1>5, <1>6, <1>8, <1>9 DEF Stored
<1> QED
  BY <1>10 DEF U

\* A block later than all rows adds the rows of its valid transactions, and no other.
LEMMA WithBlockIs ==
  ASSUME NEW R, Table(R), NEW b \in Nat, \A r \in R : r.block < b,
         NEW txs, NEW num, Numbered(txs, num)
  PROVE  Stored(WithBlock(R, b, txs), R, b, txs, Len(txs))
<1>1. Len(txs) \in Nat
  BY DEF Numbered
<1>2. PICK after : /\ after[0] = R
                   /\ \A i \in 1..Len(txs) : after[i] = WithTx(after[i - 1], b, txs[i])
                   /\ WithBlock(R, b, txs) = after[Len(txs)]
  BY <1>1, WithBlockSteps
<1> DEFINE Bad == {i \in 0..Len(txs) : ~Stored(after[i], R, b, txs, i)}
<1>3. Stored(after[0], R, b, txs, 0)
  <2>1. 1..0 = {}
    OBVIOUS
  <2> QED
    BY <1>2, <2>1 DEF Stored
<1>4. Bad = {}
  <2> SUFFICES ASSUME Bad # {} PROVE FALSE
    OBVIOUS
  <2>1. Bad \subseteq Nat
    OBVIOUS
  <2>2. PICK m \in Bad : \A i \in Bad : m <= i
    BY <2>1, First
  <2>3. m # 0
    BY <1>3, <2>2
  <2>4. m \in 1..Len(txs) /\ m - 1 \in 0..Len(txs) /\ ~(m <= m - 1)
    BY <1>1, <2>2, <2>3
  <2>5. Stored(after[m - 1], R, b, txs, m - 1)
    BY <2>2, <2>4
  <2>6. PICK T : T = after[m - 1]
    OBVIOUS
  <2>7. Stored(WithTx(T, b, txs[m]), R, b, txs, m)
    BY <2>4, <2>5, <2>6, StoreOne
  <2> QED
    BY <1>2, <2>2, <2>4, <2>6, <2>7
<1>5. Len(txs) \in 0..Len(txs)
  BY <1>1
<1> QED
  BY <1>2, <1>4, <1>5
=============================================================================
