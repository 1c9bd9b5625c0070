------------------------- MODULE TestNetworkProofs --------------------------
(***************************************************************************)
(* ChainLinked, EnvelopeIsKept and StreamFollowsChain for any envelopes,   *)
(* clients, capacities, batch sizes and bounds.  The block in hand is      *)
(* numbered and chained to the tip, and holds the batch unless it was      *)
(* forced: nothing else moves the tip or the batch until the loop has      *)
(* appended the block.  A stream's snapshot ends where its channel begins. *)
(***************************************************************************)
EXTENDS TestNetwork, FiniteSetTheorems, TLAPS

Block == [num : Nat, hash : Nat, prev : Int, txs : Seq(Envs)]

TypeInv ==
  /\ accepted \in SUBSET Envs /\ inCh \in Seq(Envs) /\ batch \in Seq(Envs)
  /\ cut \in [block : Block, forced : BOOLEAN] /\ cuts \in Nat /\ reverts \in Nat
  /\ blocks \in Seq(Block) /\ Len(blocks) > 0

\* The block in hand.
CutInv ==
  lpc \in {"store", "notify"} =>
    /\ cut.block.num = Len(blocks) /\ cut.block.prev = blocks[Len(blocks)].hash
    /\ cut.block.txs = IF cut.forced THEN <<>> ELSE batch

\* No envelope is held twice, and only accepted ones are.
Once(in, ba, bs, acc) ==
  /\ \A i, j \in 1..Len(in) : in[i] = in[j] => i = j
  /\ \A i, j \in 1..Len(ba) : ba[i] = ba[j] => i = j
  /\ \A i \in 1..Len(in), j \in 1..Len(ba) : in[i] # ba[j]
  /\ \A n \in 1..Len(bs) : \A k \in 1..Len(bs[n].txs) :
       /\ \A i \in 1..Len(in) : in[i] # bs[n].txs[k]
       /\ \A i \in 1..Len(ba) : ba[i] # bs[n].txs[k]
       /\ \A m \in 1..Len(bs) : \A l \in 1..Len(bs[m].txs) :
            bs[n].txs[k] = bs[m].txs[l] => n = m /\ k = l
       /\ bs[n].txs[k] \in acc
  /\ \A i \in 1..Len(in) : in[i] \in acc
  /\ \A i \in 1..Len(ba) : ba[i] \in acc

\* And every accepted envelope is held.
Held(in, ba, bs, acc) ==
  \A e \in acc : \/ \E i \in 1..Len(in) : in[i] = e
                 \/ \E i \in 1..Len(ba) : ba[i] = e
                 \/ \E n \in 1..Len(bs) : \E i \in 1..Len(bs[n].txs) : bs[n].txs[i] = e

Inv ==
  /\ TypeInv /\ CutInv /\ ChainLinked
  /\ Once(inCh, batch, blocks, accepted)
  /\ reverts = 0 => Held(inCh, batch, blocks, accepted)
-----------------------------------------------------------------------------
\* Where envelopes go: into the channel, from the channel to the batch, and with the
\* batch to the end of the chain.
LEMMA Accepted ==
  ASSUME NEW in \in Seq(Envs), NEW ba \in Seq(Envs), NEW bs \in Seq(Block), NEW acc \in SUBSET Envs,
         NEW e \in Envs \ acc, Once(in, ba, bs, acc)
  PROVE  /\ Once(Append(in, e), ba, bs, acc \cup {e})
         /\ Held(in, ba, bs, acc) => Held(Append(in, e), ba, bs, acc \cup {e})
<1> DEFINE in2 == Append(in, e)
<1>1. /\ Len(in2) = Len(in) + 1 /\ in2[Len(in) + 1] = e /\ Len(in) \in Nat
      /\ \A i \in 1..Len(in) : in2[i] = in[i]
  OBVIOUS
<1>2. \A i \in 1..Len(in2) : i \in 1..Len(in) \/ i = Len(in) + 1
  BY <1>1
<1>3. Len(in) + 1 \in 1..Len(in2) /\ \A i \in 1..Len(in) : i \in 1..Len(in2)
  BY <1>1
<1> HIDE DEF in2
<1>4. Once(in2, ba, bs, acc \cup {e})
  <2>1. \A i, j \in 1..Len(in2) : in2[i] = in2[j] => i = j
    BY <1>1, <1>2 DEF Once
  <2>2. \A i \in 1..Len(in2), j \in 1..Len(ba) : in2[i] # ba[j]
    BY <1>1, <1>2 DEF Once
  <2>3. ASSUME NEW n \in 1..Len(bs), NEW k \in 1..Len(bs[n].txs)
        PROVE  \A i \in 1..Len(in2) : in2[i] # bs[n].txs[k]
    <3>1. bs[n].txs[k] \in acc /\ \A i \in 1..Len(in) : in[i] # bs[n].txs[k]
      BY Zenon DEF Once
    <3> QED
      BY <1>1, <1>2, <3>1
  <2>4. \A i \in 1..Len(in2) : in2[i] \in acc \cup {e}
    BY <1>1, <1>2, Zenon DEF Once
  <2> QED
    BY <2>1, <2>2, <2>3, <2>4 DEF Once
<1>5. ASSUME Held(in, ba, bs, acc) PROVE Held(in2, ba, bs, acc \cup {e})
  BY <1>1, <1>3, <1>5, Zenon DEF Held
<1> QED
  BY <1>4, <1>5 DEF in2

LEMMA Taken ==
  ASSUME NEW in \in Seq(Envs), NEW ba \in Seq(Envs), NEW bs \in Seq(Block), NEW acc \in SUBSET Envs,
         in # <<>>, Once(in, ba, bs, acc)
  PROVE  /\ Once(Tail(in), Append(ba, Head(in)), bs, acc)
         /\ Held(in, ba, bs, acc) => Held(Tail(in), Append(ba, Head(in)), bs, acc)
<1> DEFINE in2 == Tail(in)
           ba2 == Append(ba, Head(in))
<1>1. /\ Len(in) \in Nat \ {0} /\ Len(in2) = Len(in) - 1 /\ Head(in) = in[1]
      /\ \A i \in 1..Len(in2) : in2[i] = in[i + 1]
  OBVIOUS
<1>2. /\ \A i \in 1..Len(in2) : i + 1 \in 1..Len(in) /\ i + 1 # 1 /\ i \in Nat
      /\ 1 \in 1..Len(in) /\ \A i \in 1..Len(in) : i = 1 \/ (i - 1 \in 1..Len(in2) /\ i = (i - 1) + 1)
  BY <1>1
<1>3. /\ Len(ba) \in Nat /\ Len(ba2) = Len(ba) + 1 /\ ba2[Len(ba) + 1] = in[1]
      /\ \A i \in 1..Len(ba) : ba2[i] = ba[i]
  BY <1>1
<1>4. /\ \A i \in 1..Len(ba2) : i \in 1..Len(ba) \/ i = Len(ba) + 1
      /\ Len(ba) + 1 \in 1..Len(ba2) /\ \A i \in 1..Len(ba) : i \in 1..Len(ba2)
  BY <1>3
<1> HIDE DEF in2, ba2
<1>5. Once(in2, ba2, bs, acc)
  <2>1. \A i, j \in 1..Len(in2) : in2[i] = in2[j] => i = j
    <3> SUFFICES ASSUME NEW i \in 1..Len(in2), NEW j \in 1..Len(in2), in2[i] = in2[j] PROVE i = j
      OBVIOUS
    <3>1. /\ i + 1 \in 1..Len(in) /\ j + 1 \in 1..Len(in) /\ i \in Nat /\ j \in Nat
          /\ in[i + 1] = in[j + 1]
      BY <1>1, <1>2
    <3>2. \A a, b \in 1..Len(in) : in[a] = in[b] => a = b
      BY DEF Once
    <3>3. i + 1 = j + 1
      BY <3>1, <3>2
    <3> QED
      BY <3>1, <3>3
  <2>2. \A i, j \in 1..Len(ba2) : ba2[i] = ba2[j] => i = j
    BY <1>2, <1>3, <1>4 DEF Once
  <2>3. \A i \in 1..Len(in2), j \in 1..Len(ba2) : in2[i] # ba2[j]
    <3> SUFFICES ASSUME NEW i \in 1..Len(in2), NEW j \in 1..Len(ba2) PROVE in2[i] # ba2[j]
      OBVIOUS
    <3>1. in2[i] = in[i + 1] /\ i + 1 \in 1..Len(in) /\ i + 1 # 1
      BY <1>1, <1>2
    <3>2. CASE j \in 1..Len(ba)
      BY <1>3, <3>1, <3>2 DEF Once
    <3>3. CASE j = Len(ba) + 1
      BY <1>2, <1>3, <3>1, <3>3 DEF Once
    <3> QED
      BY <1>4, <3>2, <3>3
  <2>4. ASSUME NEW n \in 1..Len(bs), NEW k \in 1..Len(bs[n].txs)
        PROVE  /\ \A i \in 1..Len(in2) : in2[i] # bs[n].txs[k]
               /\ \A i \in 1..Len(ba2) : ba2[i] # bs[n].txs[k]
    <3>1. /\ \A i \in 1..Len(in) : in[i] # bs[n].txs[k]
          /\ \A i \in 1..Len(ba) : ba[i] # bs[n].txs[k]
      BY Zenon DEF Once
    <3>2. \A i \in 1..Len(in2) : in2[i] # bs[n].txs[k]
      BY <1>1, <1>2, <3>1
    <3> QED
      BY <1>1, <1>2, <1>3, <1>4, <3>1, <3>2
  <2>5. \A i \in 1..Len(in2) : in2[i] \in acc
    BY <1>1, <1>2, Zenon DEF Once
  <2>6. \A i \in 1..Len(ba2) : ba2[i] \in acc
    BY <1>2, <1>3, <1>4 DEF Once
  <2> QED
    BY <2>1, <2>2, <2>3, <2>4, <2>5, <2>6, Zenon DEF Once
<1>6. ASSUME Held(in, ba, bs, acc), NEW e \in acc
      PROVE  \/ \E i \in 1..Len(in2) : in2[i] = e
             \/ \E i \in 1..Len(ba2) : ba2[i] = e
             \/ \E n \in 1..Len(bs) : \E i \in 1..Len(bs[n].txs) : bs[n].txs[i] = e
  <2>1. CASE \E i \in 1..Len(in) : in[i] = e
    <3>1. PICK i \in 1..Len(in) : in[i] = e
      BY <2>1
    <3>2. CASE i = 1
      BY <1>3, <1>4, <3>1, <3>2
    <3>3. CASE i # 1
      <4>1. PICK j \in 1..Len(in2) : i = j + 1
        BY <1>2, <3>3
      <4> QED
        BY <1>1, <3>1, <4>1, Zenon
    <3> QED
      BY <3>2, <3>3
  <2>2. CASE \E i \in 1..Len(ba) : ba[i] = e
    BY <1>3, <1>4, <2>2
  <2> QED
    BY <1>6, <2>1, <2>2 DEF Held
<1>7. Held(in, ba, bs, acc) => Held(in2, ba2, bs, acc)
  BY <1>6 DEF Held
<1> QED
  BY <1>5, <1>7 DEF in2, ba2

LEMMA Committed ==
  ASSUME NEW in \in Seq(Envs), NEW ba \in Seq(Envs), NEW bs \in Seq(Block), NEW acc \in SUBSET Envs,
         NEW b \in Block, NEW ba2 \in Seq(Envs), Once(in, ba, bs, acc),
         \/ b.txs = ba /\ ba2 = <<>>
         \/ b.txs = <<>> /\ ba2 = ba
  PROVE  /\ Once(in, ba2, Append(bs, b), acc)
         /\ Held(in, ba, bs, acc) => Held(in, ba2, Append(bs, b), acc)
<1> DEFINE bs2 == Append(bs, b)
<1>1. /\ Len(bs) \in Nat /\ Len(bs2) = Len(bs) + 1 /\ bs2[Len(bs) + 1] = b
      /\ \A n \in 1..Len(bs) : bs2[n] = bs[n]
  OBVIOUS
<1>2. /\ \A n \in 1..Len(bs2) : n \in 1..Len(bs) \/ n = Len(bs) + 1
      /\ Len(bs) + 1 \in 1..Len(bs2) /\ \A n \in 1..Len(bs) : n \in 1..Len(bs2)
  <2> HIDE DEF bs2
  <2> QED
    BY <1>1
<1>3. \A i \in 1..Len(ba2) : i \in 1..Len(ba) /\ ba2[i] = ba[i] /\ b.txs = <<>>
  OBVIOUS
<1>4. \A i \in 1..Len(b.txs) : i \in 1..Len(ba) /\ b.txs[i] = ba[i] /\ ba2 = <<>>
  OBVIOUS
<1>5. \A i \in 1..Len(ba) : \/ i \in 1..Len(ba2) /\ ba2[i] = ba[i]
                            \/ i \in 1..Len(b.txs) /\ b.txs[i] = ba[i]
  OBVIOUS
<1> HIDE DEF bs2
<1>6. Once(in, ba2, bs2, acc)
  <2>1. \A i, j \in 1..Len(ba2) : ba2[i] = ba2[j] => i = j
    BY <1>3 DEF Once
  <2>2. \A i \in 1..Len(in), j \in 1..Len(ba2) : in[i] # ba2[j]
    BY <1>3 DEF Once
  <2>3. \A i \in 1..Len(ba2) : ba2[i] \in acc
    BY <1>3 DEF Once
  <2>4. ASSUME NEW n \in 1..Len(bs2), NEW k \in 1..Len(bs2[n].txs)
        PROVE  /\ \A i \in 1..Len(in) : in[i] # bs2[n].txs[k]
               /\ \A i \in 1..Len(ba2) : ba2[i] # bs2[n].txs[k]
               /\ \A m \in 1..Len(bs2) : \A l \in 1..Len(bs2[m].txs) :
                    bs2[n].txs[k] = bs2[m].txs[l] => n = m /\ k = l
               /\ bs2[n].txs[k] \in acc
    <3>1. CASE n \in 1..Len(bs)
      <4>1. /\ bs2[n] = bs[n] /\ k \in 1..Len(bs[n].txs)
        BY <1>1, <3>1
      <4>2. /\ \A i \in 1..Len(in) : in[i] # bs[n].txs[k]
            /\ \A i \in 1..Len(ba) : ba[i] # bs[n].txs[k]
            /\ \A m \in 1..Len(bs) : \A l \in 1..Len(bs[m].txs) :
                 bs[n].txs[k] = bs[m].txs[l] => n = m /\ k = l
            /\ bs[n].txs[k] \in acc
        BY <3>1, <4>1, Zenon DEF Once
      <4>3. ASSUME NEW m \in 1..Len(bs2), NEW l \in 1..Len(bs2[m].txs), bs2[n].txs[k] = bs2[m].txs[l]
            PROVE  n = m /\ k = l
        <5>1. CASE m \in 1..Len(bs)
          <6>1. bs2[m] = bs[m] /\ l \in 1..Len(bs[m].txs) /\ bs[n].txs[k] = bs[m].txs[l]
            BY <1>1, <4>1, <4>3, <5>1, Zenon
          <6> QED
            BY <4>2, <5>1, <6>1
        <5>2. CASE m = Len(bs) + 1
          BY <1>1, <1>4, <4>1, <4>2, <4>3, <5>2
        <5> QED
          BY <1>2, <5>1, <5>2
      <4> QED
        BY <1>3, <4>1, <4>2, <4>3
    <3>2. CASE n = Len(bs) + 1
      <4>1. bs2[n] = b /\ k \in 1..Len(ba) /\ b.txs[k] = ba[k] /\ ba2 = <<>> /\ k \in 1..Len(b.txs)
        BY <1>1, <1>4, <3>2
      <4>2. \A i \in 1..Len(ba2) : ba2[i] # bs2[n].txs[k]
        BY <1>3, <4>1
      <4>3. ba[k] \in acc /\ \A i \in 1..Len(in) : in[i] # ba[k]
        BY <4>1 DEF Once
      <4>4. ASSUME NEW m \in 1..Len(bs2), NEW l \in 1..Len(bs2[m].txs), bs2[n].txs[k] = bs2[m].txs[l]
            PROVE  n = m /\ k = l
        <5>1. CASE m \in 1..Len(bs)
          <6>1. bs2[m] = bs[m] /\ l \in 1..Len(bs[m].txs) /\ ba[k] = bs[m].txs[l]
            BY <1>1, <4>1, <4>4, <5>1
          <6>2. \A i \in 1..Len(ba) : ba[i] # bs[m].txs[l]
            BY <5>1, <6>1, Zenon DEF Once
          <6> QED
            BY <4>1, <6>1, <6>2
        <5>2. CASE m = Len(bs) + 1
          <6>1. l \in 1..Len(ba) /\ b.txs[l] = ba[l] /\ bs2[m] = b
            BY <1>1, <1>4, <5>2
          <6> QED
            BY <3>2, <4>1, <4>4, <5>2, <6>1 DEF Once
        <5> QED
          BY <1>2, <5>1, <5>2
      <4> QED
        BY <4>1, <4>2, <4>3, <4>4
    <3> QED
      BY <1>2, <3>1, <3>2
  <2> QED
    BY <2>1, <2>2, <2>3, <2>4 DEF Once
<1>7. ASSUME Held(in, ba, bs, acc), NEW e \in acc
      PROVE  \/ \E i \in 1..Len(in) : in[i] = e
             \/ \E i \in 1..Len(ba2) : ba2[i] = e
             \/ \E n \in 1..Len(bs2) : \E i \in 1..Len(bs2[n].txs) : bs2[n].txs[i] = e
  <2>1. CASE \E i \in 1..Len(ba) : ba[i] = e
    BY <1>1, <1>2, <1>5, <2>1
  <2>2. CASE \E n \in 1..Len(bs) : \E i \in 1..Len(bs[n].txs) : bs[n].txs[i] = e
    BY <1>1, <1>2, <2>2
  <2> QED
    BY <1>7, <2>1, <2>2, Zenon DEF Held
<1>8. Held(in, ba, bs, acc) => Held(in, ba2, bs2, acc)
  BY <1>7, Zenon DEF Held
<1> QED
  BY <1>6, <1>8 DEF bs2

LEMMA Reverted ==
  ASSUME NEW in \in Seq(Envs), NEW ba \in Seq(Envs), NEW bs \in Seq(Block), NEW acc \in SUBSET Envs,
         NEW bs2 \in Seq(Block), Once(in, ba, bs, acc), Len(bs2) <= Len(bs),
         \A n \in 1..Len(bs2) : bs2[n] = bs[n]
  PROVE  Once(in, <<>>, bs2, acc)
<1>1. \A n \in 1..Len(bs2) : n \in 1..Len(bs) /\ bs2[n] = bs[n]
  OBVIOUS
<1>2. 1..Len(<< >>) = {}
  OBVIOUS
<1>3. ASSUME NEW n \in 1..Len(bs2), NEW k \in 1..Len(bs2[n].txs)
      PROVE  /\ \A i \in 1..Len(in) : in[i] # bs2[n].txs[k]
             /\ \A m \in 1..Len(bs2) : \A l \in 1..Len(bs2[m].txs) :
                  bs2[n].txs[k] = bs2[m].txs[l] => n = m /\ k = l
             /\ bs2[n].txs[k] \in acc
  <2>1. bs2[n] = bs[n] /\ n \in 1..Len(bs) /\ k \in 1..Len(bs[n].txs)
    BY <1>1
  <2>2. /\ \A i \in 1..Len(in) : in[i] # bs[n].txs[k]
        /\ \A m \in 1..Len(bs) : \A l \in 1..Len(bs[m].txs) :
             bs[n].txs[k] = bs[m].txs[l] => n = m /\ k = l
        /\ bs[n].txs[k] \in acc
    BY <2>1 DEF Once
  <2>3. ASSUME NEW m \in 1..Len(bs2), NEW l \in 1..Len(bs2[m].txs), bs2[n].txs[k] = bs2[m].txs[l]
        PROVE  n = m /\ k = l
    <3>1. m \in 1..Len(bs) /\ l \in 1..Len(bs[m].txs) /\ bs[n].txs[k] = bs[m].txs[l]
      BY <1>1, <2>1, <2>3
    <3> QED
      BY <2>2, <3>1
  <2> QED
    BY <2>1, <2>2, <2>3
<1> QED
  BY <1>2, <1>3 DEF Once

-----------------------------------------------------------------------------
LEMMA InitInv == Init => Inv
<1> SUFFICES ASSUME Init PROVE Inv
  OBVIOUS
<1>1. << >> \in Seq(Envs) /\ 1..Len(<< >>) = {}
  OBVIOUS
<1>2. Genesis \in Block
  BY <1>1 DEF Genesis, Block
<1>3. blocks \in Seq(Block) /\ Len(blocks) = 1 /\ blocks[1] = Genesis
  BY <1>2 DEF Init
<1>4. TypeInv
  BY <1>1, <1>2, <1>3 DEF Init, TypeInv, NoCut
<1>5. CutInv
  BY DEF Init, CutInv
<1>6. ChainLinked
  <2>1. DOMAIN blocks = {1}
    BY <1>3
  <2> QED
    BY <1>3, <2>1 DEF ChainLinked, Genesis
<1>7. Once(inCh, batch, blocks, accepted)
  <2>1. inCh = <<>> /\ batch = <<>> /\ \A n \in 1..Len(blocks) : blocks[n].txs = <<>>
    BY <1>3 DEF Init, Genesis
  <2> QED
    BY <1>1, <2>1 DEF Once
<1>8. Held(inCh, batch, blocks, accepted)
  BY DEF Init, Held
<1> QED
  BY <1>4, <1>5, <1>6, <1>7, <1>8 DEF Inv

\* Steps that move no envelope and no tip, and take no block in hand.
LEMMA FrameInv ==
  ASSUME Inv, accepted' = accepted, inCh' = inCh, batch' = batch, cut' = cut,
         cuts' = cuts, reverts' = reverts, blocks' = blocks,
         lpc' \in {"store", "notify"} => lpc \in {"store", "notify"}
  PROVE  Inv'
<1>1. TypeInv'
  BY DEF Inv, TypeInv
<1>2. CutInv'
  BY DEF Inv, CutInv
<1>3. ChainLinked'
  BY DEF Inv, ChainLinked
<1> QED
  BY <1>1, <1>2, <1>3 DEF Inv

LEMMA BroadcastInv == ASSUME Inv, NEW e \in Envs, Broadcast(e) PROVE Inv'
<1>1. /\ batch' = batch /\ lpc' = lpc /\ cut' = cut /\ cuts' = cuts /\ reverts' = reverts
      /\ blocks' = blocks /\ inCh' = Append(inCh, e) /\ accepted' = accepted \cup {e}
      /\ e \notin accepted
  BY DEF Broadcast
<1>2. TypeInv'
  BY <1>1 DEF Inv, TypeInv
<1>3. CutInv' /\ ChainLinked'
  BY <1>1 DEF Inv, CutInv, ChainLinked
<1>4. PICK in \in Seq(Envs), ba \in Seq(Envs), bs \in Seq(Block), acc \in SUBSET Envs :
        in = inCh /\ ba = batch /\ bs = blocks /\ acc = accepted
  BY DEF Inv, TypeInv
<1>5. /\ Once(inCh', batch', blocks', accepted')
      /\ Held(inCh, batch, blocks, accepted) => Held(inCh', batch', blocks', accepted')
  BY <1>1, <1>4, Accepted DEF Inv
<1> QED
  BY <1>1, <1>2, <1>3, <1>5 DEF Inv

LEMMA TakeEnvelopeInv == ASSUME Inv, TakeEnvelope PROVE Inv'
<1>1. /\ accepted' = accepted /\ cut' = cut /\ cuts' = cuts /\ reverts' = reverts
      /\ blocks' = blocks /\ inCh # <<>> /\ inCh' = Tail(inCh)
      /\ batch' = Append(batch, Head(inCh)) /\ lpc' \in {"next", "select"}
  BY DEF TakeEnvelope
<1>2. TypeInv'
  <2>1. inCh \in Seq(Envs) /\ batch \in Seq(Envs)
    BY DEF Inv, TypeInv
  <2>2. Tail(inCh) \in Seq(Envs) /\ Head(inCh) \in Envs
    BY <1>1, <2>1
  <2>3. Append(batch, Head(inCh)) \in Seq(Envs)
    BY <2>1, <2>2
  <2> QED
    BY <1>1, <2>2, <2>3 DEF Inv, TypeInv
<1>3. CutInv' /\ ChainLinked'
  BY <1>1 DEF Inv, CutInv, ChainLinked
<1>4. PICK in \in Seq(Envs), ba \in Seq(Envs), bs \in Seq(Block), acc \in SUBSET Envs :
        in = inCh /\ ba = batch /\ bs = blocks /\ acc = accepted
  BY DEF Inv, TypeInv
<1>5. /\ Once(inCh', batch', blocks', accepted')
      /\ Held(inCh, batch, blocks, accepted) => Held(inCh', batch', blocks', accepted')
  BY <1>1, <1>4, Taken DEF Inv
<1> QED
  BY <1>1, <1>2, <1>3, <1>5 DEF Inv

LEMMA CutsInv == ASSUME Inv, Flush \/ CutBlock PROVE Inv'
<1>1. /\ accepted' = accepted /\ inCh' = inCh /\ batch' = batch /\ reverts' = reverts
      /\ blocks' = blocks /\ cuts' = cuts + 1
  BY DEF Flush, CutBlock
<1>2. PICK f \in BOOLEAN : cut' = [block |-> NextBlock(IF f THEN <<>> ELSE batch), forced |-> f]
  BY Zenon DEF Flush, CutBlock
<1>3. PICK txs \in Seq(Envs) : txs = IF f THEN <<>> ELSE batch
  <2>1. << >> \in Seq(Envs) /\ batch \in Seq(Envs)
    BY DEF Inv, TypeInv
  <2>2. (IF f THEN <<>> ELSE batch) \in Seq(Envs)
    BY <2>1
  <2> QED
    BY <2>2, Zenon
<1>4. blocks[Len(blocks)] \in Block /\ Len(blocks) \in Nat /\ cuts + 1 \in Nat
  BY DEF Inv, TypeInv
<1>5. /\ cut'.block = [num |-> Len(blocks), hash |-> cuts + 1,
                       prev |-> blocks[Len(blocks)].hash, txs |-> txs]
      /\ cut' = [block |-> cut'.block, forced |-> f]
  BY <1>2, <1>3 DEF NextBlock
<1>6. cut'.block \in Block
  BY <1>4, <1>5 DEF Block
<1>7. TypeInv'
  BY <1>1, <1>4, <1>5, <1>6 DEF Inv, TypeInv
<1>8. CutInv'
  BY <1>1, <1>3, <1>5 DEF CutInv
<1>9. ChainLinked'
  BY <1>1 DEF Inv, ChainLinked
<1> QED
  BY <1>1, <1>7, <1>8, <1>9 DEF Inv

LEMMA StoreInv == ASSUME Inv, Store PROVE Inv'
<1>1. /\ accepted' = accepted /\ inCh' = inCh /\ batch' = batch /\ reverts' = reverts
      /\ blocks' = blocks /\ cuts' = cuts /\ lpc = "store"
  BY DEF Store
<1>2. CASE lpc' = "notify" /\ cut' = cut
  BY <1>1, <1>2, FrameInv
<1>3. CASE lpc' \in {"select", "panic"} /\ cut' = NoCut
  <2>1. Genesis \in Block
    <3>1. << >> \in Seq(Envs)
      OBVIOUS
    <3> QED
      BY <3>1 DEF Genesis, Block
  <2>2. TypeInv'
    BY <1>1, <1>3, <2>1 DEF Inv, TypeInv, NoCut
  <2>3. CutInv' /\ ChainLinked'
    BY <1>1, <1>3 DEF Inv, CutInv, ChainLinked
  <2> QED
    BY <1>1, <2>2, <2>3 DEF Inv
<1> QED
  BY <1>2, <1>3 DEF Store

LEMMA CommitInv == ASSUME Inv, Commit PROVE Inv'
<1>1. /\ accepted' = accepted /\ inCh' = inCh /\ cuts' = cuts /\ reverts' = reverts
      /\ lpc = "notify" /\ lpc' = "select" /\ cut' = NoCut
      /\ blocks' = Append(blocks, cut.block)
      /\ batch' = IF cut.forced THEN batch ELSE <<>>
  BY DEF Commit
<1>2. PICK in \in Seq(Envs), ba \in Seq(Envs), bs \in Seq(Block), acc \in SUBSET Envs, b \in Block,
           ba2 \in Seq(Envs) :
        /\ in = inCh /\ ba = batch /\ bs = blocks /\ acc = accepted /\ b = cut.block
        /\ ba2 = IF cut.forced THEN batch ELSE <<>>
  <2>1. << >> \in Seq(Envs) /\ batch \in Seq(Envs) /\ cut.block \in Block
    BY DEF Inv, TypeInv
  <2>2. (IF cut.forced THEN batch ELSE <<>>) \in Seq(Envs)
    BY <2>1
  <2> QED
    BY <2>1, <2>2, Zenon DEF Inv, TypeInv
<1>3. /\ b.num = Len(bs) /\ b.prev = bs[Len(bs)].hash /\ Len(bs) > 0
      /\ \/ b.txs = ba /\ ba2 = <<>>
         \/ b.txs = <<>> /\ ba2 = ba
  BY <1>1, <1>2 DEF Inv, TypeInv, CutInv
<1>4. /\ blocks' = Append(bs, b) /\ blocks' \in Seq(Block) /\ Len(blocks') = Len(bs) + 1
      /\ blocks'[Len(bs) + 1] = b /\ \A i \in 1..Len(bs) : blocks'[i] = bs[i]
      /\ Len(bs) \in Nat
  BY <1>1, <1>2
<1>5. TypeInv'
  <2>1. Genesis \in Block
    <3>1. << >> \in Seq(Envs)
      OBVIOUS
    <3> QED
      BY <3>1 DEF Genesis, Block
  <2>2. Len(blocks') > 0
    BY <1>4
  <2> QED
    BY <1>1, <1>2, <1>4, <2>1, <2>2 DEF Inv, TypeInv, NoCut
<1>6. CutInv'
  BY <1>1 DEF CutInv
<1>7. ChainLinked'
  <2>1. DOMAIN blocks' = 1..(Len(bs) + 1)
    BY <1>4
  <2>2. ASSUME NEW i \in 1..Len(bs)
        PROVE  blocks'[i].num = i - 1 /\ (i > 1 => blocks'[i].prev = blocks'[i - 1].hash)
    <3>1. bs[i].num = i - 1 /\ (i > 1 => bs[i].prev = bs[i - 1].hash)
      BY <1>2 DEF Inv, ChainLinked
    <3>2. i > 1 => i - 1 \in 1..Len(bs)
      BY <1>4
    <3> QED
      BY <1>4, <3>1, <3>2
  <2>3. Len(bs) \in 1..Len(bs) /\ b.num = (Len(bs) + 1) - 1 /\ (Len(bs) + 1) - 1 = Len(bs)
    BY <1>3, <1>4
  <2>4. \A i \in 1..(Len(bs) + 1) : i \in 1..Len(bs) \/ i = Len(bs) + 1
    BY <1>4
  <2>5. /\ blocks'[Len(bs) + 1].num = (Len(bs) + 1) - 1
        /\ blocks'[Len(bs) + 1].prev = blocks'[(Len(bs) + 1) - 1].hash
    BY <1>3, <1>4, <2>3
  <2> QED
    BY <2>1, <2>2, <2>4, <2>5 DEF ChainLinked
<1>8. /\ Once(inCh', batch', blocks', accepted')
      /\ Held(inCh, batch, blocks, accepted) => Held(inCh', batch', blocks', accepted')
  <2>1. /\ Once(in, ba2, Append(bs, b), acc)
        /\ Held(in, ba, bs, acc) => Held(in, ba2, Append(bs, b), acc)
    BY <1>2, <1>3, Committed, Zenon DEF Inv
  <2> QED
    BY <1>1, <1>2, <2>1
<1> QED
  BY <1>1, <1>5, <1>6, <1>7, <1>8 DEF Inv

LEMMA RevertInv == ASSUME Inv, NEW num \in Nat, Revert(num) PROVE Inv'
<1>1. /\ accepted' = accepted /\ inCh' = inCh /\ cuts' = cuts /\ reverts' = reverts + 1
      /\ lpc = "select" /\ lpc' = lpc /\ cut' = cut /\ batch' = <<>>
      /\ blocks' = IF ~ownDB /\ num < Len(blocks) THEN SubSeq(blocks, 1, num + 1) ELSE blocks
  BY DEF Revert
<1>2. PICK in \in Seq(Envs), ba \in Seq(Envs), bs \in Seq(Block), acc \in SUBSET Envs :
        in = inCh /\ ba = batch /\ bs = blocks /\ acc = accepted
  BY DEF Inv, TypeInv
<1>3. Len(bs) \in Nat /\ Len(bs) > 0
  BY <1>2 DEF Inv, TypeInv
<1>4. PICK bs2 \in Seq(Block) :
        /\ bs2 = blocks' /\ Len(bs2) <= Len(bs) /\ Len(bs2) > 0
        /\ \A n \in 1..Len(bs2) : bs2[n] = bs[n]
  <2>1. CASE blocks' = blocks
    BY <1>2, <1>3, <2>1
  <2>2. CASE num < Len(bs) /\ blocks' = SubSeq(bs, 1, num + 1)
    <3>1. num + 1 <= Len(bs) /\ num + 1 \in Nat
      BY <1>3, <2>2
    <3>2. /\ SubSeq(bs, 1, num + 1) \in Seq(Block) /\ Len(SubSeq(bs, 1, num + 1)) = num + 1
          /\ \A n \in 1..(num + 1) : SubSeq(bs, 1, num + 1)[n] = bs[n]
      BY <3>1
    <3>3. PICK bs2 \in Seq(Block) : bs2 = SubSeq(bs, 1, num + 1)
      BY <3>2, Zenon
    <3>4. Len(bs2) = num + 1 /\ \A n \in 1..Len(bs2) : bs2[n] = bs[n]
      BY <3>2, <3>3
    <3>5. Len(bs2) <= Len(bs) /\ Len(bs2) > 0
      BY <3>1, <3>4
    <3> QED
      BY <2>2, <3>3, <3>4, <3>5, Zenon
  <2> QED
    BY <1>1, <1>2, <2>1, <2>2
<1>5. TypeInv'
  <2>1. << >> \in Seq(Envs)
    OBVIOUS
  <2> QED
    BY <1>1, <1>4, <2>1 DEF Inv, TypeInv
<1>6. CutInv'
  BY <1>1 DEF CutInv
<1>7. ChainLinked'
  <2> SUFFICES ASSUME NEW i \in 1..Len(bs2)
               PROVE  bs2[i].num = i - 1 /\ (i > 1 => bs2[i].prev = bs2[i - 1].hash)
    <3>1. bs2 = blocks' /\ DOMAIN bs2 = 1..Len(bs2)
      BY <1>4
    <3> QED
      BY <3>1, Zenon DEF ChainLinked
  <2>1. i \in 1..Len(bs) /\ (i > 1 => i - 1 \in 1..Len(bs2))
    BY <1>3, <1>4
  <2>2. bs[i].num = i - 1 /\ (i > 1 => bs[i].prev = bs[i - 1].hash)
    <3>1. \A j \in DOMAIN bs : bs[j].num = j - 1 /\ (j > 1 => bs[j].prev = bs[j - 1].hash)
      BY <1>2 DEF Inv, ChainLinked
    <3>2. DOMAIN bs = 1..Len(bs)
      OBVIOUS
    <3> QED
      BY <2>1, <3>1, <3>2
  <2> QED
    BY <1>4, <2>1, <2>2, Zenon
<1>8. Once(inCh', batch', blocks', accepted')
  <2>1. Once(in, <<>>, bs2, acc)
    BY <1>2, <1>4, Reverted DEF Inv
  <2> QED
    BY <1>1, <1>2, <1>4, <2>1
<1>9. reverts' # 0
  BY <1>1 DEF Inv, TypeInv
<1> QED
  BY <1>5, <1>6, <1>7, <1>8, <1>9 DEF Inv

LEMMA Invariant == Spec => []Inv
<1>1. Inv /\ [Next]_vars => Inv'
  <2> SUFFICES ASSUME Inv, [Next]_vars PROVE Inv'
    OBVIOUS
  <2>1. ASSUME UNCHANGED <<accepted, inCh, batch, lpc, cut, cuts, reverts, blocks>> PROVE Inv'
    BY <2>1, FrameInv
  <2>2. ASSUME NEW c \in Clients, ClientStep(c) PROVE Inv'
    BY <2>1, <2>2 DEF ClientStep, Subscribe, Replay, StreamBlock, StreamEnds, ordererVars
  <2>3. ASSUME NEW c \in Clients, NEW st, Open(c, st) PROVE Inv'
    BY <2>1, <2>3, Zenon DEF Open, ordererVars
  <2>4. CASE StopServers \/ StopStep
    BY <2>1, <2>4 DEF StopServers, StopStep, StopOrderer, CloseLedger, ordererVars
  <2>5. CASE UNCHANGED vars
    BY <2>1, <2>5 DEF vars, ordererVars
  <2>6. CASE TimerFires \/ LoopStops
    BY <2>6, FrameInv DEF TimerFires, LoopStops
  <2>7. ASSUME NEW n \in 0..MaxBlocks, Revert(n) PROVE Inv'
    <3>1. n \in Nat
      BY TestNetworkAssumption
    <3> QED
      BY <2>7, <3>1, RevertInv
  <2> QED
    BY <2>2, <2>3, <2>4, <2>5, <2>6, <2>7, BroadcastInv, TakeEnvelopeInv, CutsInv, StoreInv,
       CommitInv DEF Next, LoopStep
<1> QED
  BY <1>1, InitInv, PTL DEF Spec
-----------------------------------------------------------------------------
\* ChainLinked for any instance: blocks cut by size, by the timer or by force, and
\* reverted in between.
THEOREM ChainIsLinked == Spec => []ChainLinked
<1>1. Inv => ChainLinked
  BY DEF Inv
<1> QED
  BY <1>1, Invariant, PTL

\* EnvelopeIsKept for any instance.
THEOREM EnvelopesAreKept == Spec => []EnvelopeIsKept
<1>1. Inv => EnvelopeIsKept
  <2> SUFFICES ASSUME Inv, NEW e \in accepted
               PROVE  Cardinality(Holders(e)) <= 1 /\ (reverts = 0 => Holders(e) # {})
    BY DEF EnvelopeIsKept
  <2>1. /\ DOMAIN inCh = 1..Len(inCh) /\ DOMAIN batch = 1..Len(batch)
        /\ DOMAIN blocks = 1..Len(blocks)
        /\ \A n \in 1..Len(blocks) : DOMAIN blocks[n].txs = 1..Len(blocks[n].txs)
    <3>1. ASSUME NEW n \in 1..Len(blocks) PROVE blocks[n].txs \in Seq(Envs)
      <4>1. blocks[n] \in Block
        BY DEF Inv, TypeInv
      <4> QED
        BY <4>1 DEF Block
    <3> QED
      BY <3>1 DEF Inv, TypeInv
  <2>2. ASSUME NEW x \in Holders(e)
        PROVE  \/ \E i \in 1..Len(inCh) : x = <<0, i>> /\ inCh[i] = e
               \/ \E i \in 1..Len(batch) : x = <<-1, i>> /\ batch[i] = e
               \/ \E n \in 1..Len(blocks) : \E i \in 1..Len(blocks[n].txs) :
                    x = <<n, i>> /\ blocks[n].txs[i] = e
    BY <2>1 DEF Holders
  <2>3. ASSUME NEW x \in Holders(e), NEW y \in Holders(e) PROVE x = y
    <3>1. CASE \E i \in 1..Len(inCh) : x = <<0, i>> /\ inCh[i] = e
      <4>1. PICK i \in 1..Len(inCh) : x = <<0, i>> /\ inCh[i] = e
        BY <3>1
      <4>2. /\ \A j \in 1..Len(inCh) : inCh[j] = e => i = j
            /\ \A j \in 1..Len(batch) : batch[j] # e
            /\ \A n \in 1..Len(blocks) : \A j \in 1..Len(blocks[n].txs) : blocks[n].txs[j] # e
        BY <4>1, Zenon DEF Inv, Once
      <4> QED
        BY <2>2, <4>1, <4>2, Zenon
    <3>2. CASE \E i \in 1..Len(batch) : x = <<-1, i>> /\ batch[i] = e
      <4>1. PICK i \in 1..Len(batch) : x = <<-1, i>> /\ batch[i] = e
        BY <3>2
      <4>2. /\ \A j \in 1..Len(batch) : batch[j] = e => i = j
            /\ \A j \in 1..Len(inCh) : inCh[j] # e
            /\ \A n \in 1..Len(blocks) : \A j \in 1..Len(blocks[n].txs) : blocks[n].txs[j] # e
        BY <4>1, Zenon DEF Inv, Once
      <4> QED
        BY <2>2, <4>1, <4>2, Zenon
    <3>3. CASE \E n \in 1..Len(blocks) : \E i \in 1..Len(blocks[n].txs) :
                 x = <<n, i>> /\ blocks[n].txs[i] = e
      <4>0. PICK n \in 1..Len(blocks) : \E i \in 1..Len(blocks[n].txs) :
              x = <<n, i>> /\ blocks[n].txs[i] = e
        BY <3>3
      <4>1. PICK i \in 1..Len(blocks[n].txs) : x = <<n, i>> /\ blocks[n].txs[i] = e
        BY <4>0
      <4>2. /\ \A j \in 1..Len(inCh) : inCh[j] # e
            /\ \A j \in 1..Len(batch) : batch[j] # e
            /\ \A m \in 1..Len(blocks) : \A l \in 1..Len(blocks[m].txs) :
                 e = blocks[m].txs[l] => n = m /\ i = l
        BY <4>1 DEF Inv, Once
      <4>3. \E m \in 1..Len(blocks) : \E l \in 1..Len(blocks[m].txs) :
              y = <<m, l>> /\ blocks[m].txs[l] = e
        BY <2>2, <4>2, Zenon
      <4> QED
        BY <4>1, <4>2, <4>3
    <3> QED
      BY <2>2, <3>1, <3>2, <3>3
  <2>4. Cardinality(Holders(e)) <= 1
    <3>1. CASE Holders(e) = {}
      BY <3>1, FS_EmptySet
    <3>2. CASE Holders(e) # {}
      <4>1. PICK x : Holders(e) = {x}
        BY <2>3, <3>2
      <4>2. Cardinality({x}) = 1
        BY FS_Singleton
      <4> QED
        BY <4>1, <4>2
    <3> QED
      BY <3>1, <3>2
  <2>5. ASSUME reverts = 0 PROVE Holders(e) # {}
    <3>1. \/ \E i \in 1..Len(inCh) : inCh[i] = e
          \/ \E i \in 1..Len(batch) : batch[i] = e
          \/ \E n \in 1..Len(blocks) : \E i \in 1..Len(blocks[n].txs) : blocks[n].txs[i] = e
      BY <2>5 DEF Inv, Held
    <3>2. CASE \E i \in 1..Len(inCh) : inCh[i] = e
      <4>1. PICK i \in 1..Len(inCh) : inCh[i] = e
        BY <3>2
      <4>2. <<0, i>> \in Holders(e)
        BY <2>1, <4>1 DEF Holders
      <4> QED
        BY <4>2
    <3>3. CASE \E i \in 1..Len(batch) : batch[i] = e
      <4>1. PICK i \in 1..Len(batch) : batch[i] = e
        BY <3>3
      <4>2. <<-1, i>> \in Holders(e)
        BY <2>1, <4>1 DEF Holders
      <4> QED
        BY <4>2
    <3>4. CASE \E n \in 1..Len(blocks) : \E i \in 1..Len(blocks[n].txs) : blocks[n].txs[i] = e
      <4>0. PICK n \in 1..Len(blocks) : \E i \in 1..Len(blocks[n].txs) : blocks[n].txs[i] = e
        BY <3>4
      <4>1. PICK i \in 1..Len(blocks[n].txs) : blocks[n].txs[i] = e
        BY <4>0
      <4>2. <<n, i>> \in {<<n, j>> : j \in {l \in DOMAIN blocks[n].txs : blocks[n].txs[l] = e}}
        BY <2>1, <4>1
      <4>3. <<n, i>> \in Holders(e)
        BY <2>1, <4>2 DEF Holders
      <4> QED
        BY <4>3
    <3> QED
      BY <3>1, <3>2, <3>3, <3>4
  <2> QED
    BY <2>4, <2>5
<1> QED
  BY <1>1, Invariant, PTL

-----------------------------------------------------------------------------
\* The streams of blocks.  What is sent, what is left of the snapshot and what waits
\* in the channel rise in this order, and together they leave out no block from the
\* start block on but those the channel had no room for.

Rising(bs) == \A i, j \in 1..Len(bs) : i < j => bs[i].num < bs[j].num
Before(as, bs) == \A i \in 1..Len(as), j \in 1..Len(bs) : as[i].num < bs[j].num
Under(bs, h) == \A i \in 1..Len(bs) : bs[i].num < h
Has(bs, n) == \E i \in 1..Len(bs) : bs[i].num = n

\* d: delivered, r: to replay, q: queued, o: overflowed, h: the height.
Ordered(d, r, q, h) ==
  /\ Rising(d) /\ Rising(r) /\ Rising(q) /\ Before(d, r) /\ Before(d, q) /\ Before(r, q)
  /\ Under(d, h) /\ Under(r, h) /\ Under(q, h)

Covered(n, d, r, q, o) == n \in o \/ Has(d, n) \/ Has(r, n) \/ Has(q, n)

Gapless(d, s, o) ==
  s >= 0 => \A i \in 1..Len(d) : \A n \in s..d[i].num : n \in o \/ Has(d, n)

\* The same of what is pending, and while the channel is registered (all) of the chain.
Complete(d, r, q, s, o, h, all) ==
  s >= 0 =>
    /\ \A i \in 1..Len(r) : \A n \in s..r[i].num : Covered(n, d, r, q, o)
    /\ \A i \in 1..Len(q) : \A n \in s..q[i].num : Covered(n, d, r, q, o)
    /\ all => \A n \in s..(h - 1) : Covered(n, d, r, q, o)

Channel == [queue : Seq(Block), registered : BOOLEAN, closed : BOOLEAN]

StreamType ==
  /\ delivered \in [Clients -> Seq(Block)] /\ replay \in [Clients -> Seq(Block)]
  /\ sub \in [Clients -> Channel] /\ start \in [Clients -> Int]
  /\ overflow \in [Clients -> SUBSET Nat]
  /\ cpc \in [Clients -> {"idle", "opened", "stream", "returned"}]

StreamOf(c) ==
  /\ cpc[c] \in {"idle", "opened"} =>
       /\ delivered[c] = <<>> /\ replay[c] = <<>> /\ sub[c].queue = <<>>
       /\ ~sub[c].registered
  /\ reverts = 0 =>
       /\ Ordered(delivered[c], replay[c], sub[c].queue, Len(blocks))
       /\ Gapless(delivered[c], start[c], overflow[c])
       /\ cpc[c] = "stream" =>
            Complete(delivered[c], replay[c], sub[c].queue, start[c], overflow[c],
                     Len(blocks), sub[c].registered)

StreamInv == StreamType /\ \A c \in Clients : StreamOf(c)

\* The head of a sequence and the rest of it.
LEMMA TailOf ==
  ASSUME NEW bs \in Seq(Block), bs # <<>>
  PROVE  /\ Tail(bs) \in Seq(Block) /\ Head(bs) \in Block /\ Len(bs) \in Nat \ {0}
         /\ Head(bs) = bs[1] /\ 1 \in 1..Len(bs)
         /\ \A i \in 1..Len(Tail(bs)) : i + 1 \in 1..Len(bs) /\ Tail(bs)[i] = bs[i + 1] /\ i \in Nat
         /\ \A i \in 1..Len(bs) : i # 1 => i - 1 \in 1..Len(Tail(bs)) /\ Tail(bs)[i - 1] = bs[i]
<1>1. /\ Len(bs) \in Nat \ {0} /\ Len(Tail(bs)) = Len(bs) - 1 /\ Head(bs) = bs[1]
      /\ \A i \in 1..Len(Tail(bs)) : Tail(bs)[i] = bs[i + 1]
      /\ Tail(bs) \in Seq(Block) /\ Head(bs) \in Block
  OBVIOUS
<1>2. \A i \in 1..Len(bs) : i # 1 => i - 1 \in 1..Len(Tail(bs)) /\ (i - 1) + 1 = i
  BY <1>1
<1>3. \A i \in 1..Len(Tail(bs)) : i + 1 \in 1..Len(bs) /\ i \in Nat
  BY <1>1
<1>4. 1 \in 1..Len(bs)
  BY <1>1
<1> QED
  BY <1>1, <1>2, <1>3, <1>4

LEMMA AppendOf ==
  ASSUME NEW bs \in Seq(Block), NEW b \in Block
  PROVE  /\ Append(bs, b) \in Seq(Block)
         /\ \A i \in 1..Len(Append(bs, b)) : \/ i \in 1..Len(bs) /\ Append(bs, b)[i] = bs[i]
                                             \/ i = Len(bs) + 1 /\ Append(bs, b)[i] = b
         /\ \A i \in 1..Len(bs) : i \in 1..Len(Append(bs, b)) /\ Append(bs, b)[i] = bs[i]
         /\ Len(bs) + 1 \in 1..Len(Append(bs, b)) /\ Append(bs, b)[Len(bs) + 1] = b
<1>1. /\ Append(bs, b) \in Seq(Block) /\ Len(bs) \in Nat
      /\ Len(Append(bs, b)) = Len(bs) + 1 /\ Append(bs, b)[Len(bs) + 1] = b
      /\ \A i \in 1..Len(bs) : Append(bs, b)[i] = bs[i]
  OBVIOUS
<1>2. \A i \in 1..(Len(bs) + 1) : i \in 1..Len(bs) \/ i = Len(bs) + 1
  BY <1>1
<1>3. Len(bs) + 1 \in 1..(Len(bs) + 1) /\ \A i \in 1..Len(bs) : i \in 1..(Len(bs) + 1)
  BY <1>1
<1> QED
  BY <1>1, <1>2, <1>3

LEMMA NumIsNat == ASSUME NEW bs \in Seq(Block), NEW i \in 1..Len(bs) PROVE bs[i].num \in Nat
<1>1. bs[i] \in Block
  OBVIOUS
<1> QED
  BY <1>1 DEF Block

LEMMA TailRises ==
  ASSUME NEW bs \in Seq(Block), bs # <<>>, Rising(bs)
  PROVE  /\ Rising(Tail(bs))
         /\ \A i \in 1..Len(Tail(bs)) : Head(bs).num < Tail(bs)[i].num
<1>1. ASSUME NEW i \in 1..Len(Tail(bs)), NEW j \in 1..Len(Tail(bs)), i < j
      PROVE  Tail(bs)[i].num < Tail(bs)[j].num
  <2>1. /\ i + 1 \in 1..Len(bs) /\ j + 1 \in 1..Len(bs) /\ i + 1 < j + 1
        /\ Tail(bs)[i] = bs[i + 1] /\ Tail(bs)[j] = bs[j + 1]
    BY <1>1, TailOf
  <2> QED
    BY <2>1 DEF Rising
<1>2. ASSUME NEW i \in 1..Len(Tail(bs)) PROVE Head(bs).num < Tail(bs)[i].num
  <2>1. /\ i + 1 \in 1..Len(bs) /\ 1 \in 1..Len(bs) /\ 1 < i + 1
        /\ Tail(bs)[i] = bs[i + 1] /\ Head(bs) = bs[1]
    BY TailOf
  <2> QED
    BY <2>1 DEF Rising
<1> QED
  BY <1>1, <1>2 DEF Rising

LEMMA AppendRises ==
  ASSUME NEW bs \in Seq(Block), NEW b \in Block, Rising(bs), Under(bs, b.num)
  PROVE  Rising(Append(bs, b))
<1> SUFFICES ASSUME NEW i \in 1..Len(Append(bs, b)), NEW j \in 1..Len(Append(bs, b)), i < j
             PROVE  Append(bs, b)[i].num < Append(bs, b)[j].num
  BY DEF Rising
<1>1. CASE j \in 1..Len(bs)
  <2>1. i \in 1..Len(bs) /\ Append(bs, b)[i] = bs[i] /\ Append(bs, b)[j] = bs[j]
    BY <1>1, AppendOf
  <2> QED
    BY <1>1, <2>1 DEF Rising
<1>2. CASE j = Len(bs) + 1
  <2>1. i \in 1..Len(bs) /\ Append(bs, b)[i] = bs[i] /\ Append(bs, b)[j] = b
    BY <1>2, AppendOf
  <2> QED
    BY <2>1 DEF Under
<1> QED
  BY <1>1, <1>2, AppendOf

LEMMA HasTail ==
  ASSUME NEW bs \in Seq(Block), bs # <<>>, NEW n
  PROVE  Has(bs, n) <=> n = Head(bs).num \/ Has(Tail(bs), n)
<1>1. ASSUME NEW i \in 1..Len(bs), bs[i].num = n PROVE n = Head(bs).num \/ Has(Tail(bs), n)
  BY <1>1, TailOf DEF Has
<1>2. Has(Tail(bs), n) => Has(bs, n)
  BY TailOf DEF Has
<1>3. n = Head(bs).num => Has(bs, n)
  BY TailOf DEF Has
<1> QED
  BY <1>1, <1>2, <1>3 DEF Has

LEMMA HasAppend ==
  ASSUME NEW bs \in Seq(Block), NEW b \in Block, NEW n
  PROVE  Has(Append(bs, b), n) <=> n = b.num \/ Has(bs, n)
BY AppendOf DEF Has

\* Both loops: the head of what is pending is taken.
LEMMA ReplayOrdered ==
  ASSUME NEW d \in Seq(Block), NEW r \in Seq(Block), NEW q \in Seq(Block), NEW h \in Nat,
         r # <<>>, Ordered(d, r, q, h)
  PROVE  Ordered(d, Tail(r), q, h) /\ Ordered(Append(d, Head(r)), Tail(r), q, h)
<1>1. Rising(Tail(r)) /\ \A i \in 1..Len(Tail(r)) : Head(r).num < Tail(r)[i].num
  BY TailRises DEF Ordered
<1>2. Before(d, Tail(r)) /\ Before(Tail(r), q) /\ Under(Tail(r), h)
  BY TailOf DEF Ordered, Before, Under
<1>3. Under(d, Head(r).num) /\ Head(r).num < h /\ \A i \in 1..Len(q) : Head(r).num < q[i].num
  BY TailOf DEF Ordered, Before, Under
<1>4. Head(r) \in Block
  BY TailOf
<1>5. Rising(Append(d, Head(r)))
  BY <1>3, <1>4, AppendRises DEF Ordered
<1>6. /\ Before(Append(d, Head(r)), Tail(r)) /\ Before(Append(d, Head(r)), q)
      /\ Under(Append(d, Head(r)), h)
  BY <1>1, <1>2, <1>3, <1>4, AppendOf DEF Ordered, Before, Under
<1> QED
  BY <1>1, <1>2, <1>5, <1>6, Zenon DEF Ordered

LEMMA QueueOrdered ==
  ASSUME NEW d \in Seq(Block), NEW q \in Seq(Block), NEW h \in Nat,
         q # <<>>, Ordered(d, <<>>, q, h)
  PROVE  Ordered(d, <<>>, Tail(q), h) /\ Ordered(Append(d, Head(q)), <<>>, Tail(q), h)
<1>1. Rising(Tail(q)) /\ \A i \in 1..Len(Tail(q)) : Head(q).num < Tail(q)[i].num
  BY TailRises DEF Ordered
<1>2. Before(d, Tail(q)) /\ Under(Tail(q), h)
  BY TailOf DEF Ordered, Before, Under
<1>3. Under(d, Head(q).num) /\ Head(q).num < h
  BY TailOf DEF Ordered, Before, Under
<1>4. Head(q) \in Block
  BY TailOf
<1>5. Rising(Append(d, Head(q)))
  BY <1>3, <1>4, AppendRises DEF Ordered
<1>6. Before(Append(d, Head(q)), Tail(q)) /\ Under(Append(d, Head(q)), h)
  BY <1>1, <1>2, <1>3, <1>4, AppendOf DEF Ordered, Before, Under
<1>7. \A bs : Before(<< >>, bs) /\ Before(bs, << >>)
  <2>1. 1..Len(<< >>) = {}
    OBVIOUS
  <2> QED
    BY <2>1 DEF Before
<1> QED
  BY <1>1, <1>2, <1>5, <1>6, <1>7 DEF Ordered

\* What is sent next leaves no gap.
LEMMA SentGapless ==
  ASSUME NEW d \in Seq(Block), NEW b \in Block, NEW s \in Int, NEW o,
         Gapless(d, s, o), s >= 0 => \A n \in s..b.num : n \in o \/ Has(d, n) \/ n = b.num
  PROVE  Gapless(Append(d, b), s, o)
<1> SUFFICES ASSUME s >= 0, NEW i \in 1..Len(Append(d, b)), NEW n \in s..Append(d, b)[i].num
             PROVE  n \in o \/ Has(d, n) \/ n = b.num
  BY HasAppend DEF Gapless
<1>1. CASE i \in 1..Len(d) /\ Append(d, b)[i] = d[i]
  BY <1>1 DEF Gapless
<1>2. CASE Append(d, b)[i] = b
  BY <1>2
<1> QED
  BY <1>1, <1>2, AppendOf

LEMMA ReplayComplete ==
  ASSUME NEW d \in Seq(Block), NEW r \in Seq(Block), NEW q \in Seq(Block), NEW h \in Nat,
         NEW s \in Int, NEW o, NEW all, r # <<>>, Ordered(d, r, q, h), Gapless(d, s, o),
         Complete(d, r, q, s, o, h, all)
  PROVE  /\ Gapless(Append(d, Head(r)), s, o)
         /\ Complete(Append(d, Head(r)), Tail(r), q, s, o, h, all)
         /\ Head(r).num < s => Complete(d, Tail(r), q, s, o, h, all)
<1>1. Head(r) \in Block /\ Head(r).num \in Nat
  BY TailOf, Zenon DEF Block
<1>2. \A n : Covered(n, d, r, q, o) <=> Covered(n, Append(d, Head(r)), Tail(r), q, o)
  BY <1>1, HasTail, HasAppend DEF Covered
<1>3. Complete(Append(d, Head(r)), Tail(r), q, s, o, h, all)
  BY <1>2, TailOf DEF Complete
<1>4. ASSUME s >= 0, NEW n \in s..Head(r).num PROVE n \in o \/ Has(d, n) \/ n = Head(r).num
  <2>1. Covered(n, d, r, q, o)
    BY <1>4, TailOf DEF Complete
  <2>2. ~Has(q, n)
    <3>1. \A i \in 1..Len(q) : Head(r).num < q[i].num /\ q[i].num \in Nat
      BY TailOf, NumIsNat DEF Ordered, Before
    <3> QED
      BY <1>1, <3>1 DEF Has
  <2>3. ~Has(Tail(r), n)
    <3>1. Tail(r) \in Seq(Block)
      BY TailOf
    <3>2. \A i \in 1..Len(Tail(r)) : Head(r).num < Tail(r)[i].num /\ Tail(r)[i].num \in Nat
      BY <3>1, TailRises, NumIsNat DEF Ordered
    <3>3. n \in Int /\ n <= Head(r).num
      BY <1>1
    <3>4. \A i \in 1..Len(Tail(r)) : Tail(r)[i].num # n
      BY <1>1, <3>2, <3>3
    <3> QED
      BY <3>4 DEF Has
  <2> QED
    BY <2>1, <2>2, <2>3, HasTail DEF Covered
<1>5. ASSUME Head(r).num < s PROVE Complete(d, Tail(r), q, s, o, h, all)
  <2>1. ASSUME NEW n \in Int, n >= s, Covered(n, d, r, q, o) PROVE Covered(n, d, Tail(r), q, o)
    <3>1. n # Head(r).num
      BY <1>1, <1>5, <2>1
    <3> QED
      BY <2>1, <3>1, HasTail DEF Covered
  <2>2. \A i \in 1..Len(Tail(r)) : Tail(r)[i].num \in Int
    BY TailOf, NumIsNat
  <2>3. \A i \in 1..Len(q) : q[i].num \in Int
    BY NumIsNat
  <2>4. ASSUME s >= 0, NEW m \in Int, NEW n \in s..m, Covered(n, d, r, q, o)
        PROVE  Covered(n, d, Tail(r), q, o)
    BY <2>1, <2>4
  <2> QED
    BY <2>2, <2>3, <2>4, TailOf DEF Complete
<1> QED
  BY <1>1, <1>3, <1>4, <1>5, SentGapless

LEMMA QueueComplete ==
  ASSUME NEW d \in Seq(Block), NEW q \in Seq(Block), NEW h \in Nat,
         NEW s \in Int, NEW o, NEW all, q # <<>>, Ordered(d, <<>>, q, h), Gapless(d, s, o),
         Complete(d, <<>>, q, s, o, h, all)
  PROVE  /\ Gapless(Append(d, Head(q)), s, o)
         /\ Complete(Append(d, Head(q)), <<>>, Tail(q), s, o, h, all)
         /\ Head(q).num < s => Complete(d, <<>>, Tail(q), s, o, h, all)
<1>1. Head(q) \in Block /\ Head(q).num \in Nat
  BY TailOf, Zenon DEF Block
<1>2. \A n : Covered(n, d, << >>, q, o) <=> Covered(n, Append(d, Head(q)), << >>, Tail(q), o)
  BY <1>1, HasTail, HasAppend DEF Covered
<1>3. 1..Len(<< >>) = {}
  OBVIOUS
<1>4. Complete(Append(d, Head(q)), << >>, Tail(q), s, o, h, all)
  BY <1>2, <1>3, TailOf DEF Complete
<1>5. ASSUME s >= 0, NEW n \in s..Head(q).num PROVE n \in o \/ Has(d, n) \/ n = Head(q).num
  <2>1. Covered(n, d, << >>, q, o)
    BY <1>5, TailOf DEF Complete
  <2>2. ~Has(Tail(q), n)
    <3>1. Tail(q) \in Seq(Block)
      BY TailOf
    <3>2. \A i \in 1..Len(Tail(q)) : Head(q).num < Tail(q)[i].num /\ Tail(q)[i].num \in Nat
      BY <3>1, TailRises, NumIsNat DEF Ordered
    <3> QED
      BY <1>1, <3>2 DEF Has
  <2>3. ~Has(<< >>, n)
    BY <1>3 DEF Has
  <2> QED
    BY <2>1, <2>2, <2>3, HasTail DEF Covered
<1>6. ASSUME Head(q).num < s PROVE Complete(d, << >>, Tail(q), s, o, h, all)
  <2>1. ASSUME NEW n \in Int, n >= s, Covered(n, d, << >>, q, o)
        PROVE  Covered(n, d, << >>, Tail(q), o)
    <3>1. n # Head(q).num
      BY <1>1, <1>6, <2>1
    <3> QED
      BY <2>1, <3>1, HasTail DEF Covered
  <2>2. \A i \in 1..Len(Tail(q)) : Tail(q)[i].num \in Int
    BY TailOf, NumIsNat
  <2>3. ASSUME s >= 0, NEW m \in Int, NEW n \in s..m, Covered(n, d, << >>, q, o)
        PROVE  Covered(n, d, << >>, Tail(q), o)
    BY <2>1, <2>3
  <2> QED
    BY <1>3, <2>2, <2>3, TailOf DEF Complete
<1> QED
  BY <1>1, <1>4, <1>5, <1>6, SentGapless

\* commit: the new block goes to the end of the channel or overflows it.
LEMMA HigherOrdered ==
  ASSUME NEW d \in Seq(Block), NEW r \in Seq(Block), NEW q \in Seq(Block), NEW h \in Nat,
         Ordered(d, r, q, h)
  PROVE  Ordered(d, r, q, h + 1)
<1>1. ASSUME NEW bs \in Seq(Block), Under(bs, h) PROVE Under(bs, h + 1)
  BY <1>1, NumIsNat DEF Under
<1> QED
  BY <1>1 DEF Ordered

LEMMA QueuedOrdered ==
  ASSUME NEW d \in Seq(Block), NEW r \in Seq(Block), NEW q \in Seq(Block), NEW h \in Nat,
         Ordered(d, r, q, h), NEW b \in Block, b.num = h
  PROVE  Ordered(d, r, Append(q, b), h + 1)
<1>1. Ordered(d, r, q, h + 1) /\ h < h + 1
  BY HigherOrdered
<1>2. Rising(Append(q, b))
  BY AppendRises, Zenon DEF Ordered
<1>3. Before(d, Append(q, b)) /\ Before(r, Append(q, b)) /\ Under(Append(q, b), h + 1)
  <2>1. \A i \in 1..Len(Append(q, b)) : \/ i \in 1..Len(q) /\ Append(q, b)[i] = q[i]
                                       \/ Append(q, b)[i] = b
    BY AppendOf
  <2>2. ASSUME NEW as \in Seq(Block), Before(as, q), Under(as, h) PROVE Before(as, Append(q, b))
    BY <2>1, <2>2, Zenon DEF Before, Under
  <2>3. Under(Append(q, b), h + 1)
    BY <1>1, <2>1 DEF Ordered, Under
  <2> QED
    BY <2>2, <2>3 DEF Ordered
<1> QED
  BY <1>1, <1>2, <1>3 DEF Ordered

LEMMA QueuedComplete ==
  ASSUME NEW d \in Seq(Block), NEW r \in Seq(Block), NEW q \in Seq(Block), NEW h \in Nat,
         NEW s \in Int, NEW o, NEW b \in Block, b.num = h, Complete(d, r, q, s, o, h, TRUE)
  PROVE  Complete(d, r, Append(q, b), s, o, h + 1, TRUE)
<1>1. \A n : Covered(n, d, r, q, o) \/ n = h => Covered(n, d, r, Append(q, b), o)
  BY HasAppend DEF Covered
<1>2. ASSUME s >= 0, NEW n \in s..h PROVE Covered(n, d, r, Append(q, b), o)
  <2>1. n = h \/ n \in s..(h - 1)
    BY <1>2
  <2> QED
    BY <1>1, <1>2, <2>1 DEF Complete
<1>3. (h + 1) - 1 = h
  OBVIOUS
<1>4. ASSUME s >= 0, NEW i \in 1..Len(Append(q, b)), NEW n \in s..Append(q, b)[i].num
      PROVE  Covered(n, d, r, Append(q, b), o)
  <2>1. CASE i \in 1..Len(q) /\ Append(q, b)[i] = q[i]
    BY <1>1, <1>4, <2>1, Zenon DEF Complete
  <2>2. CASE Append(q, b)[i] = b
    BY <1>2, <1>4, <2>2, Zenon
  <2> QED
    BY <2>1, <2>2, AppendOf
<1> QED
  BY <1>1, <1>2, <1>3, <1>4 DEF Complete

LEMMA OverflowComplete ==
  ASSUME NEW d \in Seq(Block), NEW r \in Seq(Block), NEW q \in Seq(Block), NEW h \in Nat,
         NEW s \in Int, NEW o, Complete(d, r, q, s, o, h, TRUE)
  PROVE  Complete(d, r, q, s, o \cup {h}, h + 1, TRUE)
<1>1. \A n : Covered(n, d, r, q, o) \/ n = h => Covered(n, d, r, q, o \cup {h})
  BY DEF Covered
<1>2. ASSUME s >= 0, NEW n \in s..h PROVE Covered(n, d, r, q, o \cup {h})
  <2>1. n = h \/ n \in s..(h - 1)
    BY <1>2
  <2> QED
    BY <1>1, <1>2, <2>1, Zenon DEF Complete
<1>3. (h + 1) - 1 = h
  OBVIOUS
<1> QED
  BY <1>1, <1>2, <1>3, Zenon DEF Complete

\* subscribe: the snapshot holds every block from the start block on.
LEMMA SnapshotStarts ==
  ASSUME Inv, NEW s \in Int, NEW r, r = (IF s = Feed THEN <<>> ELSE blocks)
  PROVE  /\ From(s) \in Int /\ r \in Seq(Block)
         /\ Ordered(<<>>, r, <<>>, Len(blocks))
         /\ \A o : Complete(<<>>, r, <<>>, From(s), o, Len(blocks), TRUE)
<1>1. PICK bs \in Seq(Block), h \in Nat : bs = blocks /\ h = Len(bs) /\ h > 0
  BY DEF Inv, TypeInv
<1>2. \A i \in 1..h : bs[i].num = i - 1
  BY <1>1 DEF Inv, ChainLinked
<1>3. 1..Len(<< >>) = {} /\ << >> \in Seq(Block)
  OBVIOUS
<1>4. From(s) \in Int /\ (s = Feed => From(s) < 0)
  <2>1. h \in 1..h
    BY <1>1
  <2> QED
    BY <1>1, <1>2, <2>1 DEF From, Feed, Newest
<1>5. Rising(bs) /\ Under(bs, h)
  BY <1>1, <1>2 DEF Rising, Under
<1>6. Rising(<< >>) /\ Under(<< >>, h) /\ \A as : Before(as, << >>) /\ Before(<< >>, as)
  BY <1>3 DEF Rising, Under, Before
<1>7. Ordered(<< >>, r, << >>, h)
  BY <1>1, <1>5, <1>6 DEF Ordered
<1>8. ASSUME NEW o, From(s) >= 0 PROVE Complete(<< >>, r, << >>, From(s), o, h, TRUE)
  <2>1. r = bs
    BY <1>1, <1>4, <1>8
  <2>2. ASSUME NEW n \in From(s)..(h - 1) PROVE Covered(n, << >>, r, << >>, o)
    <3>1. n + 1 \in 1..h /\ (n + 1) - 1 = n
      BY <1>1, <1>4, <1>8
    <3> QED
      BY <1>1, <1>2, <2>1, <3>1 DEF Covered, Has
  <2>3. ASSUME NEW i \in 1..Len(r), NEW n \in From(s)..r[i].num PROVE n \in From(s)..(h - 1)
    <3>1. r[i].num = i - 1 /\ i \in 1..h
      BY <1>1, <1>2, <2>1
    <3> QED
      BY <1>1, <1>4, <3>1
  <2> QED
    BY <1>3, <2>2, <2>3 DEF Complete
<1>9. ASSUME NEW o, ~(From(s) >= 0) PROVE Complete(<< >>, r, << >>, From(s), o, h, TRUE)
  BY <1>9 DEF Complete
<1> QED
  BY <1>1, <1>3, <1>4, <1>7, <1>8, <1>9, Zenon

-----------------------------------------------------------------------------
LEMMA InitStream == Init => StreamInv
<1> SUFFICES ASSUME Init PROVE StreamInv
  OBVIOUS
<1>1. 1..Len(<< >>) = {} /\ << >> \in Seq(Block)
  OBVIOUS
<1>2. StreamType
  BY <1>1 DEF Init, StreamType, Idle, Channel
<1>3. \A h : Ordered(<< >>, << >>, << >>, h)
  BY <1>1 DEF Ordered, Rising, Before, Under
<1>4. \A s, o : Gapless(<< >>, s, o)
  BY <1>1 DEF Gapless
<1>5. ASSUME NEW c \in Clients PROVE StreamOf(c)
  <2>1. /\ delivered[c] = <<>> /\ replay[c] = <<>> /\ sub[c].queue = <<>>
        /\ ~sub[c].registered /\ cpc[c] = "idle"
    BY Zenon DEF Init, Idle
  <2> QED
    BY <1>3, <1>4, <2>1, Zenon DEF StreamOf
<1> QED
  BY <1>2, <1>5 DEF StreamInv

\* A step of client c alone.
LEMMA StreamOthers ==
  ASSUME StreamInv, NEW c \in Clients, StreamType', StreamOf(c)', blocks' = blocks,
         reverts' = reverts, overflow' = overflow,
         \A d \in Clients \ {c} :
           /\ delivered'[d] = delivered[d] /\ replay'[d] = replay[d] /\ sub'[d] = sub[d]
           /\ start'[d] = start[d] /\ cpc'[d] = cpc[d]
  PROVE  StreamInv'
<1> SUFFICES ASSUME NEW d \in Clients, d # c PROVE StreamOf(d)'
  BY Zenon DEF StreamInv
<1> QED
  BY DEF StreamInv, StreamOf

LEMMA OpenStream ==
  ASSUME StreamInv, NEW c \in Clients, NEW s \in Int, Open(c, s) PROVE StreamInv'
<1>1. /\ delivered' = delivered /\ replay' = replay /\ sub' = sub /\ overflow' = overflow
      /\ blocks' = blocks /\ reverts' = reverts /\ cpc[c] = "idle"
      /\ cpc' = [cpc EXCEPT ![c] = "opened"] /\ start' = [start EXCEPT ![c] = s]
  BY DEF Open
<1>2. StreamType'
  BY <1>1 DEF StreamInv, StreamType
<1>3. /\ cpc'[c] = "opened" /\ start'[c] = s
      /\ \A d \in Clients \ {c} : cpc'[d] = cpc[d] /\ start'[d] = start[d]
  BY <1>1 DEF StreamInv, StreamType
<1>4. 1..Len(<< >>) = {}
  OBVIOUS
<1>5. Gapless(<< >>, s, overflow[c])
  BY <1>4, Zenon DEF Gapless
<1>6. delivered[c] = <<>>
  BY <1>1, Zenon DEF StreamInv, StreamOf
<1>7. StreamOf(c)'
  BY <1>1, <1>3, <1>5, <1>6 DEF StreamInv, StreamOf
<1> QED
  BY <1>1, <1>2, <1>3, <1>7, StreamOthers

LEMMA SubscribeStream == ASSUME Inv, StreamInv, NEW c \in Clients, Subscribe(c) PROVE StreamInv'
<1>1. PICK s \in Int : s = start[c]
  BY DEF StreamInv, StreamType
<1>2. PICK r : r = IF s = Feed THEN <<>> ELSE blocks
  BY Zenon
<1>3. /\ delivered' = delivered /\ overflow' = overflow /\ blocks' = blocks
      /\ reverts' = reverts /\ cpc[c] = "opened" /\ cpc' = [cpc EXCEPT ![c] = "stream"]
      /\ start' = [start EXCEPT ![c] = From(s)] /\ replay' = [replay EXCEPT ![c] = r]
      /\ sub' = [sub EXCEPT ![c] = [sub[c] EXCEPT !.registered = TRUE]]
  BY <1>1, <1>2, Zenon DEF Subscribe, Replayed
<1>4. /\ From(s) \in Int /\ r \in Seq(Block)
      /\ Ordered(<<>>, r, <<>>, Len(blocks))
      /\ Complete(<<>>, r, <<>>, From(s), overflow[c], Len(blocks), TRUE)
  BY <1>1, <1>2, SnapshotStarts
<1>5. PICK ch : ch = [sub[c] EXCEPT !.registered = TRUE]
  BY Zenon
<1>6. ch \in Channel /\ ch.registered /\ ch.queue = <<>>
  <2>1. sub[c] \in Channel /\ sub[c].queue = <<>>
    BY <1>3 DEF StreamInv, StreamType, StreamOf
  <2> QED
    BY <1>5, <2>1, Zenon DEF Channel
<1>7. StreamType'
  BY <1>3, <1>4, <1>5, <1>6 DEF StreamInv, StreamType
<1>8. /\ cpc'[c] = "stream" /\ start'[c] = From(s) /\ replay'[c] = r /\ sub'[c] = ch
      /\ \A d \in Clients \ {c} : /\ cpc'[d] = cpc[d] /\ start'[d] = start[d]
                                  /\ replay'[d] = replay[d] /\ sub'[d] = sub[d]
  BY <1>3, <1>5 DEF StreamInv, StreamType
<1>9. delivered[c] = <<>>
  BY <1>3 DEF StreamInv, StreamOf
<1>10. Gapless(<< >>, From(s), overflow[c])
  <2>1. 1..Len(<< >>) = {}
    OBVIOUS
  <2> QED
    BY <2>1 DEF Gapless
<1>11. StreamOf(c)'
  BY <1>3, <1>4, <1>6, <1>8, <1>9, <1>10, Zenon DEF StreamOf
<1> QED
  BY <1>3, <1>7, <1>8, <1>11, StreamOthers

\* The outcomes of one turn of a loop: the block is skipped, sent, or its Send fails.
LEMMA HandlesCases ==
  ASSUME StreamInv, NEW c \in Clients, NEW b \in Block, Handles(c, b), cpc[c] = "stream"
  PROVE  /\ delivered' \in [Clients -> Seq(Block)]
         /\ cpc' \in [Clients -> {"idle", "opened", "stream", "returned"}]
         /\ \A d \in Clients \ {c} : delivered'[d] = delivered[d] /\ cpc'[d] = cpc[d]
         /\ \/ b.num < start[c] /\ delivered'[c] = delivered[c] /\ cpc'[c] = "stream"
            \/ delivered'[c] = Append(delivered[c], b) /\ cpc'[c] = "stream"
            \/ delivered'[c] = delivered[c] /\ cpc'[c] = "returned"
<1>1. delivered[c] \in Seq(Block) /\ Append(delivered[c], b) \in Seq(Block)
  BY AppendOf DEF StreamInv, StreamType
<1> QED
  BY <1>1, Zenon DEF StreamInv, StreamType, Handles, Sends

LEMMA ReplayStream == ASSUME Inv, StreamInv, NEW c \in Clients, Replay(c) PROVE StreamInv'
<1>1. /\ sub' = sub /\ overflow' = overflow /\ blocks' = blocks /\ start' = start
      /\ reverts' = reverts /\ cpc[c] = "stream"
  BY DEF Replay
<1>2. PICK d \in Seq(Block), r \in Seq(Block), q \in Seq(Block), h \in Nat, s \in Int :
        /\ d = delivered[c] /\ r = replay[c] /\ q = sub[c].queue /\ h = Len(blocks)
        /\ s = start[c]
  BY DEF StreamInv, StreamType, Inv, TypeInv, Channel
<1>3. /\ r # <<>> /\ replay' = [replay EXCEPT ![c] = Tail(r)] /\ Handles(c, Head(r))
  BY <1>2 DEF Replay
<1>4. Tail(r) \in Seq(Block) /\ Head(r) \in Block
  BY <1>3, TailOf
<1>5. StreamType' /\ replay'[c] = Tail(r) /\ \A e \in Clients \ {c} : replay'[e] = replay[e]
  BY <1>1, <1>3, <1>4, HandlesCases, Zenon DEF StreamInv, StreamType
<1>6. ASSUME reverts = 0
      PROVE  /\ Ordered(d, Tail(r), q, h) /\ Ordered(Append(d, Head(r)), Tail(r), q, h)
             /\ Gapless(d, s, overflow[c]) /\ Gapless(Append(d, Head(r)), s, overflow[c])
             /\ Complete(Append(d, Head(r)), Tail(r), q, s, overflow[c], h, sub[c].registered)
             /\ Head(r).num < s =>
                  Complete(d, Tail(r), q, s, overflow[c], h, sub[c].registered)
  <2>1. /\ Ordered(d, r, q, h) /\ Gapless(d, s, overflow[c])
        /\ Complete(d, r, q, s, overflow[c], h, sub[c].registered)
    BY <1>1, <1>2, <1>6 DEF StreamInv, StreamOf
  <2> QED
    BY <1>3, <2>1, ReplayOrdered, ReplayComplete
<1>7. StreamOf(c)'
  <2>1. cpc'[c] \notin {"idle", "opened"}
    BY <1>1, <1>3, <1>4, HandlesCases, Zenon
  <2>2. CASE Head(r).num < s /\ delivered'[c] = d /\ cpc'[c] = "stream"
    BY <1>1, <1>2, <1>5, <1>6, <2>1, <2>2, Zenon DEF StreamOf
  <2>3. CASE delivered'[c] = Append(d, Head(r)) /\ cpc'[c] = "stream"
    BY <1>1, <1>2, <1>5, <1>6, <2>1, <2>3 DEF StreamOf
  <2>4. CASE delivered'[c] = d /\ cpc'[c] = "returned"
    BY <1>1, <1>2, <1>5, <1>6, <2>1, <2>4 DEF StreamOf
  <2> QED
    BY <1>1, <1>2, <1>3, <1>4, <2>2, <2>3, <2>4, HandlesCases, Zenon
<1> QED
  BY <1>1, <1>3, <1>4, <1>5, <1>7, HandlesCases, StreamOthers

LEMMA StreamBlockStream ==
  ASSUME Inv, StreamInv, NEW c \in Clients, StreamBlock(c) PROVE StreamInv'
<1>1. /\ replay' = replay /\ overflow' = overflow /\ blocks' = blocks /\ start' = start
      /\ reverts' = reverts /\ cpc[c] = "stream" /\ replay[c] = <<>>
  BY DEF StreamBlock
<1>2. PICK d \in Seq(Block), q \in Seq(Block), h \in Nat, s \in Int :
        d = delivered[c] /\ q = sub[c].queue /\ h = Len(blocks) /\ s = start[c]
  BY DEF StreamInv, StreamType, Inv, TypeInv, Channel
<1>3. PICK ch : ch = [sub[c] EXCEPT !.queue = Tail(q)]
  BY Zenon
<1>4. q # <<>> /\ sub' = [sub EXCEPT ![c] = ch] /\ Handles(c, Head(q))
  BY <1>2, <1>3 DEF StreamBlock
<1>5. Tail(q) \in Seq(Block) /\ Head(q) \in Block
  BY <1>4, TailOf
<1>6. ch \in Channel /\ ch.queue = Tail(q) /\ ch.registered = sub[c].registered
  <2>1. sub[c] \in Channel
    BY DEF StreamInv, StreamType
  <2> QED
    BY <1>3, <1>5, <2>1, Zenon DEF Channel
<1>7. StreamType' /\ sub'[c] = ch /\ \A e \in Clients \ {c} : sub'[e] = sub[e]
  BY <1>1, <1>4, <1>5, <1>6, HandlesCases, Zenon DEF StreamInv, StreamType
<1>8. ASSUME reverts = 0
      PROVE  /\ Ordered(d, <<>>, Tail(q), h) /\ Ordered(Append(d, Head(q)), <<>>, Tail(q), h)
             /\ Gapless(d, s, overflow[c]) /\ Gapless(Append(d, Head(q)), s, overflow[c])
             /\ Complete(Append(d, Head(q)), <<>>, Tail(q), s, overflow[c], h, ch.registered)
             /\ Head(q).num < s => Complete(d, <<>>, Tail(q), s, overflow[c], h, ch.registered)
  <2>1. /\ Ordered(d, <<>>, q, h) /\ Gapless(d, s, overflow[c])
        /\ Complete(d, <<>>, q, s, overflow[c], h, ch.registered)
    BY <1>1, <1>2, <1>6, <1>8 DEF StreamInv, StreamOf
  <2> QED
    BY <1>4, <2>1, QueueOrdered, QueueComplete, Zenon
<1>9. StreamOf(c)'
  <2>1. cpc'[c] \notin {"idle", "opened"}
    BY <1>1, <1>4, <1>5, HandlesCases, Zenon
  <2>2. CASE Head(q).num < s /\ delivered'[c] = d /\ cpc'[c] = "stream"
    BY <1>1, <1>2, <1>6, <1>7, <1>8, <2>1, <2>2, Zenon DEF StreamOf
  <2>3. CASE delivered'[c] = Append(d, Head(q)) /\ cpc'[c] = "stream"
    BY <1>1, <1>2, <1>6, <1>7, <1>8, <2>1, <2>3 DEF StreamOf
  <2>4. CASE delivered'[c] = d /\ cpc'[c] = "returned"
    BY <1>1, <1>2, <1>6, <1>7, <1>8, <2>1, <2>4, Zenon DEF StreamOf
  <2> QED
    BY <1>1, <1>2, <1>4, <1>5, <2>2, <2>3, <2>4, HandlesCases
<1> QED
  BY <1>1, <1>4, <1>5, <1>7, <1>9, HandlesCases, StreamOthers, Zenon

LEMMA StreamEndsStream ==
  ASSUME StreamInv, NEW c \in Clients, StreamEnds(c) PROVE StreamInv'
<1>1. /\ delivered' = delivered /\ replay' = replay /\ sub' = sub /\ start' = start
      /\ overflow' = overflow /\ blocks' = blocks /\ reverts' = reverts
      /\ cpc' = [cpc EXCEPT ![c] = "returned"]
  BY DEF StreamEnds
<1>2. StreamType' /\ cpc'[c] = "returned" /\ \A d \in Clients \ {c} : cpc'[d] = cpc[d]
  BY <1>1, Zenon DEF StreamInv, StreamType
<1>3. StreamOf(c)'
  BY <1>1, <1>2 DEF StreamInv, StreamOf
<1> QED
  BY <1>1, <1>2, <1>3, StreamOthers

LEMMA CommitStream == ASSUME Inv, StreamInv, Commit PROVE StreamInv'
<1>1. PICK b \in Block, h \in Nat, bs \in Seq(Block) :
        b = cut.block /\ h = Len(bs) /\ bs = blocks /\ b.num = h
  BY DEF Commit, Inv, TypeInv, CutInv
<1>2. /\ delivered' = delivered /\ replay' = replay /\ start' = start /\ cpc' = cpc
      /\ reverts' = reverts
      /\ sub' = [c \in Clients |-> IF sub[c].registered /\ HasRoom(c)
                                   THEN [sub[c] EXCEPT !.queue = Append(sub[c].queue, b)]
                                   ELSE sub[c]]
      /\ overflow' = [c \in Clients |-> IF sub[c].registered /\ ~HasRoom(c)
                                        THEN overflow[c] \cup {h} ELSE overflow[c]]
  BY <1>1 DEF Commit, clientVars
<1>3. Len(blocks') = h + 1
  <2>1. blocks' = Append(bs, b)
    BY <1>1 DEF Commit
  <2> QED
    BY <1>1, <2>1
<1>4. ASSUME NEW c \in Clients
      PROVE  sub'[c] \in Channel /\ overflow'[c] \in SUBSET Nat /\ StreamOf(c)'
  <2>1. PICK d \in Seq(Block), r \in Seq(Block), q \in Seq(Block), s \in Int, o \in SUBSET Nat :
          /\ d = delivered[c] /\ r = replay[c] /\ q = sub[c].queue /\ s = start[c]
          /\ o = overflow[c] /\ sub[c] \in Channel
    BY Zenon DEF StreamInv, StreamType, Channel
  <2>2. ASSUME reverts = 0
        PROVE  /\ Ordered(d, r, q, h) /\ Gapless(d, s, o)
               /\ cpc[c] = "stream" => Complete(d, r, q, s, o, h, sub[c].registered)
    BY <1>1, <2>1, <2>2 DEF StreamInv, StreamOf
  <2>3. CASE sub[c].registered /\ HasRoom(c)
    <3>1. PICK ch : ch = [sub[c] EXCEPT !.queue = Append(q, b)]
      BY Zenon
    <3>2. sub'[c] = ch /\ overflow'[c] = o
      BY <1>2, <2>1, <2>3, <3>1
    <3>3. ch \in Channel /\ ch.queue = Append(q, b) /\ ch.registered = TRUE
      <4>1. Append(q, b) \in Seq(Block)
        BY AppendOf
      <4> QED
        BY <2>1, <2>3, <3>1, <4>1, Zenon DEF Channel
    <3>4. cpc[c] \notin {"idle", "opened"}
      BY <2>3, Zenon DEF StreamInv, StreamOf
    <3>5. ASSUME reverts = 0 PROVE Ordered(d, r, Append(q, b), h + 1)
      BY <1>1, <2>2, <3>5, QueuedOrdered, Zenon
    <3>6. ASSUME reverts = 0, cpc[c] = "stream"
          PROVE  Complete(d, r, Append(q, b), s, o, h + 1, TRUE)
      <4>1. Complete(d, r, q, s, o, h, TRUE)
        <5>1. sub[c].registered = TRUE
          BY <2>1, <2>3 DEF Channel
        <5> QED
          BY <2>2, <3>6, <5>1, Zenon
      <4> QED
        BY <1>1, <4>1, QueuedComplete, Zenon
    <3>7. StreamOf(c)'
      BY <1>2, <1>3, <2>1, <2>2, <3>2, <3>3, <3>4, <3>5, <3>6, Zenon DEF StreamOf
    <3> QED
      BY <2>1, <3>2, <3>3, <3>7
  <2>4. CASE sub[c].registered /\ ~HasRoom(c)
    <3>1. sub'[c] = sub[c] /\ overflow'[c] = o \cup {h}
      BY <1>2, <2>1, <2>4
    <3>2. ASSUME reverts = 0 PROVE Ordered(d, r, q, h + 1) /\ Gapless(d, s, o \cup {h})
      BY <2>2, <3>2, HigherOrdered, Zenon DEF Gapless
    <3>3. sub[c].registered = TRUE
      BY <2>1, <2>4 DEF Channel
    <3>4. ASSUME reverts = 0, cpc[c] = "stream"
          PROVE  Complete(d, r, q, s, o \cup {h}, h + 1, sub[c].registered)
      <4>1. Complete(d, r, q, s, o, h, TRUE)
        BY <2>2, <3>3, <3>4, Zenon
      <4>2. Complete(d, r, q, s, o \cup {h}, h + 1, TRUE)
        BY <4>1, OverflowComplete, Zenon
      <4> QED
        BY <3>3, <4>2, Zenon DEF Complete
    <3>5. cpc[c] \notin {"idle", "opened"}
      BY <2>4 DEF StreamInv, StreamOf
    <3>6. StreamOf(c)'
      BY <1>2, <1>3, <2>1, <3>1, <3>2, <3>4, <3>5, Zenon DEF StreamOf
    <3> QED
      BY <2>1, <3>1, <3>6
  <2>5. CASE ~sub[c].registered
    <3>1. sub'[c] = sub[c] /\ overflow'[c] = o
      BY <1>2, <2>1, <2>5, Zenon
    <3>2. ASSUME reverts = 0 PROVE Ordered(d, r, q, h + 1)
      BY <2>2, <3>2, HigherOrdered, Zenon
    <3>3. ASSUME reverts = 0, cpc[c] = "stream"
          PROVE  Complete(d, r, q, s, o, h + 1, sub[c].registered)
      BY <2>2, <2>5, <3>3, Zenon DEF Complete
    <3>4. StreamOf(c)'
      <4>1. cpc'[c] \in {"idle", "opened"} =>
              /\ delivered'[c] = <<>> /\ replay'[c] = <<>> /\ sub'[c].queue = <<>>
              /\ ~sub'[c].registered
        BY <1>2, <3>1 DEF StreamInv, StreamOf
      <4> QED
        BY <1>2, <1>3, <2>1, <2>2, <3>1, <3>2, <3>3, <4>1, Zenon DEF StreamOf
    <3> QED
      BY <2>1, <3>1, <3>4
  <2> QED
    BY <2>3, <2>4, <2>5
<1>5. StreamType'
  <2>1. sub' = [c \in Clients |-> sub'[c]] /\ overflow' = [c \in Clients |-> overflow'[c]]
    BY <1>2
  <2> QED
    BY <1>2, <1>4, <2>1, Zenon DEF StreamInv, StreamType
<1> QED
  BY <1>4, <1>5 DEF StreamInv

LEMMA CloseStream == ASSUME StreamInv, CloseLedger PROVE StreamInv'
<1>1. /\ delivered' = delivered /\ replay' = replay /\ start' = start /\ cpc' = cpc
      /\ reverts' = reverts /\ blocks' = blocks /\ overflow' = overflow
      /\ sub' = [c \in Clients |->
                   [sub[c] EXCEPT !.closed = sub[c].registered, !.registered = FALSE]]
  BY DEF CloseLedger, clientVars
<1>2. ASSUME NEW c \in Clients
      PROVE  sub'[c] \in Channel /\ sub'[c].queue = sub[c].queue /\ ~sub'[c].registered
  <2>1. sub[c] \in Channel
    BY Zenon DEF StreamInv, StreamType
  <2> QED
    BY <1>1, <2>1 DEF Channel
<1>3. StreamType'
  <2>1. sub' = [c \in Clients |-> sub'[c]]
    BY <1>1
  <2> QED
    BY <1>1, <1>2, <2>1 DEF StreamInv, StreamType
<1>4. ASSUME NEW c \in Clients PROVE StreamOf(c)'
  <2>1. StreamOf(c)
    BY Zenon DEF StreamInv
  <2>2. ASSUME Complete(delivered[c], replay[c], sub[c].queue, start[c], overflow[c],
                        Len(blocks), sub[c].registered)
        PROVE  Complete(delivered[c], replay[c], sub[c].queue, start[c], overflow[c],
                        Len(blocks), sub'[c].registered)
    BY <1>2, <2>2 DEF Complete
  <2> QED
    BY <1>1, <1>2, <2>1, <2>2 DEF StreamOf
<1> QED
  BY <1>3, <1>4 DEF StreamInv

LEMMA RevertStream == ASSUME Inv, StreamInv, NEW num \in Nat, Revert(num) PROVE StreamInv'
<1>1. /\ delivered' = delivered /\ replay' = replay /\ start' = start /\ cpc' = cpc
      /\ sub' = sub /\ overflow' = overflow /\ reverts' # 0
  BY DEF Revert, clientVars, Inv, TypeInv
<1> QED
  BY <1>1 DEF StreamInv, StreamType, StreamOf

LEMMA NextStream == ASSUME Inv, StreamInv, [Next]_vars PROVE StreamInv'
<1>1. ASSUME UNCHANGED <<reverts, blocks, sub, clientVars, overflow>> PROVE StreamInv'
  <2>1. /\ delivered' = delivered /\ replay' = replay /\ start' = start /\ cpc' = cpc
        /\ sub' = sub /\ overflow' = overflow /\ reverts' = reverts /\ blocks' = blocks
    BY <1>1 DEF clientVars
  <2> QED
    BY <2>1 DEF StreamInv, StreamType, StreamOf
<1>2. ASSUME NEW e \in Envs, Broadcast(e) PROVE StreamInv'
  BY <1>1, <1>2, Zenon DEF Broadcast
<1>3. CASE TakeEnvelope \/ TimerFires \/ Flush \/ Store \/ LoopStops \/ CutBlock
  BY <1>1, <1>3, Zenon DEF TakeEnvelope, TimerFires, Flush, Store, LoopStops, CutBlock
<1>4. CASE StopServers \/ StopOrderer
  BY <1>1, <1>4 DEF StopServers, StopOrderer
<1>5. CASE UNCHANGED vars
  BY <1>1, <1>5 DEF vars
<1>6. ASSUME NEW n \in 0..MaxBlocks, Revert(n) PROVE StreamInv'
  <2>1. n \in Nat
    BY TestNetworkAssumption
  <2> QED
    BY <1>6, <2>1, RevertStream
<1>7. ASSUME NEW c \in Clients, NEW s \in {Feed, Newest} \cup (0..MaxStart), Open(c, s)
      PROVE  StreamInv'
  <2>1. s \in Int
    BY TestNetworkAssumption DEF Feed, Newest
  <2> QED
    BY <1>7, <2>1, OpenStream
<1>8. ASSUME NEW c \in Clients, ClientStep(c) PROVE StreamInv'
  BY <1>8, SubscribeStream, ReplayStream, StreamBlockStream, StreamEndsStream DEF ClientStep
<1> QED
  BY <1>2, <1>3, <1>4, <1>5, <1>6, <1>7, <1>8, CommitStream, CloseStream, Zenon
     DEF Next, LoopStep, StopStep

\* Deliver and StreamBlocks.  For any number of clients, capacity of their channels
\* and start block: a stream never repeats a block nor goes back, and from its start
\* block on it leaves out only blocks that commit dropped because the channel was full.
\* The snapshot and the registration are one critical section, so that the snapshot
\* ends where the channel begins.
THEOREM StreamsFollowTheChain == Spec => []StreamFollowsChain
<1>1. StreamInv => StreamFollowsChain
  <2> SUFFICES ASSUME StreamInv, reverts = 0, NEW c \in Clients
               PROVE  /\ \A i, j \in DOMAIN delivered[c] : i < j => Numbers(c)[i] < Numbers(c)[j]
                      /\ start[c] >= 0 =>
                           \A i \in DOMAIN delivered[c] : \A n \in start[c]..Numbers(c)[i] :
                             \/ n \in overflow[c]
                             \/ \E j \in DOMAIN delivered[c] : Numbers(c)[j] = n
    BY DEF StreamFollowsChain
  <2>1. DOMAIN delivered[c] = 1..Len(delivered[c])
    BY DEF StreamInv, StreamType
  <2>2. Rising(delivered[c]) /\ Gapless(delivered[c], start[c], overflow[c])
    BY DEF StreamInv, StreamOf, Ordered
  <2>3. \A i \in DOMAIN delivered[c] : Numbers(c)[i] = delivered[c][i].num
    BY DEF Numbers
  <2>4. ASSUME NEW i \in DOMAIN delivered[c], NEW j \in DOMAIN delivered[c], i < j
        PROVE  Numbers(c)[i] < Numbers(c)[j]
    <3>1. delivered[c][i].num < delivered[c][j].num
      BY <2>1, <2>2, <2>4, Zenon DEF Rising
    <3> QED
      BY <2>3, <3>1, Zenon
  <2>5. ASSUME start[c] >= 0, NEW i \in DOMAIN delivered[c], NEW n \in start[c]..Numbers(c)[i]
        PROVE  n \in overflow[c] \/ \E j \in DOMAIN delivered[c] : Numbers(c)[j] = n
    <3>1. n \in start[c]..delivered[c][i].num
      BY <2>3, <2>5, Zenon
    <3>2. n \in overflow[c] \/ Has(delivered[c], n)
      BY <2>1, <2>2, <2>5, <3>1, Zenon DEF Gapless
    <3> QED
      BY <2>1, <2>3, <3>2, Zenon DEF Has
  <2> QED
    BY <2>4, <2>5, Zenon
<1> QED
  BY <1>1, InitStream, NextStream, Invariant, PTL DEF Spec
=============================================================================
