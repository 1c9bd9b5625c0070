---------------------------- MODULE Endorsement -----------------------------
(***************************************************************************)
(* How a transaction is endorsed and packaged, in both formats: the client *)
(* builds one proposal, every endorser simulates it on the shared state    *)
(* when its turn comes and signs what its builder encodes, the packager    *)
(* compares the answers, and the parser reads the envelope back.           *)
(* endorsement/{fabric,fabricx}, fabric.EndorsementClient, the TxPackagers *)
(* and BlockParser.ParseTx.                                                *)
(* A transaction id, a proposal hash and the value a transaction writes    *)
(* all follow from the client and the number of its call.                  *)
(***************************************************************************)
EXTENDS WorldState

CONSTANTS
  Clients,
  Peers,       \* the endorsers, by their position in the client's list
  Identities,  \* what an endorser's signer serializes to
  Programs,    \* the keys a transaction may read and those it may write
  MaxCalls     \* bound: transactions in all

ASSUME EndorsementAssumption ==
  /\ IsFiniteSet(Clients) /\ MaxCalls \in Nat
  /\ Keys \subseteq Nat /\ Peers \subseteq Nat /\ Peers # {}
  /\ Programs \subseteq [reads : SUBSET Keys, writes : SUBSET Keys]
  /\ \A x \in Programs : IsFiniteSet(x.reads) /\ IsFiniteSet(x.writes)
  /\ Contents = Clients \X (1..MaxCalls)

VARIABLES
  monotonicVersions,  \* Fabric-X builders, packager and parser, or Fabric's
  identity,           \* the signer of each endorser; two may share one
  rows, last,         \* the VersionedDB
  pc,                 \* each client: "idle", "executing", "endorsed" and Submit's
  count,              \* how many transactions the client has started
  remote,             \* whether the endorsers are behind fabric.EndorsementClient
  program,            \* the transaction of each call
  results             \* each endorser's answer, by position

Nil == <<>>
Waiting == [err |-> FALSE]
Failed == [err |-> TRUE]

\* BlockNumber of the store; last is -1 before the first block.
BlockNumber == IF last = -1 THEN 0 ELSE last

EndorsementInit ==
  /\ monotonicVersions \in BOOLEAN /\ identity \in [Peers -> Identities]
  /\ rows = {} /\ last = -1
  /\ pc = [c \in Clients |-> "idle"] /\ count = [c \in Clients |-> 0]
  /\ remote = [c \in Clients |-> FALSE]
  /\ program = [c \in Clients |-> [reads |-> {}, writes |-> {}]]
  /\ results = [c \in Clients |-> [p \in Peers |-> Waiting]]

-----------------------------------------------------------------------------
\* The proposal.

TxID(c) == <<c, count[c]>>

NewSignedProposal(c) == [txid |-> TxID(c), type |-> "ENDORSER_TRANSACTION"]

\* Fabric's InvocationBuilder makes a whole proposal, Fabric-X's only a header.
FabricInvocation(c) == [txid |-> TxID(c), type |-> "ENDORSER_TRANSACTION"]

FabricXInvocation(c) == [txid |-> TxID(c), type |-> "MESSAGE"]

Proposal(c) ==
  IF remote[c] THEN NewSignedProposal(c)
  ELSE IF monotonicVersions THEN FabricXInvocation(c) ELSE FabricInvocation(c)

Invocation_PerPeer(c, p) ==
  IF remote[c] \/ ~monotonicVersions THEN Proposal(c)
  ELSE [txid |-> <<c, count[c], p>>, type |-> "MESSAGE"]

\* Every endorser gets the one proposal of the call.
Invocation(c, p) == Proposal(c)

\* Whether a remote endorser can take the proposal.  NewSignedProposal fills in the
\* rest of what is checked; a proposal that comes late is one way to fail.
Parse(prop) == prop.type = "ENDORSER_TRANSACTION"

-----------------------------------------------------------------------------
\* The endorsement builders.

VersionOf(rec) ==
  IF rec = NoRecord THEN Nil
  ELSE IF monotonicVersions THEN <<rec.version>> ELSE <<rec.block, rec.tx>>

\* What GetState records on a snapshot at height n.  Writes are puts here: deletes
\* are Execution's subject.
Simulated(c, n) == [k \in program[c].reads |-> VersionOf(GetAt(rows, k, n))]

\* sort.Slice on the keys of s, which are distinct.
ByKey(s) ==
  OrderBy(Elements(s), {p \in Elements(s) \X Elements(s) : p[1].key < p[2].key})

\* The orders in which a Go map may yield the keys of S.
MapOrders(S) == Bijection(1..Cardinality(S), S)

\* The keys of S, in the order of a map that holds them.
Ranged(order, S) ==
  LET at == InOrder({i \in DOMAIN order : order[i] \in S})
  IN [j \in DOMAIN at |-> order[at[j]]]

ReadsIn(order, S, reads) ==
  LET ks == Ranged(order, S) IN [i \in DOMAIN ks |-> [key |-> ks[i], version |-> reads[ks[i]]]]

WritesIn(order, S) ==
  LET ks == Ranged(order, S) IN [i \in DOMAIN ks |-> [key |-> ks[i]]]

buildTx_MapOrder(reads, writes, order) ==
  [readsOnly   |-> ReadsIn(order, DOMAIN reads \ writes, reads),
   readWrites  |-> ReadsIn(order, DOMAIN reads \cap writes, reads),
   blindWrites |-> WritesIn(order, writes \ DOMAIN reads)]

\* The read-write set as the three kinds of Fabric-X access, each sorted.
buildTx(reads, writes, order) ==
  [readsOnly   |-> ByKey(ReadsIn(order, DOMAIN reads \ writes, reads)),
   readWrites  |-> ByKey(ReadsIn(order, DOMAIN reads \cap writes, reads)),
   blindWrites |-> ByKey(WritesIn(order, writes \ DOMAIN reads))]

marshalRWSet(reads, writes, order) ==
  [reads  |-> ByKey(ReadsIn(order, DOMAIN reads, reads)),
   writes |-> ByKey(WritesIn(order, writes))]

\* What an endorser of Fabric-X signs names the transaction, what one of Fabric
\* signs names the proposal in the payload, and the endorser.
Digest(txid, payload, id) ==
  IF monotonicVersions THEN <<txid, payload>> ELSE <<payload, id>>

Payload(inv, reads, writes, order) ==
  IF monotonicVersions THEN buildTx(reads, writes, order)
  ELSE [hash |-> inv.txid, rws |-> marshalRWSet(reads, writes, order)]

\* EndorsementBuilder.Endorse.  The field reads is not part of the response: it
\* keeps what the endorser saw of the state.
Endorse(inv, status, reads, writes, order, id) ==
  LET payload == Payload(inv, reads, writes, order)
  IN [err |-> FALSE, status |-> status, payload |-> payload, endorser |-> id,
      signed |-> Digest(inv.txid, payload, id), reads |-> reads]

-----------------------------------------------------------------------------
\* The client collects the answers.

\* The transaction ids given so far.
TxIDs == {x \in Clients \X (1..MaxCalls) : x[2] <= count[x[1]]}

\* ExecuteTransaction, or a client with endorsers in its own process.
StartCall(c) ==
  /\ pc[c] = "idle" /\ Cardinality(TxIDs) < MaxCalls
  /\ \E r \in BOOLEAN : remote' = [remote EXCEPT ![c] = r]
  /\ \E x \in Programs : program' = [program EXCEPT ![c] = x]
  /\ count' = [count EXCEPT ![c] = @ + 1] /\ pc' = [pc EXCEPT ![c] = "executing"]
  /\ UNCHANGED <<monotonicVersions, identity, rows, last, results>>

Answers(c, p, answer) ==
  /\ pc[c] = "executing" /\ results[c][p] = Waiting
  /\ results' = [results EXCEPT ![c][p] = answer]
  /\ UNCHANGED <<monotonicVersions, identity, rows, last, pc, count, remote, program>>

\* The call fails or is canceled, the proposal is too old for the endorser, the
\* reply has no Response, or the result cannot be endorsed.
PeerFails(c, p) == Answers(c, p, Failed)

Accepts(c, p) == remote[c] => Parse(Invocation(c, p))

\* Success, simulated on the latest height.
PeerEndorses(c, p) ==
  /\ Accepts(c, p)
  /\ \E order \in MapOrders(program[c].reads \cup program[c].writes) :
       Answers(c, p, Endorse(Invocation(c, p), 200, Simulated(c, BlockNumber),
                             program[c].writes, order, identity[p]))

\* BadRequest: signed like any answer, with nothing read or written.
PeerRejects(c, p) ==
  /\ Accepts(c, p)
  /\ Answers(c, p, Endorse(Invocation(c, p), 400, <<>>, {}, <<>>, identity[p]))

Done(c) ==
  /\ pc' = [pc EXCEPT ![c] = "idle"] /\ remote' = [remote EXCEPT ![c] = FALSE]
  /\ program' = [program EXCEPT ![c] = [reads |-> {}, writes |-> {}]]
  /\ results' = [results EXCEPT ![c] = [p \in Peers |-> Waiting]]

\* After wg.Wait: any error fails the call.
Collect(c) ==
  /\ pc[c] = "executing" /\ \A p \in Peers : results[c][p] # Waiting
  /\ IF \E p \in Peers : results[c][p].err THEN Done(c)
     ELSE pc' = [pc EXCEPT ![c] = "endorsed"] /\ UNCHANGED <<remote, program, results>>
  /\ UNCHANGED <<monotonicVersions, identity, rows, last, count>>

EndorsementNext(c) ==
  \/ StartCall(c) \/ Collect(c)
  \/ \E p \in Peers : PeerFails(c, p) \/ PeerEndorses(c, p) \/ PeerRejects(c, p)

-----------------------------------------------------------------------------
\* The packagers and the parsers.

Successful(c) == \A p \in Peers : results[c][p].status \in 200..399

\* CreateTx returns no error.
Packages(c) ==
  Successful(c) /\ \A p, q \in Peers : results[c][p].payload = results[c][q].payload

\* The first answer of each endorser.
Unique(c) ==
  {p \in Peers : \A q \in Peers : results[c][q].endorser = results[c][p].endorser => p <= q}

\* Fabric-X makes a MESSAGE of whatever the proposal was; protoutil.CreateSignedTx
\* keeps the header.
CreateTx(c) ==
  [txid |-> Proposal(c).txid,
   type |-> IF monotonicVersions THEN "MESSAGE" ELSE Proposal(c).type,
   payload |-> results[c][Min(Peers)].payload,
   endorsements |-> {[by |-> results[c][p].endorser, over |-> results[c][p].signed, at |-> p]
                       : p \in Unique(c)}]

Decoded(reads, writes) ==
  [reads |-> [k \in {r.key : r \in reads} |-> (CHOOSE r \in reads : r.key = k).version],
   writes |-> {w.key : w \in writes}]

DecodeNamespaces(ns) ==
  Decoded(Elements(ns.readsOnly) \cup Elements(ns.readWrites),
          Elements(ns.blindWrites) \cup Elements(ns.readWrites))

FabricRWSet(payload) ==
  Decoded(Elements(payload.rws.reads), Elements(payload.rws.writes))

\* nil for an envelope of another type.
ParseTx(env) ==
  IF monotonicVersions
  THEN IF env.type = "MESSAGE" THEN DecodeNamespaces(env.payload) ELSE Nil
  ELSE IF env.type = "ENDORSER_TRANSACTION" THEN FabricRWSet(env.payload) ELSE Nil
=============================================================================
