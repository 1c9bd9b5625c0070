----------------------------- MODULE EventFilter ----------------------------
(***************************************************************************)
(* Which committed transactions a StreamAllTransactions subscription       *)
(* delivers: the request's statuses are expanded to sidecar codes by the   *)
(* client (network/fabricx), matched by the sidecar (as fabrictest does    *)
(* it), and mapped back to a Status by the client.                         *)
(***************************************************************************)
EXTENDS Statuses, FiniteSets

CONSTANTS
  Namespaces,
  MaxFilter   \* bound: statuses in a filter

\* A request: FilterStatus, FilterNamespaces and IncludeReadWriteSets.  A transaction:
\* its code in the block's txFilter, the namespaces it touches, and whether it is a
\* message.
Requests ==
  [status : {S \in SUBSET Status : Cardinality(S) <= MaxFilter}, ns : SUBSET Namespaces, rws : BOOLEAN]
Txs == [code : Status_name, ns : SUBSET Namespaces, message : BOOLEAN]

-----------------------------------------------------------------------------
\* toProtoFilterStatus, status by status; StatusUnrecognized has no code.
CodesFor_NotFirstMalformed(s) ==
  CASE s = Committed -> {1}
    [] s \in {InvalidSignature, EndorsementPolicyFailure} -> {2}
    [] s = MVCCConflict -> {3}
    [] s = DuplicateTxID -> {100}
    [] s = Malformed -> {c \in Status_name : c > 101}
    [] s = Unknown -> {0}
    [] OTHER -> {}

CodesFor(s) ==
  CASE s = Committed -> {1}
    [] s \in {InvalidSignature, EndorsementPolicyFailure} -> {2}
    [] s = MVCCConflict -> {3}
    [] s = DuplicateTxID -> {100}
    [] s = Malformed -> {c \in Status_name : c >= 101}
    [] s = Unknown -> {0}
    [] OTHER -> {}

toProtoFilterStatus(statuses) == UNION {CodesFor(s) : s \in statuses}

\* An empty filter matches everything.
statusMatches(code, filter) == filter = {} \/ code \in filter
filterNamespaces(all, filter) == IF filter = {} THEN all ELSE all \cap filter
touches(all, filter) == filter = {} \/ all \cap filter # {}

\* buildBlockEvent for one transaction: whether it is sent, and with which of its
\* namespaces.
Sent(req, tx) ==
  /\ tx.message
  /\ statusMatches(tx.code, toProtoFilterStatus(req.status))
  /\ touches(tx.ns, req.ns)

Shown(req, tx) == IF req.rws THEN filterNamespaces(tx.ns, req.ns) ELSE {}
=============================================================================
