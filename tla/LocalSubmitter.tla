--------------------------- MODULE LocalSubmitter ---------------------------
(***************************************************************************)
(* local.LocalSubmitter on top of Endorsement: Submit packages what the    *)
(* endorsers signed, parses it again and writes a block of one transaction *)
(* straight to the shared state.VersionedDB the endorsers read.  It reads  *)
(* the height, validates the reads, and stores the block, in three steps   *)
(* that nothing makes atomic.                                              *)
(***************************************************************************)
EXTENDS Endorsement

CONSTANT Serial  \* whether the clients wait for one Submit before the next

ASSUME LocalSubmitterAssumption == Serial \in BOOLEAN

VARIABLES
  tx,        \* the transaction each Submit parsed
  blockNum   \* the height it read

endorsing == <<monotonicVersions, identity, remote, program, results, count>>
vars == <<monotonicVersions, identity, rows, last, pc, count, remote, program, results,
          tx, blockNum>>

Init ==
  /\ EndorsementInit
  /\ tx = [c \in Clients |-> Nil] /\ blockNum = [c \in Clients |-> 0]

\* Submit up to the call of BlockNumber.  The rest of pc: "numbered", "checked".
SubmitNumber(c) ==
  /\ pc[c] = "endorsed" /\ Packages(c)
  /\ Serial => \A d \in Clients : pc[d] \notin {"numbered", "checked"}
  /\ tx' = [tx EXCEPT ![c] = ParseTx(CreateTx(c))]
  /\ blockNum' = [blockNum EXCEPT ![c] = BlockNumber]
  /\ pc' = [pc EXCEPT ![c] = "numbered"]
  /\ UNCHANGED <<endorsing, rows, last>>

Returns(c) ==
  /\ Done(c) /\ tx' = [tx EXCEPT ![c] = Nil] /\ blockNum' = [blockNum EXCEPT ![c] = 0]
  /\ UNCHANGED <<monotonicVersions, identity, count>>

\* The packager refuses the answers.
PackageTxFails(c) == pc[c] = "endorsed" /\ ~Packages(c) /\ Returns(c) /\ UNCHANGED <<rows, last>>

\* Signing the envelope or a read of the database fails; what a failure of Handle
\* leaves behind is Rollback of VersionedDB.
SubmitFails(c) ==
  pc[c] \in {"endorsed", "numbered"} /\ Returns(c) /\ UNCHANGED <<rows, last>>

\* The versions read are those of the latest records.
Current(reads) == \A k \in DOMAIN reads : VersionOf(Get(rows, k)) = reads[k]

checkMVCC_Skipped(c) ==
  /\ pc[c] = "numbered" /\ UNCHANGED <<rows, last>>
  /\ pc' = [pc EXCEPT ![c] = "checked"] /\ UNCHANGED <<endorsing, tx, blockNum>>

checkMVCC(c) ==
  /\ pc[c] = "numbered" /\ UNCHANGED <<rows, last>>
  /\ IF Current(tx[c].reads)
     THEN pc' = [pc EXCEPT ![c] = "checked"] /\ UNCHANGED <<endorsing, tx, blockNum>>
     ELSE Returns(c)

\* The writes of the one transaction of the block: number 0, always valid.
BlockOf(c) ==
  {[tx |-> 0, key |-> k, valid |-> TRUE, content |-> TxID(c)] : k \in tx[c].writes}

NewBlock_SameNumber(c) == blockNum[c]

NewBlock(c) == blockNum[c] + 1

\* VersionedDB.Handle, in one SQL transaction: an error if a row is there with
\* other content.
Handle(c) ==
  /\ pc[c] = "checked" /\ Returns(c)
  /\ IF \A w \in BlockOf(c) : Agrees(rows, NewBlock(c), w)
     THEN /\ rows' = WithTx(rows, NewBlock(c), BlockOf(c))
          /\ last' = IF NewBlock(c) > last THEN NewBlock(c) ELSE last
     ELSE UNCHANGED <<rows, last>>

Next ==
  \E c \in Clients :
    \/ EndorsementNext(c) /\ UNCHANGED <<tx, blockNum>>
    \/ SubmitNumber(c) \/ PackageTxFails(c) \/ SubmitFails(c) \/ checkMVCC(c) \/ Handle(c)

Spec == Init /\ [][Next]_vars

-----------------------------------------------------------------------------
\* Properties.

\* Submits that do not overlap are serializable: what the endorsers read of the
\* state is still current when the block is stored, through encoding, packaging,
\* decoding and validation.
StoredReadsAreCurrent ==
  [][\A c \in Clients : (pc[c] = "checked" /\ rows' # rows /\ pc'[c] = "idle")
       => \A p \in Peers : Current(results[c][p].reads)]_vars

\* No submission that passes validation is refused or lost when nothing overlaps:
\* after Handle every key the transaction writes shows it.
StoredIsVisible ==
  [][\A c \in Clients : (pc[c] = "checked" /\ pc'[c] = "idle")
       => \A k \in program[c].writes : Get(rows', k).content = TxID(c)]_vars

\* What is packaged can be verified: each signature in the envelope covers the
\* envelope's own transaction id and payload, no endorser is counted twice and
\* none is missing, and the parser reads the envelope as a transaction.
SignaturesVerify ==
  \A c \in Clients : (pc[c] = "endorsed" /\ Packages(c)) =>
    LET env == CreateTx(c)
    IN /\ \A e \in env.endorsements : e.over = Digest(env.txid, env.payload, e.by)
       /\ \A e, f \in env.endorsements : e.by = f.by => e = f
       /\ {e.by : e \in env.endorsements} = {identity[p] : p \in Peers}
       /\ ParseTx(env) # Nil

\* The bytes an endorser produces depend only on the state it read: the packager
\* refuses successful answers only if endorsers read different versions.
RefusalMeansDivergence ==
  \A c \in Clients : (pc[c] = "endorsed" /\ Successful(c) /\ ~Packages(c)) =>
    \E p, q \in Peers : results[c][p].reads # results[c][q].reads
=============================================================================
