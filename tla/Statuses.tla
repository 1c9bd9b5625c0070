------------------------------ MODULE Statuses ------------------------------
(***************************************************************************)
(* The protocol-neutral transaction status (blocks.Status) and its maps to *)
(* and from the codes of the two ledgers: peer.TxValidationCode (Fabric)   *)
(* and committerpb.Status (Fabric-X).                                      *)
(***************************************************************************)
EXTENDS Integers

Committed == "COMMITTED"
Unknown == "UNKNOWN"
MVCCConflict == "MVCC_CONFLICT"
InvalidSignature == "INVALID_SIGNATURE"
DuplicateTxID == "DUPLICATE_TX_ID"
Malformed == "MALFORMED"
Unrecognized == "UNRECOGNIZED"
EndorsementPolicyFailure == "ENDORSEMENT_POLICY_FAILURE"

Status == {Committed, Unknown, MVCCConflict, InvalidSignature, DuplicateTxID,
           Malformed, Unrecognized, EndorsementPolicyFailure}

IsFinal(s) == s # Unknown
Valid(s) == s = Committed

\* The codes the two protocols name.
TxValidationCode_name == (0..25) \cup {254, 255}
Status_name == (0..3) \cup (100..115)

StatusFromValidationCode(c) ==
  CASE c = 0 -> Committed
    [] c = 4 -> InvalidSignature
    [] c = 9 -> DuplicateTxID
    [] c \in {11, 12} -> MVCCConflict
    [] c = 10 -> EndorsementPolicyFailure
    [] c = 254 -> Unknown
    [] OTHER -> Malformed

StatusFromCommitterStatus(c) ==
  CASE c = 1 -> Committed
    [] c = 0 -> Unknown
    [] c = 2 -> InvalidSignature
    [] c = 3 -> MVCCConflict
    [] c = 100 -> DuplicateTxID
    [] c > 100 -> Malformed
    [] OTHER -> Unrecognized

\* The smallest code of a status, UncustomizedCode if there is none.
UncustomizedCode == 99
Lowest(codes) == CHOOSE c \in codes : \A d \in codes : c <= d
CodeFor(codes) == IF codes = {} THEN UncustomizedCode ELSE Lowest(codes)

\* CodesByStatus of each protocol.
FabricCodes ==
  [s \in Status |-> CodeFor({c \in TxValidationCode_name : StatusFromValidationCode(c) = s})]
FabricXCodes ==
  [s \in Status |-> CodeFor({c \in Status_name : StatusFromCommitterStatus(c) = s})]
=============================================================================
