---------------------------- MODULE AtomicStore -----------------------------
(***************************************************************************)
(* What a state.KVS promises, with no tables, versions or SQL: the writes  *)
(* of the chain's blocks are taken in block after block, each block as a   *)
(* whole and once, and a view shows the last write, in ledger order, of    *)
(* every key up to a height the store has.                                 *)
(***************************************************************************)
EXTENDS Integers, Sequences

CONSTANTS Keys, NoRecord

VARIABLES
  writes,  \* the writes taken in: key, block, transaction, content
  height,  \* the last block taken in, -1 before the first
  chain,   \* the channel's blocks
  snap     \* the height and the records of a view

Init ==
  /\ writes = {} /\ height = -1
  /\ chain = << <<>> >>
  /\ snap.block = -1

OrderBlock ==
  /\ Len(chain') = Len(chain) + 1 /\ chain' = Append(chain, chain'[Len(chain')])
  /\ UNCHANGED <<writes, height, snap>>

\* The writes of the valid transactions in ws, as block b.
WritesOf(b, ws) ==
  {[key |-> ws[i].key, block |-> b, tx |-> ws[i].tx, content |-> ws[i].content] :
     i \in {j \in DOMAIN ws : ws[j].valid}}

Handle ==
  /\ height + 1 < Len(chain)
  /\ writes' = writes \cup WritesOf(height + 1, chain[height + 2])
  /\ height' = height + 1
  /\ UNCHANGED <<chain, snap>>

Before(w, v) == w.block < v.block \/ (w.block = v.block /\ w.tx < v.tx)

\* rec is what a view of height n shows of key k.
Shows(rec, k, n) ==
  LET upTo == {w \in writes : w.key = k /\ w.block <= n}
  IN \/ upTo = {} /\ rec = NoRecord
     \/ rec \in upTo /\ \A w \in upTo : w = rec \/ Before(w, rec)

Snapshot ==
  /\ snap'.block \in 0..height \cup {0}
  /\ \A k \in Keys : Shows(snap'.view[k], k, snap'.block)
  /\ UNCHANGED <<writes, height, chain>>

Next == OrderBlock \/ Handle \/ Snapshot

Spec == Init /\ [][Next]_<<writes, height, chain, snap>>
=============================================================================
