---------------------------- MODULE TestNetwork -----------------------------
(***************************************************************************)
(* The in-memory network of package fabrictest: Broadcast feeds envelopes  *)
(* to the orderer's batching loop, which cuts blocks, stores them and      *)
(* pushes them to the channels of the Deliver and StreamBlocks handlers;   *)
(* Revert truncates the chain and Stop tears everything down.  What a      *)
(* block does to the world state is module Execution's subject.            *)
(***************************************************************************)
EXTENDS Integers, Sequences, FiniteSets

CONSTANTS
  Envs,           \* envelopes, each broadcast at most once
  Clients,        \* streams of blocks: Deliver or StreamBlocks calls
  MaxTxPerBlock,  \* of the Config; 0: no limit
  HasTimer,       \* whether the Config has a BlockCutTime
  InCap, SubCap,  \* capacities of inCh (64) and of a subscriber's channel (10)
  MaxBlocks,      \* bound: blocks ever cut, reverted ones included
  MaxStart,       \* bound: the highest start block a client asks for
  MaxReverts,     \* bound: calls of Revert
  CanStop         \* bound: whether Stop is called

ASSUME TestNetworkAssumption ==
  /\ MaxTxPerBlock \in Nat /\ InCap \in Nat \ {0} /\ SubCap \in Nat \ {0}
  /\ {HasTimer, CanStop} \subseteq BOOLEAN /\ {MaxBlocks, MaxStart, MaxReverts} \subseteq Nat

VARIABLES
  accepted,             \* the envelopes Broadcast acknowledged
  inCh, batch, timer,   \* the orderer: its input, the batch and whether the timer runs
  lpc,                  \* batchingLoop: "select", "next", "store", "notify", "exit", "panic"
  cut,                  \* the block in hand; cut.forced: by cutBlock, not by flush
  cuts, reverts,        \* counts of blocks cut and of reverts
  blocks,               \* the ledger
  ownDB, dbClosed,      \* its world state: its own, or db1 given to Start
  sub,                  \* sub[c]: the channel of c, registered and closed or not
  cpc, start, replay,   \* the handler of each client, and the snapshot it replays
  delivered,            \* the blocks sent to the client
  overflow,             \* the numbers of blocks its channel had no room for
  spc                   \* Stop: "idle", "servers", "orderer", "done"

ordererVars == <<inCh, batch, timer, lpc, cut, cuts>>
dbVars == <<ownDB, dbClosed>>
clientVars == <<cpc, start, replay, delivered>>
vars == <<accepted, ordererVars, reverts, blocks, dbVars, sub, clientVars, overflow, spc>>

\* A block: its header (number, hash, PreviousHash) and its envelopes.  Headers of
\* different blocks have different hashes.
Genesis == [num |-> 0, hash |-> 0, prev |-> -1, txs |-> <<>>]
NoCut == [block |-> Genesis, forced |-> FALSE]
Idle == [queue |-> <<>>, registered |-> FALSE, closed |-> FALSE]

Init ==
  /\ accepted = {} /\ inCh = <<>> /\ batch = <<>> /\ timer = FALSE
  /\ lpc = "select" /\ cut = NoCut /\ cuts = 0 /\ reverts = 0
  /\ blocks = <<Genesis>> /\ ownDB \in BOOLEAN /\ dbClosed = FALSE
  /\ sub = [c \in Clients |-> Idle]
  /\ cpc = [c \in Clients |-> "idle"] /\ start = [c \in Clients |-> 0]
  /\ replay = [c \in Clients |-> <<>>] /\ delivered = [c \in Clients |-> <<>>]
  /\ overflow = [c \in Clients |-> {}] /\ spc = "idle"

-----------------------------------------------------------------------------
\* The orderer.

Broadcast(e) ==
  /\ spc = "idle" /\ e \notin accepted /\ Len(inCh) < InCap
  /\ inCh' = Append(inCh, e) /\ accepted' = accepted \cup {e}
  /\ UNCHANGED <<batch, timer, lpc, cut, cuts, reverts, blocks, dbVars, sub, clientVars,
                 overflow, spc>>

\* batchingLoop takes an envelope: the first of a batch starts the timer; without
\* a timer, or at the maximum, the batch is flushed.
CutsAt(n) == ~HasTimer \/ (MaxTxPerBlock > 0 /\ n >= MaxTxPerBlock)

StartsTimer_Never(n) == FALSE
StartsTimer(n) == n = 1 /\ HasTimer

TakeEnvelope ==
  /\ lpc = "select" /\ inCh # <<>> /\ cuts < MaxBlocks
  /\ inCh' = Tail(inCh) /\ batch' = Append(batch, Head(inCh))
  /\ timer' = (timer \/ StartsTimer(Len(batch) + 1))
  /\ lpc' = IF CutsAt(Len(batch) + 1) THEN "next" ELSE "select"
  /\ UNCHANGED <<accepted, cut, cuts, reverts, blocks, dbVars, sub, clientVars, overflow, spc>>

TimerFires ==
  /\ lpc = "select" /\ timer
  /\ lpc' = "next"
  /\ UNCHANGED <<accepted, inCh, batch, timer, cut, cuts, reverts, blocks, dbVars, sub,
                 clientVars, overflow, spc>>

\* process: the number and the hash to chain onto are read under the lock, the
\* block is stored in the world state, and appended under the lock.
NextBlock(txs) ==
  LET tip == blocks[Len(blocks)]
  IN [num |-> Len(blocks), hash |-> cuts + 1, prev |-> tip.hash, txs |-> txs]

Flush ==
  /\ lpc = "next"
  /\ cut' = [block |-> NextBlock(batch), forced |-> FALSE] /\ cuts' = cuts + 1 /\ lpc' = "store"
  /\ UNCHANGED <<accepted, inCh, batch, timer, reverts, blocks, dbVars, sub, clientVars,
                 overflow, spc>>

\* cutBlock: an empty block, whatever waits in the batch.
CutBlock ==
  /\ lpc = "select" /\ cuts < MaxBlocks - 1
  /\ cut' = [block |-> NextBlock(<<>>), forced |-> TRUE] /\ cuts' = cuts + 1 /\ lpc' = "store"
  /\ UNCHANGED <<accepted, inCh, batch, timer, reverts, blocks, dbVars, sub, clientVars,
                 overflow, spc>>

\* Parse, Validate and UpdateWorldState.  With the database closed they fail:
\* flush panics, cutBlock gets the error.
Store ==
  /\ lpc = "store"
  /\ IF ownDB /\ dbClosed
     THEN /\ lpc' = IF cut.forced THEN "select" ELSE "panic"
          /\ cut' = NoCut
     ELSE lpc' = "notify" /\ cut' = cut
  /\ UNCHANGED <<accepted, inCh, batch, timer, cuts, reverts, blocks, dbVars, sub, clientVars,
                 overflow, spc>>

\* The critical section of commit: append, and send to every subscriber with room.
\* Back in flush, the batch and the timer are reset.
HasRoom(c) == Len(sub[c].queue) < SubCap

Commit_KeepsBatch ==
  /\ lpc = "notify"
  /\ blocks' = Append(blocks, cut.block)
  /\ sub' = [c \in Clients |-> IF sub[c].registered /\ HasRoom(c)
                               THEN [sub[c] EXCEPT !.queue = Append(@, cut.block)]
                               ELSE sub[c]]
  /\ overflow' = [c \in Clients |-> IF sub[c].registered /\ ~HasRoom(c)
                                    THEN overflow[c] \cup {cut.block.num} ELSE overflow[c]]
  /\ lpc' = "select" /\ cut' = NoCut
  /\ timer' = (cut.forced /\ timer) /\ UNCHANGED batch
  /\ UNCHANGED <<accepted, inCh, cuts, reverts, dbVars, clientVars, spc>>

Commit ==
  /\ lpc = "notify"
  /\ blocks' = Append(blocks, cut.block)
  /\ sub' = [c \in Clients |-> IF sub[c].registered /\ HasRoom(c)
                               THEN [sub[c] EXCEPT !.queue = Append(@, cut.block)]
                               ELSE sub[c]]
  /\ overflow' = [c \in Clients |-> IF sub[c].registered /\ ~HasRoom(c)
                                    THEN overflow[c] \cup {cut.block.num} ELSE overflow[c]]
  /\ lpc' = "select" /\ cut' = NoCut
  /\ batch' = IF cut.forced THEN batch ELSE <<>>
  /\ timer' = (cut.forced /\ timer)
  /\ UNCHANGED <<accepted, inCh, cuts, reverts, dbVars, clientVars, spc>>

\* Revert to block num: the loop drops the batch and truncates the chain, unless
\* the world state is its own or there is no such block.
Revert_Unserialized(num) ==
  /\ lpc # "exit" /\ reverts < MaxReverts
  /\ batch' = <<>> /\ timer' = FALSE /\ reverts' = reverts + 1
  /\ blocks' = IF ~ownDB /\ num < Len(blocks) THEN SubSeq(blocks, 1, num + 1) ELSE blocks
  /\ UNCHANGED <<accepted, inCh, lpc, cut, cuts, dbVars, sub, clientVars, overflow, spc>>

Revert(num) ==
  /\ lpc = "select" /\ reverts < MaxReverts
  /\ batch' = <<>> /\ timer' = FALSE /\ reverts' = reverts + 1
  /\ blocks' = IF ~ownDB /\ num < Len(blocks) THEN SubSeq(blocks, 1, num + 1) ELSE blocks
  /\ UNCHANGED <<accepted, inCh, lpc, cut, cuts, dbVars, sub, clientVars, overflow, spc>>

LoopStops ==
  /\ lpc = "select" /\ spc \in {"orderer", "done"} /\ lpc' = "exit"
  /\ UNCHANGED <<accepted, inCh, batch, timer, cut, cuts, reverts, blocks, dbVars, sub,
                 clientVars, overflow, spc>>

-----------------------------------------------------------------------------
\* The handlers of Deliver and StreamBlocks.

Newest == -1
Feed == -2   \* StreamBlocks: no start block and no replay

\* The seek envelope has arrived.
Open(c, s) ==
  /\ spc = "idle" /\ cpc[c] = "idle"
  /\ cpc' = [cpc EXCEPT ![c] = "opened"] /\ start' = [start EXCEPT ![c] = s]
  /\ UNCHANGED <<accepted, ordererVars, reverts, blocks, dbVars, sub, replay, delivered,
                 overflow, spc>>

\* subscribe: the snapshot and the registration, in one critical section.
From(s) == IF s = Newest THEN blocks[Len(blocks)].num ELSE s
Replayed(s) == IF s = Feed THEN <<>> ELSE blocks

Subscribe_Late(c) ==
  /\ cpc[c] = "opened" /\ cpc' = [cpc EXCEPT ![c] = "stream"]
  /\ start' = [start EXCEPT ![c] = From(@)]
  /\ replay' = [replay EXCEPT ![c] = SubSeq(Replayed(start[c]), 1, Len(Replayed(start[c])) - 1)]
  /\ sub' = [sub EXCEPT ![c].registered = TRUE]
  /\ UNCHANGED <<accepted, ordererVars, reverts, blocks, dbVars, delivered, overflow, spc>>
Subscribe(c) ==
  /\ cpc[c] = "opened" /\ cpc' = [cpc EXCEPT ![c] = "stream"]
  /\ start' = [start EXCEPT ![c] = From(@)]
  /\ replay' = [replay EXCEPT ![c] = Replayed(start[c])]
  /\ sub' = [sub EXCEPT ![c].registered = TRUE]
  /\ UNCHANGED <<accepted, ordererVars, reverts, blocks, dbVars, delivered, overflow, spc>>

\* Send to the client: with the server stopped, or the client gone, it fails and
\* the handler returns.  The channel stays registered.
Sends(c, b) ==
  \/ /\ spc = "idle" /\ delivered' = [delivered EXCEPT ![c] = Append(@, b)] /\ UNCHANGED cpc
  \/ cpc' = [cpc EXCEPT ![c] = "returned"] /\ UNCHANGED delivered

\* Both loops skip the blocks before the start block.
Handles(c, b) == IF b.num < start[c] THEN UNCHANGED <<cpc, delivered>> ELSE Sends(c, b)

Replay(c) ==
  /\ cpc[c] = "stream" /\ replay[c] # <<>>
  /\ replay' = [replay EXCEPT ![c] = Tail(@)]
  /\ Handles(c, Head(replay[c]))
  /\ UNCHANGED <<accepted, ordererVars, reverts, blocks, dbVars, sub, start, overflow, spc>>

StreamBlock(c) ==
  /\ cpc[c] = "stream" /\ replay[c] = <<>> /\ sub[c].queue # <<>>
  /\ sub' = [sub EXCEPT ![c].queue = Tail(@)]
  /\ Handles(c, Head(sub[c].queue))
  /\ UNCHANGED <<accepted, ordererVars, reverts, blocks, dbVars, start, replay, overflow, spc>>

StreamEnds_NoOkCheck(c) ==
  /\ cpc[c] = "stream" /\ replay[c] = <<>> /\ sub[c].queue = <<>> /\ sub[c].closed
  /\ UNCHANGED vars

\* The channel is closed and drained.
StreamEnds(c) ==
  /\ cpc[c] = "stream" /\ replay[c] = <<>> /\ sub[c].queue = <<>> /\ sub[c].closed
  /\ cpc' = [cpc EXCEPT ![c] = "returned"]
  /\ UNCHANGED <<accepted, ordererVars, reverts, blocks, dbVars, sub, start, replay, delivered,
                 overflow, spc>>

-----------------------------------------------------------------------------
\* Network.Stop.

StopServers ==
  /\ CanStop /\ spc = "idle" /\ spc' = "servers"
  /\ UNCHANGED <<accepted, ordererVars, reverts, blocks, dbVars, sub, clientVars, overflow>>

StopOrderer ==
  /\ spc = "servers" /\ spc' = "orderer"
  /\ UNCHANGED <<accepted, ordererVars, reverts, blocks, dbVars, sub, clientVars, overflow>>

\* ledger.close, under the lock.
CloseLedger ==
  /\ spc = "orderer" /\ spc' = "done" /\ dbClosed' = ownDB /\ UNCHANGED ownDB
  /\ sub' = [c \in Clients |-> [sub[c] EXCEPT !.closed = sub[c].registered, !.registered = FALSE]]
  /\ UNCHANGED <<accepted, ordererVars, reverts, blocks, clientVars, overflow>>

LoopStep == TakeEnvelope \/ TimerFires \/ Flush \/ Store \/ Commit \/ LoopStops
ClientStep(c) == Subscribe(c) \/ Replay(c) \/ StreamBlock(c) \/ StreamEnds(c)
StopStep == StopOrderer \/ CloseLedger

Next ==
  \/ \E e \in Envs : Broadcast(e)
  \/ LoopStep \/ CutBlock \/ \E n \in 0..MaxBlocks : Revert(n)
  \/ \E c \in Clients : ClientStep(c) \/ \E s \in {Feed, Newest} \cup (0..MaxStart) : Open(c, s)
  \/ StopServers \/ StopStep

Spec == Init /\ [][Next]_vars

\* The goroutines run and the timer expires.
FairSpec ==
  /\ Spec /\ WF_vars(Flush \/ Store \/ Commit \/ LoopStops) /\ SF_vars(TakeEnvelope)
  /\ SF_vars(TimerFires) /\ WF_vars(StopStep) /\ \A c \in Clients : WF_vars(ClientStep(c))

-----------------------------------------------------------------------------
\* Properties.

\* next(): "a block can never be numbered off one tip and chained onto another".
\* Whatever is cut and reverted while a block is under way, the chain is numbered
\* without gaps and every header holds the hash of the one before it.
ChainLinked ==
  \A i \in DOMAIN blocks :
    /\ blocks[i].num = i - 1
    /\ i > 1 => blocks[i].prev = blocks[i - 1].hash

\* Where an accepted envelope is: in the channel, in the batch or in the chain.
Holders(e) ==
  {<<0, i>> : i \in {j \in DOMAIN inCh : inCh[j] = e}}
    \cup {<<-1, i>> : i \in {j \in DOMAIN batch : batch[j] = e}}
    \cup UNION {{<<n, i>> : i \in {j \in DOMAIN blocks[n].txs : blocks[n].txs[j] = e}} :
                  n \in DOMAIN blocks}

\* An envelope that Broadcast acknowledged is never duplicated, and without a Revert
\* never lost: not by a timer that fires as the batch fills, nor by a forced cut.
EnvelopeIsKept ==
  \A e \in accepted : /\ Cardinality(Holders(e)) <= 1
                      /\ reverts = 0 => Holders(e) # {}

\* Numbers of the blocks sent to c, in order.
Numbers(c) == [i \in DOMAIN delivered[c] |-> delivered[c][i].num]

\* Deliver: where the replayed snapshot meets the channel no block comes twice or out
\* of order, and none is missing: from its start block on, a stream skips only blocks
\* that its full channel had no room for (chain not reverted).
StreamFollowsChain ==
  reverts = 0 =>
    \A c \in Clients :
      /\ \A i, j \in DOMAIN delivered[c] : i < j => Numbers(c)[i] < Numbers(c)[j]
      /\ start[c] >= 0 =>
           \A i \in DOMAIN delivered[c] : \A n \in start[c]..Numbers(c)[i] :
             n \in overflow[c] \/ \E j \in DOMAIN delivered[c] : Numbers(c)[j] = n

\* An acknowledged envelope is cut into a block, by the timer if by nothing else,
\* unless the network is stopped or reverted (or the bound on blocks is reached).
EnvelopeIsCut ==
  \A e \in Envs :
    e \in accepted ~> \/ \E i \in DOMAIN blocks : \E j \in DOMAIN blocks[i].txs : blocks[i].txs[j] = e
                      \/ reverts > 0 \/ spc # "idle" \/ cuts = MaxBlocks

\* ledger.close "causes goroutines blocked in Deliver to exit": every handler that
\* had subscribed by then returns, whatever is left in its channel.
HandlersExit == \A c \in Clients : sub[c].closed ~> cpc[c] = "returned"
=============================================================================
