---------------------------- MODULE Synchronizer ----------------------------
(***************************************************************************)
(* network.Synchronizer: the loop that keeps a local store in step with a  *)
(* committing peer, its readiness monitors, the deliver stream it reads    *)
(* (network.Peer.SubscribeBlocks) and the handler chain of                 *)
(* blocks.Processor that every block runs through.                         *)
(*                                                                         *)
(* The store whose BlockNumber is the resume point is handler DbPos of the *)
(* chain.  The process may crash at any step and start a new Synchronizer; *)
(* the store and what the handlers have seen survive, the rest does not.   *)
(***************************************************************************)
EXTENDS Integers, FiniteSets

CONSTANTS Monitors,    \* identities of monitor goroutines; reused once they exit
          NoMonitor,   \* monitorCancel = nil
          NHandlers,   \* length of the handler chain
          DbPos,       \* position of the store in the chain
          MaxHeight    \* bound: the peer's chain stops growing here

ASSUME ConstantsAssumption ==
  /\ NoMonitor \notin Monitors
  /\ NHandlers \in Nat
  /\ DbPos \in 1..NHandlers
  /\ MaxHeight \in Nat \ {0}

Handlers == 1..NHandlers

VARIABLES
  state,          \* s.state
  lastSyncErr,    \* TRUE iff s.lastSyncErr # nil
  monitorCancel,  \* the monitor s.monitorCancel cancels, or NoMonitor
  runCanceled,    \* s.runCtx.Err() # nil
  pc,             \* where Start's goroutine is
  backoff,        \* currentBackoff, in seconds
  nextBlock,      \* the next block the deliver stream sends
  hpos,           \* the handler that has the current block
  monPc,          \* where each monitor goroutine is
  monPeer,        \* the peer height it read
  monCanceled,    \* the monitors whose context was canceled by monitorCancel
  peerHeight,     \* the number of blocks in the peer's chain
  peerClosed,     \* peer.Close was called
  progress,       \* channel_progress.last_block; -1 while there is no row
  seen,           \* the blocks each handler has handled without an error
  readyAt         \* history: the peer height behind the last step to "ready"

syncVars == <<state, lastSyncErr, monitorCancel>>
loopVars == <<pc, backoff, nextBlock, hpos>>
monVars  == <<monPc, monPeer, monCanceled>>
envVars  == <<runCanceled, peerHeight, peerClosed>>
dataVars == <<progress, seen>>
vars == <<syncVars, loopVars, monVars, envVars, dataVars, readyAt>>

States == {"notstarted", "starting", "syncing", "ready", "retrying", "stopped"}
LoopPcs == {"idle", "top", "dberr", "enter", "stream", "handle", "subok",
            "suberr", "sleep", "exit", "join", "returned"}
MonPcs == {"none", "wait", "peer", "caughtup"}

MaxBackoff == 30

MinOf(a, b) == IF a <= b THEN a ELSE b
MaxOf(a, b) == IF a >= b THEN a ELSE b

Running == {m \in Monitors : monPc[m] # "none"}
MonDone(m) == m \in monCanceled \/ runCanceled

NewSynchronizer ==
  /\ state = "notstarted"
  /\ lastSyncErr = FALSE
  /\ monitorCancel = NoMonitor
  /\ runCanceled = FALSE
  /\ pc = "idle" /\ backoff = 1 /\ nextBlock = 0 /\ hpos = 1
  /\ monPc = [m \in Monitors |-> "none"]
  /\ monPeer = [m \in Monitors |-> 0]
  /\ monCanceled = {}
  /\ peerClosed = FALSE
  /\ readyAt = 0

Init ==
  /\ NewSynchronizer
  /\ peerHeight = 1
  /\ progress = -1
  /\ seen = [h \in Handlers |-> {}]

-----------------------------------------------------------------------------
\* What the store and the probes report.

\* VersionedDB.BlockNumber: 0 for a fresh store and after block 0 alike.
BlockNumber == MaxOf(progress, 0)

\* Synchronizer.BlockHeight.
BlockHeight == BlockNumber + 1

StartBlock_SkipsGenesis == BlockNumber + 1
StartBlock_LastAgain == BlockNumber

\* The block Start subscribes from.
StartBlock == IF BlockNumber > 0 THEN BlockNumber + 1 ELSE 0

\* Live() = nil and Ready() = nil.
Live  == state \in {"starting", "syncing", "ready"}
Ready == state = "ready"

-----------------------------------------------------------------------------
\* transition(to, err), under s.mu.  pcs is monPc after the caller's own step.

CancelsMonitor_OnStopOnly(to) == monitorCancel # NoMonitor /\ to = "stopped"

CancelsMonitor(to) ==
  monitorCancel # NoMonitor /\ (state = "syncing" \/ to = "stopped")

StartMonitor(pcs, canceled) ==
  \E m \in Monitors :
    /\ pcs[m] = "none"
    /\ monitorCancel' = m
    /\ monPc' = [pcs EXCEPT ![m] = "wait"]
    /\ monCanceled' = canceled \ {m}

Effects(to, err, pcs) ==
  LET canceled == IF CancelsMonitor(to)
                  THEN monCanceled \cup {monitorCancel} ELSE monCanceled
  IN /\ state' = to
     /\ lastSyncErr' = CASE to = "syncing"  -> FALSE
                         [] to = "retrying" -> err
                         [] OTHER           -> lastSyncErr
     /\ IF to = "syncing" /\ ~runCanceled
        THEN StartMonitor(pcs, canceled)
        ELSE /\ monitorCancel' = IF CancelsMonitor(to) THEN NoMonitor
                                                       ELSE monitorCancel
             /\ monPc' = pcs
             /\ monCanceled' = canceled

transition_FromStopped(to, err, pcs) == Effects(to, err, pcs)

transition(to, err, pcs) ==
  IF state = "stopped"
  THEN monPc' = pcs /\ UNCHANGED <<syncVars, monCanceled>>
  ELSE Effects(to, err, pcs)

-----------------------------------------------------------------------------
\* Start.

Start ==
  /\ pc = "idle" /\ state = "notstarted"
  /\ state' = "starting"
  /\ pc' = "top"
  /\ UNCHANGED <<lastSyncErr, monitorCancel, backoff, nextBlock, hpos, monVars,
                 envVars, dataVars, readyAt>>

ReadHeight_NoCtxCheck ==
  /\ pc = "top"
  /\ pc' = "enter" /\ nextBlock' = StartBlock
  /\ UNCHANGED <<syncVars, backoff, hpos, monVars, envVars, dataVars, readyAt>>

\* The top of the loop: return if canceled, else read the resume point.
ReadHeight ==
  /\ pc = "top"
  /\ IF runCanceled
     THEN pc' = "exit" /\ UNCHANGED nextBlock
     ELSE pc' = "enter" /\ nextBlock' = StartBlock
  /\ UNCHANGED <<syncVars, backoff, hpos, monVars, envVars, dataVars, readyAt>>

ReadHeightFails ==
  /\ pc = "top" /\ ~runCanceled
  /\ pc' = "dberr"
  /\ UNCHANGED <<syncVars, backoff, nextBlock, hpos, monVars, envVars, dataVars,
                 readyAt>>

\* An error from the store or from SubscribeBlocks: return if canceled, else
\* report it and back off.
BackOff ==
  /\ pc \in {"dberr", "suberr"}
  /\ IF runCanceled
     THEN pc' = "exit" /\ UNCHANGED <<syncVars, monVars>>
     ELSE /\ pc' = "sleep"
          /\ transition("retrying", TRUE, monPc)
          /\ UNCHANGED monPeer
  /\ UNCHANGED <<backoff, nextBlock, hpos, envVars, dataVars, readyAt>>

sleepCtx ==
  /\ pc = "sleep"
  /\ \/ runCanceled /\ pc' = "exit" /\ UNCHANGED backoff
     \/ pc' = "top" /\ backoff' = MinOf(backoff * 2, MaxBackoff)
  /\ UNCHANGED <<syncVars, nextBlock, hpos, monVars, envVars, dataVars, readyAt>>

EnterSyncing ==
  /\ pc = "enter"
  /\ pc' = "stream"
  /\ transition("syncing", FALSE, monPc)
  /\ UNCHANGED <<backoff, nextBlock, hpos, monPeer, envVars, dataVars, readyAt>>

\* SubscribeBlocks returned nil.
SubscriptionEnds ==
  /\ pc = "subok"
  /\ pc' = "top" /\ backoff' = 1
  /\ UNCHANGED <<syncVars, nextBlock, hpos, monVars, envVars, dataVars, readyAt>>

\* The deferred shutdown: stop, join the monitors, close the peer.
Stop ==
  /\ pc = "exit"
  /\ pc' = "join"
  /\ transition("stopped", FALSE, monPc)
  /\ UNCHANGED <<backoff, nextBlock, hpos, monPeer, envVars, dataVars, readyAt>>

JoinAndClose_NoWait ==
  /\ pc = "join"
  /\ pc' = "returned" /\ peerClosed' = TRUE
  /\ UNCHANGED <<syncVars, backoff, nextBlock, hpos, monVars, runCanceled,
                 peerHeight, dataVars, readyAt>>

JoinAndClose ==
  /\ pc = "join" /\ Running = {}
  /\ pc' = "returned" /\ peerClosed' = TRUE
  /\ UNCHANGED <<syncVars, backoff, nextBlock, hpos, monVars, runCanceled,
                 peerHeight, dataVars, readyAt>>

-----------------------------------------------------------------------------
\* SubscribeBlocks and ProcessBlock.

RecvBlock ==
  /\ pc = "stream" /\ nextBlock < peerHeight
  /\ pc' = "handle" /\ hpos' = 1
  /\ UNCHANGED <<syncVars, backoff, nextBlock, monVars, envVars, dataVars, readyAt>>

\* Opening the stream, sending the seek or Recv fails.
RecvFails ==
  /\ pc = "stream"
  /\ pc' = IF runCanceled THEN "subok" ELSE "suberr"
  /\ UNCHANGED <<syncVars, backoff, nextBlock, hpos, monVars, envVars, dataVars,
                 readyAt>>

\* The peer ends the stream with status SUCCESS.
RecvSuccess ==
  /\ pc = "stream"
  /\ pc' = "subok"
  /\ UNCHANGED <<syncVars, backoff, nextBlock, hpos, monVars, envVars, dataVars,
                 readyAt>>

\* Handler hpos handles block next; the store commits its height with it.
Handle ==
  /\ pc = "handle"
  /\ seen' = [seen EXCEPT ![hpos] = @ \cup {nextBlock}]
  /\ progress' = IF hpos = DbPos THEN MaxOf(progress, nextBlock) ELSE progress
  /\ IF hpos = NHandlers
     THEN pc' = "stream" /\ nextBlock' = nextBlock + 1 /\ UNCHANGED hpos
     ELSE hpos' = hpos + 1 /\ UNCHANGED <<pc, nextBlock>>
  /\ UNCHANGED <<syncVars, backoff, monVars, envVars, readyAt>>

\* Parsing (before the first handler) or a handler fails.
HandleFails ==
  /\ pc = "handle"
  /\ pc' = "suberr"
  /\ UNCHANGED <<syncVars, backoff, nextBlock, hpos, monVars, envVars, dataVars,
                 readyAt>>

-----------------------------------------------------------------------------
\* monitorReadiness, one goroutine per m.

\* A tick whose height queries fail leaves the monitor where it is; a query
\* under a canceled context does not succeed.
ReadPeerHeight(m) ==
  /\ monPc[m] = "wait" /\ ~MonDone(m)
  /\ monPc' = [monPc EXCEPT ![m] = "peer"]
  /\ monPeer' = [monPeer EXCEPT ![m] = peerHeight]
  /\ UNCHANGED <<syncVars, loopVars, monCanceled, envVars, dataVars, readyAt>>

CaughtUp_OneShort(m) == BlockHeight + 1 >= monPeer[m]
CaughtUp_Strict(m) == BlockHeight > monPeer[m]

CaughtUp(m) == BlockHeight >= monPeer[m]

CompareHeights(m) ==
  /\ monPc[m] = "peer"
  /\ monPc' = [monPc EXCEPT ![m] = IF CaughtUp(m) THEN "caughtup" ELSE "wait"]
  /\ UNCHANGED <<syncVars, loopVars, monPeer, monCanceled, envVars, dataVars,
                 readyAt>>

ReadLocalFails(m) ==
  /\ monPc[m] = "peer"
  /\ monPc' = [monPc EXCEPT ![m] = "wait"]
  /\ UNCHANGED <<syncVars, loopVars, monPeer, monCanceled, envVars, dataVars,
                 readyAt>>

\* No check of ctx between the comparison and the transition.
BecomeReady(m) ==
  /\ monPc[m] = "caughtup"
  /\ transition("ready", FALSE, [monPc EXCEPT ![m] = "none"])
  /\ readyAt' = IF state = "stopped" THEN readyAt ELSE monPeer[m]
  /\ UNCHANGED <<loopVars, monPeer, envVars, dataVars>>

MonitorExits(m) ==
  /\ monPc[m] = "wait" /\ MonDone(m)
  /\ monPc' = [monPc EXCEPT ![m] = "none"]
  /\ UNCHANGED <<syncVars, loopVars, monPeer, monCanceled, envVars, dataVars,
                 readyAt>>

-----------------------------------------------------------------------------
\* The environment.

PeerCommits ==
  /\ peerHeight < MaxHeight
  /\ peerHeight' = peerHeight + 1
  /\ UNCHANGED <<syncVars, loopVars, monVars, runCanceled, peerClosed, dataVars,
                 readyAt>>

Cancel ==
  /\ ~runCanceled /\ pc \notin {"idle", "returned"}
  /\ runCanceled' = TRUE
  /\ UNCHANGED <<syncVars, loopVars, monVars, peerHeight, peerClosed, dataVars,
                 readyAt>>

\* The process dies, or the caller drops a stopped instance, and a new
\* Synchronizer opens the same store.
Restart ==
  /\ pc # "idle"
  /\ state' = "notstarted" /\ lastSyncErr' = FALSE
  /\ monitorCancel' = NoMonitor /\ runCanceled' = FALSE
  /\ pc' = "idle" /\ backoff' = 1 /\ nextBlock' = 0 /\ hpos' = 1
  /\ monPc' = [m \in Monitors |-> "none"]
  /\ monPeer' = [m \in Monitors |-> 0]
  /\ monCanceled' = {} /\ peerClosed' = FALSE /\ readyAt' = 0
  /\ UNCHANGED <<peerHeight, dataVars>>

LoopStep == \/ ReadHeight \/ BackOff \/ sleepCtx \/ EnterSyncing
            \/ SubscriptionEnds \/ Stop \/ JoinAndClose \/ RecvBlock \/ Handle
MonitorStep(m) == \/ ReadPeerHeight(m) \/ CompareHeights(m) \/ BecomeReady(m)
                  \/ MonitorExits(m)
Fault == \/ ReadHeightFails \/ RecvFails \/ RecvSuccess \/ HandleFails
         \/ \E m \in Monitors : ReadLocalFails(m)
         \/ Restart

Next == \/ Start
        \/ LoopStep
        \/ \E m \in Monitors : MonitorStep(m)
        \/ Fault
        \/ PeerCommits \/ Cancel

Spec == Init /\ [][Next]_vars

\* Goroutines are scheduled, timers fire, and Recv returns once its context is
\* canceled.  Nothing makes the peer's chain grow or the caller call Start.
Fairness == /\ WF_vars(LoopStep)
            /\ WF_vars(runCanceled /\ RecvFails)
            /\ \A m \in Monitors : WF_vars(MonitorStep(m))

FairSpec == Spec /\ Fairness

-----------------------------------------------------------------------------
\* Properties.

\* The variables have their types; in particular currentBackoff stays within
\* maxBackoff.
TypeOK ==
  /\ state \in States /\ lastSyncErr \in BOOLEAN
  /\ monitorCancel \in Monitors \cup {NoMonitor}
  /\ runCanceled \in BOOLEAN /\ peerClosed \in BOOLEAN
  /\ pc \in LoopPcs /\ backoff \in 1..MaxBackoff
  /\ nextBlock \in Nat /\ hpos \in Handlers
  /\ monPc \in [Monitors -> MonPcs] /\ monPeer \in [Monitors -> Nat]
  /\ monCanceled \subseteq Monitors
  /\ peerHeight \in Nat /\ progress \in Nat \cup {-1} /\ readyAt \in Nat
  /\ seen \in [Handlers -> SUBSET Nat]

\* transition starts a monitor only on entering "syncing" and cancels it on
\* leaving: whatever a stale monitor does, at most one goroutine has an
\* uncanceled context, it is the one monitorCancel cancels, and only while the
\* state is "syncing".
OneLiveMonitor ==
  /\ \A m \in Running : m \in monCanceled \/ m = monitorCancel
  /\ monitorCancel # NoMonitor => state = "syncing" /\ monitorCancel \notin monCanceled

\* Start joins the monitors before it closes the peer: once the peer is closed
\* no monitor that could query it is running, and none can start again.
NoMonitorAfterClose ==
  peerClosed => Running = {} /\ state = "stopped" /\ monitorCancel = NoMonitor

\* A monitor that is past its last check of ctx may report ready at any later
\* time; a stopped instance must not come back to life through it.
StoppedIsTerminal ==
  [][state = "stopped" /\ pc' # "idle" => state' = "stopped"]_vars

\* Ready() = nil is backed by the store: every block after the genesis block
\* that the monitor saw in the peer's chain is committed, also when the monitor
\* that reports it is stale.
ReadyIsBacked == Ready => readyAt <= BlockHeight

\* The resume point never skips a block: the store and the handlers before it
\* have handled every block up to the stored height, across handler errors,
\* stream errors and crashes between two handlers, and none was handled before
\* its predecessors.
NoBlockLostUpToStore ==
  \A h \in 1..DbPos :
    /\ 0..progress \subseteq seen[h]
    /\ \A b \in seen[h] : 0..b \subseteq seen[h]

\* A handler after the store gets no block twice, except the genesis block,
\* which a store at height 0 asks for again.
AtMostOnceAfterStore ==
  pc = "handle" /\ hpos > DbPos /\ nextBlock > 0 => nextBlock \notin seen[hpos]

\* Start returns after its context is canceled, monitors joined.
ReturnsAfterCancel == runCanceled ~> pc \in {"returned", "idle"}

\* A monitor's failed read of the local height is the same step as a comparison that
\* finds the store behind: it counts as a failure only if it hides that it caught up.
Disturbs ==
  \/ ReadHeightFails \/ RecvFails \/ RecvSuccess \/ HandleFails \/ Restart
  \/ \E m \in Monitors : CaughtUp(m) /\ ReadLocalFails(m)

\* When nothing fails any more and the caller neither cancels nor stops, the
\* synchronizer becomes ready and stays so, however often a monitor found it behind.
CatchesUp ==
  <>[][~Disturbs]_vars /\ <>[](pc # "idle" /\ ~runCanceled) => <>[]Ready

\* The inductive invariants behind these properties.

\* Where Start is determines the state, except that a monitor may turn a
\* running state into "ready".
LoopInv ==
  /\ state = "notstarted" <=> pc = "idle"
  /\ state = "stopped" <=> pc \in {"join", "returned"}
  /\ peerClosed <=> pc = "returned"
  /\ pc \in {"idle", "returned"} => \A m \in Monitors : monPc[m] = "none"

\* The stream is exactly one block ahead of the store until the store has
\* handled the block; only block 0 is streamed to a store that has it.
StreamInv ==
  /\ \/ pc \in {"enter", "stream"}
     \/ pc = "handle" /\ hpos <= DbPos
     => nextBlock = progress + 1 \/ (nextBlock = 0 /\ progress = 0)
  /\ pc = "handle" /\ hpos > DbPos => nextBlock = progress
  /\ pc = "handle" => \A h \in Handlers : h < hpos => nextBlock \in seen[h]
  /\ \A h \in Handlers : h > DbPos => \A b \in seen[h] : b <= progress
  /\ pc = "handle" /\ hpos > DbPos /\ nextBlock > 0 =>
       \A h \in Handlers : h >= hpos => nextBlock \notin seen[h]

\* A monitor about to report ready compared heights that still hold.
MonitorInv ==
  \A m \in Monitors : monPc[m] = "caughtup" => monPeer[m] <= BlockHeight
=============================================================================
