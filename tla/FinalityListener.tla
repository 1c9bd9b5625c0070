-------------------------- MODULE FinalityListener --------------------------
(***************************************************************************)
(* notification.FinalityListener over network/fabricx.Peer.Notify.         *)
(*                                                                         *)
(* Callers wait for the finality of a transaction (WaitForFinality).       *)
(* Start runs one session after the other; a session is a stream with      *)
(* three goroutines: the send loop, which takes subscriptions from subCh,  *)
(* the receive loop, which hands events to Handle, and onConnect, which    *)
(* subscribes what is pending again.  None of the three is joined when a   *)
(* session ends, so those of an old session run beside those of the next.  *)
(***************************************************************************)
EXTENDS Integers, Sequences, FiniteSets

CONSTANTS
  TxIds, Callers, None,
  Wants,       \* the transaction each caller waits for
  Sessions,    \* session slots; a slot is reused once its goroutines are gone
  Cap,         \* capacity of subCh
  Querier,     \* whether the peer is a StatusQuerier
  Failures,    \* of "open", "break", "eof", "timeout": what the sidecar does
  Impatient,   \* whether the callers' contexts expire
  InitBackoff, MaxBackoff

ASSUME FinalityAssumption ==
  /\ Wants \in [Callers -> TxIds] /\ None \notin Callers
  /\ Cap \in Nat \ {0} /\ Querier \in BOOLEAN /\ Impatient \in BOOLEAN
  /\ Failures \subseteq {"open", "break", "eof", "timeout"}
  /\ InitBackoff \in Nat \ {0} /\ MaxBackoff \in Nat

VARIABLES
  pending,     \* the listener's map: the caller whose channel is registered
  subCh,       \* the subscription batches queued
  pc, backoff, cur, canceled,   \* Start: its place, its session, its context
  caller, event,                \* the callers and their channels
  outer, inner,  \* outer[s]: ctx2 of runSession is done; inner[s]: Notify's is
  stream,      \* stream[s]: "open", "broken" or "eof"
  errCh,       \* errCh[s] holds an error
  send, sendBatch, recv, conn, connBatch,  \* the goroutines of a session
  subs,        \* subs[s]: what the sidecar is subscribed to for stream s
  final,       \* the transactions that have an outcome
  expired      \* those of which the sidecar timed a subscription out (history)

listenerVars == <<pending, subCh>>
startVars == <<pc, backoff, cur, canceled>>
callerVars == <<caller, event>>
sessionVars == <<outer, inner, stream, errCh, send, sendBatch, recv, conn, connBatch>>
sidecarVars == <<subs, final, expired>>
finalityVars == <<listenerVars, startVars, callerVars, sessionVars, sidecarVars>>

ListenerInit ==
  /\ pending = [t \in TxIds |-> None] /\ subCh = <<>>
  /\ pc = "top" /\ backoff = InitBackoff /\ canceled = FALSE
  /\ cur \in Sessions
  /\ caller = [c \in Callers |-> "idle"] /\ event = [c \in Callers |-> <<>>]
  /\ outer = [s \in Sessions |-> TRUE] /\ inner = [s \in Sessions |-> TRUE]
  /\ stream = [s \in Sessions |-> "broken"] /\ errCh = [s \in Sessions |-> FALSE]
  /\ send = [s \in Sessions |-> "exit"] /\ recv = [s \in Sessions |-> "exit"]
  /\ conn = [s \in Sessions |-> "exit"]
  /\ sendBatch = [s \in Sessions |-> {}] /\ connBatch = [s \in Sessions |-> {}]
  /\ subs = [s \in Sessions |-> {}] /\ final = {} /\ expired = {}

-----------------------------------------------------------------------------
\* FinalityProvider.

\* Register up to its select.
Register(c) ==
  /\ caller[c] \in {"idle", "failed"}
  /\ IF pending[Wants[c]] # None
     THEN caller' = [caller EXCEPT ![c] = "failed"] /\ UNCHANGED <<pending, event>>
     ELSE /\ pending' = [pending EXCEPT ![Wants[c]] = c]
          /\ event' = [event EXCEPT ![c] = <<>>]
          /\ caller' = [caller EXCEPT ![c] = "queueing"]
  /\ UNCHANGED <<subCh, startVars, sessionVars, sidecarVars>>

Subscribe_OnlyPending(c) ==
  /\ caller[c] = "queueing"
  /\ caller' = [caller EXCEPT ![c] = "waiting"]
  /\ UNCHANGED <<listenerVars, event, startVars, sessionVars, sidecarVars>>

Subscribe(c) ==
  /\ caller[c] = "queueing" /\ Len(subCh) < Cap
  /\ subCh' = Append(subCh, {Wants[c]})
  /\ caller' = [caller EXCEPT ![c] = "waiting"]
  /\ UNCHANGED <<pending, event, startVars, sessionVars, sidecarVars>>

\* The caller's context is done, in Register or in WaitForFinality.
GiveUp(c) ==
  /\ Impatient /\ caller[c] \in {"queueing", "waiting"}
  /\ caller' = [caller EXCEPT ![c] = "unregister"]
  /\ UNCHANGED <<listenerVars, event, startVars, sessionVars, sidecarVars>>

Unregister_Missing(c) ==
  /\ caller[c] = "unregister"
  /\ caller' = [caller EXCEPT ![c] = "failed"]
  /\ event' = [event EXCEPT ![c] = <<>>]
  /\ UNCHANGED <<pending, subCh, startVars, sessionVars, sidecarVars>>

Unregister(c) ==
  /\ caller[c] = "unregister"
  /\ pending' = [pending EXCEPT ![Wants[c]] = None]
  /\ caller' = [caller EXCEPT ![c] = "failed"]
  /\ event' = [event EXCEPT ![c] = <<>>]
  /\ UNCHANGED <<subCh, startVars, sessionVars, sidecarVars>>

Receive(c) ==
  /\ caller[c] = "waiting" /\ event[c] # <<>>
  /\ caller' = [caller EXCEPT ![c] = "got"]
  /\ UNCHANGED <<listenerVars, event, startVars, sessionVars, sidecarVars>>

\* What the sidecar reports of a transaction: an outcome, or StatusUnknown.
Reported(t) == IF t \in final THEN "final" ELSE "unknown"

Handle_NoDelete(ts) ==
  /\ event' = [c \in Callers |-> IF \E t \in ts : pending[t] = c
                                 THEN Append(event[c], Reported(Wants[c]))
                                 ELSE event[c]]
  /\ pending' = pending

\* Handle: each event to the channel registered for it, which is then forgotten.
Handle(ts) ==
  /\ event' = [c \in Callers |-> IF \E t \in ts : pending[t] = c
                                 THEN Append(event[c], Reported(Wants[c]))
                                 ELSE event[c]]
  /\ pending' = [t \in TxIds |-> IF t \in ts THEN None ELSE pending[t]]

-----------------------------------------------------------------------------
\* Start and runSession.

Gone(s) == send[s] = "exit" /\ recv[s] = "exit" /\ conn[s] = "exit"

\* A session starts; the stream opens, or Notify returns at once with an error.
runSession(s, opens) ==
  /\ pc = "top" /\ ~canceled /\ Gone(s)
  /\ opens \/ "open" \in Failures
  /\ cur' = s /\ pc' = IF opens THEN "notify" ELSE "backoff"
  /\ outer' = [outer EXCEPT ![s] = ~opens]
  /\ inner' = [inner EXCEPT ![s] = ~opens]
  /\ stream' = [stream EXCEPT ![s] = IF opens THEN "open" ELSE "broken"]
  /\ errCh' = [errCh EXCEPT ![s] = FALSE]
  /\ send' = [send EXCEPT ![s] = IF opens THEN "loop" ELSE "exit"]
  /\ recv' = [recv EXCEPT ![s] = IF opens THEN "loop" ELSE "exit"]
  /\ conn' = [conn EXCEPT ![s] = "snapshot"]
  /\ subs' = [subs EXCEPT ![s] = {}]
  /\ UNCHANGED <<listenerVars, backoff, canceled, callerVars, sendBatch, connBatch,
                 final, expired>>

\* Notify returns, and with it runSession: the deferred cancels.
SessionEnds(s) ==
  /\ inner' = [inner EXCEPT ![s] = TRUE] /\ outer' = [outer EXCEPT ![s] = TRUE]
  /\ stream' = [stream EXCEPT ![s] = IF @ = "open" THEN "broken" ELSE @]
  /\ subs' = [subs EXCEPT ![s] = {}]
  /\ UNCHANGED <<listenerVars, cur, canceled, callerVars, errCh, send, sendBatch,
                 recv, conn, connBatch, final, expired>>

\* Notify's select takes the error ...
NotifyFails ==
  /\ pc = "notify" /\ errCh[cur]
  /\ IF canceled THEN pc' = "top" /\ backoff' = InitBackoff
     ELSE pc' = "backoff" /\ backoff' = backoff
  /\ SessionEnds(cur)

\* ... or the context, which the loop that failed cancels too.
NotifyDone ==
  /\ pc = "notify" /\ inner[cur]
  /\ pc' = "top" /\ backoff' = InitBackoff
  /\ SessionEnds(cur)

BackOff ==
  /\ pc = "backoff"
  /\ \/ /\ pc' = "top"
        /\ backoff' = IF backoff < MaxBackoff THEN backoff * 2 ELSE backoff
     \/ canceled /\ pc' = "returned" /\ UNCHANGED backoff
  /\ UNCHANGED <<listenerVars, cur, canceled, callerVars, sessionVars, sidecarVars>>

StartReturns ==
  /\ pc = "top" /\ canceled /\ pc' = "returned"
  /\ UNCHANGED <<listenerVars, backoff, cur, canceled, callerVars, sessionVars, sidecarVars>>

Cancel ==
  /\ ~canceled /\ canceled' = TRUE
  /\ outer' = [s \in Sessions |-> TRUE] /\ inner' = [s \in Sessions |-> TRUE]
  /\ stream' = [s \in Sessions |-> IF stream[s] = "open" THEN "broken" ELSE stream[s]]
  /\ subs' = [s \in Sessions |-> {}]
  /\ UNCHANGED <<listenerVars, pc, backoff, cur, callerVars, errCh, send, sendBatch,
                 recv, conn, connBatch, final, expired>>

-----------------------------------------------------------------------------
\* onConnect and reconcile.

ConnectSnapshot(s) ==
  LET ts == {t \in TxIds : pending[t] # None}
  IN /\ conn[s] = "snapshot"
     /\ connBatch' = [connBatch EXCEPT ![s] = ts]
     /\ conn' = [conn EXCEPT ![s] = IF ts = {} THEN "exit" ELSE "send"]
     /\ UNCHANGED <<listenerVars, startVars, callerVars, outer, inner, stream, errCh,
                    send, sendBatch, recv, sidecarVars>>

ConnectSend(s) ==
  /\ conn[s] = "send" /\ Len(subCh) < Cap
  /\ subCh' = Append(subCh, connBatch[s])
  /\ conn' = [conn EXCEPT ![s] = IF Querier THEN "query" ELSE "exit"]
  /\ connBatch' = [connBatch EXCEPT ![s] = IF Querier THEN @ ELSE {}]
  /\ UNCHANGED <<pending, startVars, callerVars, outer, inner, stream, errCh, send,
                 sendBatch, recv, sidecarVars>>

\* ctx2 is done before the batch is queued, or the query fails.
ConnectStops(s) ==
  /\ \/ conn[s] = "send" /\ outer[s]
     \/ conn[s] = "query" /\ (outer[s] \/ "break" \in Failures)
  /\ conn' = [conn EXCEPT ![s] = "exit"]
  /\ connBatch' = [connBatch EXCEPT ![s] = {}]
  /\ UNCHANGED <<listenerVars, startVars, callerVars, outer, inner, stream, errCh, send,
                 sendBatch, recv, sidecarVars>>

reconcile_All(s) ==
  /\ conn[s] = "query" /\ ~outer[s]
  /\ Handle(connBatch[s])
  /\ conn' = [conn EXCEPT ![s] = "exit"]
  /\ connBatch' = [connBatch EXCEPT ![s] = {}]
  /\ UNCHANGED <<subCh, startVars, caller, outer, inner, stream, errCh, send,
                 sendBatch, recv, sidecarVars>>

reconcile(s) ==
  /\ conn[s] = "query" /\ ~outer[s]
  /\ Handle({t \in connBatch[s] : Reported(t) # "unknown"})
  /\ conn' = [conn EXCEPT ![s] = "exit"]
  /\ connBatch' = [connBatch EXCEPT ![s] = {}]
  /\ UNCHANGED <<subCh, startVars, caller, outer, inner, stream, errCh, send,
                 sendBatch, recv, sidecarVars>>

-----------------------------------------------------------------------------
\* The loops of Notify.

\* A loop that fails leaves its error if it is the first, and cancels.
LoopFails(s) ==
  /\ errCh' = [errCh EXCEPT ![s] = TRUE]
  /\ inner' = [inner EXCEPT ![s] = @ \/ ~errCh[s]]

\* The send loop waits in its select: the first of the two channels wakes it.
SendParks(s) ==
  /\ send[s] = "loop" /\ subCh = <<>> /\ ~inner[s]
  /\ send' = [send EXCEPT ![s] = "parked"]
  /\ UNCHANGED <<listenerVars, startVars, callerVars, outer, inner, stream, errCh,
                 sendBatch, recv, conn, connBatch, sidecarVars>>

Parked(s) == send[s] = "parked" /\ ~inner[s]

\* A batch goes to a loop that waits for it; if none does, to the first that comes
\* to its select, also one that finds its context done as well.
SendTakes(s) ==
  /\ subCh # <<>>
  /\ Parked(s) \/ (send[s] = "loop" /\ \A r \in Sessions : ~Parked(r))
  /\ sendBatch' = [sendBatch EXCEPT ![s] = Head(subCh)] /\ subCh' = Tail(subCh)
  /\ send' = [send EXCEPT ![s] = "sending"]
  /\ UNCHANGED <<pending, startVars, callerVars, outer, inner, stream, errCh, recv,
                 conn, connBatch, sidecarVars>>

SendSucceeds(s) ==
  /\ send[s] = "sending" /\ stream[s] = "open"
  /\ subs' = [subs EXCEPT ![s] = @ \cup sendBatch[s]]
  /\ sendBatch' = [sendBatch EXCEPT ![s] = {}]
  /\ send' = [send EXCEPT ![s] = "loop"]
  /\ UNCHANGED <<listenerVars, startVars, callerVars, outer, inner, stream, errCh, recv,
                 conn, connBatch, final, expired>>

SendFails(s) ==
  /\ send[s] = "sending" /\ stream[s] # "open"
  /\ sendBatch' = [sendBatch EXCEPT ![s] = {}]
  /\ send' = [send EXCEPT ![s] = "exit"] /\ LoopFails(s)
  /\ UNCHANGED <<listenerVars, startVars, callerVars, outer, stream, recv, conn,
                 connBatch, sidecarVars>>

SendStops_OnlyParked(s) ==
  /\ send[s] = "parked" /\ inner[s]
  /\ send' = [send EXCEPT ![s] = "exit"]
  /\ UNCHANGED <<listenerVars, startVars, callerVars, outer, inner, stream, errCh,
                 sendBatch, recv, conn, connBatch, sidecarVars>>

SendStops(s) ==
  /\ send[s] \in {"loop", "parked"} /\ inner[s]
  /\ send' = [send EXCEPT ![s] = "exit"]
  /\ UNCHANGED <<listenerVars, startVars, callerVars, outer, inner, stream, errCh,
                 sendBatch, recv, conn, connBatch, sidecarVars>>

\* A response: outcomes, and subscriptions the sidecar timed out (StatusUnknown).
RecvEvents(s, ts) ==
  /\ recv[s] = "loop" /\ stream[s] = "open"
  /\ ts # {} /\ ("timeout" \in Failures \/ ts \subseteq final)
  /\ Handle(ts)
  /\ subs' = [subs EXCEPT ![s] = @ \ ts]
  /\ expired' = expired \cup (ts \ final)
  /\ UNCHANGED <<subCh, startVars, caller, sessionVars, final>>

RecvFails(s) ==
  /\ recv[s] = "loop" /\ stream[s] # "open"
  /\ recv' = [recv EXCEPT ![s] = "exit"]
  /\ IF stream[s] = "eof" \/ inner[s] THEN UNCHANGED <<errCh, inner>> ELSE LoopFails(s)
  /\ UNCHANGED <<listenerVars, startVars, callerVars, outer, stream, send, sendBatch,
                 conn, connBatch, sidecarVars>>

\* The network or the sidecar ends a stream, and its subscriptions with it.
StreamEnds(s, how) ==
  /\ stream[s] = "open" /\ stream' = [stream EXCEPT ![s] = how]
  /\ how = "broken" => "break" \in Failures
  /\ how = "eof" => "eof" \in Failures
  /\ subs' = [subs EXCEPT ![s] = {}]
  /\ UNCHANGED <<listenerVars, startVars, callerVars, outer, inner, errCh, send,
                 sendBatch, recv, conn, connBatch, final, expired>>

Finalize(t) ==
  /\ t \notin final /\ final' = final \cup {t}
  /\ UNCHANGED <<listenerVars, startVars, callerVars, sessionVars, subs, expired>>

-----------------------------------------------------------------------------
StartStep ==
  (\E s \in Sessions, o \in BOOLEAN : runSession(s, o)) \/ NotifyFails \/ NotifyDone
  \/ BackOff \/ StartReturns

SendStep(s) == SendParks(s) \/ SendTakes(s) \/ SendSucceeds(s) \/ SendFails(s) \/ SendStops(s)
RecvStep(s) == RecvFails(s) \/ \E ts \in SUBSET subs[s] : RecvEvents(s, ts)
ConnectStep(s) ==
  ConnectSnapshot(s) \/ ConnectSend(s) \/ ConnectStops(s) \/ reconcile(s)

ListenerNext ==
  \/ \E c \in Callers :
       Register(c) \/ Subscribe(c) \/ GiveUp(c) \/ Unregister(c) \/ Receive(c)
  \/ StartStep \/ Cancel
  \/ \E s \in Sessions :
       \/ SendStep(s) \/ RecvStep(s) \/ ConnectStep(s)
       \/ \E how \in {"broken", "eof"} : StreamEnds(s, how)
  \/ \E t \in TxIds : Finalize(t)

ListenerSpec == ListenerInit /\ [][ListenerNext]_finalityVars

\* Goroutines run; the sidecar reports an outcome it is subscribed to.
ListenerFairSpec ==
  /\ ListenerSpec
  /\ WF_finalityVars(StartStep)
  /\ \A s \in Sessions :
       /\ WF_finalityVars(SendStep(s)) /\ WF_finalityVars(ConnectStep(s))
       /\ WF_finalityVars(RecvFails(s))
       /\ \A t \in TxIds : WF_finalityVars(t \in subs[s] /\ RecvEvents(s, {t}))
  /\ \A c \in Callers : /\ WF_finalityVars(Subscribe(c)) /\ WF_finalityVars(Unregister(c))
                         /\ WF_finalityVars(Receive(c))

-----------------------------------------------------------------------------
\* Properties.

\* Handle: "buffered(1): never blocks".  However streams, reconciliation and
\* registrations interleave, a channel is sent at most one event.
AtMostOneEvent == \A c \in Callers : Len(event[c]) <= 1

\* The map holds no entry that nobody waits for, and none that was answered.
PendingIsAwaited ==
  \A t \in TxIds : pending[t] # None =>
    /\ Wants[pending[t]] = t /\ event[pending[t]] = <<>>
    /\ caller[pending[t]] \in {"queueing", "waiting", "unregister"}

\* A wait ends with StatusUnknown only because the sidecar timed it out, never
\* because reconcile asked too early.
UnknownIsTimeout ==
  \A c \in Callers : event[c] = <<"unknown">> => Wants[c] \in expired

\* Once ctx is canceled Start returns and no goroutine of any session is left.
CancelStopsAll == canceled ~> (pc = "returned" /\ \A s \in Sessions : Gone(s))

\* A registered transaction that has an outcome is reported to its caller.
Served ==
  \A c \in Callers :
    (caller[c] = "waiting" /\ Wants[c] \in final /\ ~canceled)
      ~> (caller[c] # "waiting" \/ canceled)

\* When a session comes about, and as long as no stream comes to an end, every waiter
\* is served, whether it registered before the session or during it, and however full
\* subCh was.
WaiterIsServed ==
  <>(pc = "notify") /\ [](\A s \in Sessions : recv[s] = "loop" => stream[s] = "open")
    => Served

\* Comment of Register: "never silently drops".  Once a session lasts, every
\* transaction registered is reported, also those registered while the session before
\* it came to its end.
ServedOnceStable ==
  <>[](pc = "notify" /\ stream[cur] = "open") => Served
=============================================================================
