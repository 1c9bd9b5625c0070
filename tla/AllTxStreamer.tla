--------------------------- MODULE AllTxStreamer ----------------------------
(***************************************************************************)
(* notification.AllTxStreamer.Stream over fabricx.Peer's                   *)
(* StreamAllTransactions: the receive loop, on the caller's goroutine,     *)
(* queues the batches; a goroutine of its own runs the handlers.  A batch  *)
(* is the number of its block.                                             *)
(***************************************************************************)
EXTENDS Integers, Sequences, EventFilter

CONSTANTS
  NHandlers,   \* the handlers run in order 1..NHandlers
  QueueDepth,  \* capacity of the queue
  MaxBlocks    \* bound: blocks the sidecar sends

ASSUME AllTxAssumption ==
  NHandlers \in Nat \ {0} /\ QueueDepth \in Nat \ {0} /\ MaxBlocks \in Nat

VARIABLES
  request,    \* the StreamAllRequest the caller passed
  ctx,        \* the caller's context is canceled
  streamCtx,  \* and the stream's, derived from it
  received,   \* the batches the receive loop got
  rpc,        \* receive loop: "recv", "enqueue", "full", "returned"
  streamErr,  \* what StreamAllTransactions returned: "nil" or "error"
  queue, queueClosed,
  hpc,        \* handler goroutine: "check", "select", "handle", "cancel", "exit"
  batch, h,   \* the batch in hand and the handler it is at
  handlerErr,
  handled,    \* handled[i]: the batches handler i has processed
  result      \* what Stream returned: "none" until then

recvVars == <<received, rpc, streamErr>>
handlerVars == <<hpc, batch, h, handlerErr, handled>>
streamerVars == <<request, ctx, streamCtx, recvVars, queue, queueClosed, handlerVars, result>>

StreamerInit ==
  /\ request \in Requests
  /\ ctx = FALSE /\ streamCtx = FALSE
  /\ received = <<>> /\ rpc = "recv" /\ streamErr = "nil"
  /\ queue = <<>> /\ queueClosed = FALSE
  /\ hpc = "check" /\ batch = 0 /\ h = 1 /\ handlerErr = FALSE
  /\ handled = [i \in 1..NHandlers |-> <<>>]
  /\ result = "none"

CancelContext ==
  /\ ~ctx /\ ctx' = TRUE /\ streamCtx' = TRUE
  /\ UNCHANGED <<request, recvVars, queue, queueClosed, handlerVars, result>>

-----------------------------------------------------------------------------
\* StreamAllTransactions and ProcessBatch.

\* A live feed: the next block.
Recv ==
  /\ rpc = "recv" /\ Len(received) < MaxBlocks
  /\ received' = Append(received, Len(received) + 1) /\ rpc' = "enqueue"
  /\ UNCHANGED <<request, ctx, streamCtx, streamErr, queue, queueClosed, handlerVars, result>>

\* Recv fails: nil if the feed ended or the context is done, else an error.  The
\* stream may also fail to open.
RecvEnds(err) ==
  /\ rpc = "recv"
  /\ err = "error" => ~streamCtx \/ received = <<>>
  /\ streamErr' = err /\ rpc' = "returned"
  /\ UNCHANGED <<request, ctx, streamCtx, received, queue, queueClosed, handlerVars, result>>

\* The fast path: queue the batch if there is room.
ProcessBatch ==
  /\ rpc = "enqueue"
  /\ IF Len(queue) < QueueDepth
     THEN queue' = Append(queue, received[Len(received)]) /\ rpc' = "recv"
     ELSE queue' = queue /\ rpc' = "full"
  /\ UNCHANGED <<request, ctx, streamCtx, received, streamErr, queueClosed, handlerVars, result>>

ProcessBatchWaits_Drops ==
  /\ rpc = "full"
  /\ rpc' = "recv" /\ queue' = queue /\ UNCHANGED streamErr
  /\ UNCHANGED <<request, ctx, streamCtx, received, queueClosed, handlerVars, result>>
ProcessBatchWaits_NoDone ==
  /\ rpc = "full" /\ Len(queue) < QueueDepth
  /\ queue' = Append(queue, received[Len(received)]) /\ rpc' = "recv" /\ UNCHANGED streamErr
  /\ UNCHANGED <<request, ctx, streamCtx, received, queueClosed, handlerVars, result>>

\* The queue was full: wait for room or for the teardown.
ProcessBatchWaits ==
  /\ rpc = "full"
  /\ \/ /\ Len(queue) < QueueDepth
        /\ queue' = Append(queue, received[Len(received)]) /\ rpc' = "recv" /\ UNCHANGED streamErr
     \/ /\ streamCtx
        /\ streamErr' = "error" /\ rpc' = "returned" /\ queue' = queue
  /\ UNCHANGED <<request, ctx, streamCtx, received, queueClosed, handlerVars, result>>

-----------------------------------------------------------------------------
\* runHandlers.

CheckContext ==
  /\ hpc = "check"
  /\ hpc' = IF streamCtx THEN "cancel" ELSE "select"
  /\ UNCHANGED <<request, ctx, streamCtx, recvVars, queue, queueClosed, batch, h, handlerErr,
                 handled, result>>

\* The select: the context, a batch, or the queue closed and drained.
SelectDone ==
  /\ hpc = "select" /\ (streamCtx \/ (queue = <<>> /\ queueClosed))
  /\ hpc' = "cancel"
  /\ UNCHANGED <<request, ctx, streamCtx, recvVars, queue, queueClosed, batch, h, handlerErr,
                 handled, result>>

SelectBatch ==
  /\ hpc = "select" /\ queue # <<>>
  /\ batch' = Head(queue) /\ queue' = Tail(queue) /\ h' = 1 /\ hpc' = "handle"
  /\ UNCHANGED <<request, ctx, streamCtx, recvVars, queueClosed, handlerErr, handled, result>>

HandleBatch ==
  /\ hpc = "handle"
  /\ handled' = [handled EXCEPT ![h] = Append(@, batch)]
  /\ h' = h + 1 /\ hpc' = IF h = NHandlers THEN "check" ELSE "handle"
  /\ UNCHANGED <<request, ctx, streamCtx, recvVars, queue, queueClosed, batch, handlerErr, result>>

HandleFails_Continues ==
  /\ hpc = "handle" /\ handlerErr' = TRUE /\ hpc' = "check"
  /\ UNCHANGED <<request, ctx, streamCtx, recvVars, queue, queueClosed, batch, h, handled, result>>

HandleFails ==
  /\ hpc = "handle" /\ handlerErr' = TRUE /\ hpc' = "cancel"
  /\ UNCHANGED <<request, ctx, streamCtx, recvVars, queue, queueClosed, batch, h, handled, result>>

\* The goroutine cancels the stream and closes handlerDone.
HandlersExit ==
  /\ hpc = "cancel" /\ streamCtx' = TRUE /\ hpc' = "exit"
  /\ UNCHANGED <<request, ctx, recvVars, queue, queueClosed, batch, h, handlerErr, handled, result>>

-----------------------------------------------------------------------------
\* Stream, once StreamAllTransactions has returned.

CloseQueue ==
  /\ rpc = "returned" /\ ~queueClosed /\ queueClosed' = TRUE
  /\ UNCHANGED <<request, ctx, streamCtx, recvVars, queue, handlerVars, result>>

StreamReturns ==
  /\ queueClosed /\ hpc = "exit" /\ result = "none"
  /\ result' = IF handlerErr THEN "handler" ELSE IF ctx THEN "nil" ELSE streamErr
  /\ streamCtx' = TRUE
  /\ UNCHANGED <<request, ctx, recvVars, queue, queueClosed, handlerVars>>

ReceiveStep == Recv \/ (\E e \in {"nil", "error"} : RecvEnds(e)) \/ ProcessBatch
              \/ ProcessBatchWaits
HandlerStep == CheckContext \/ SelectDone \/ SelectBatch \/ HandleBatch \/ HandleFails
                 \/ HandlersExit
StreamStep == CloseQueue \/ StreamReturns

\* Stream has returned and nothing of it is left.
Finished == result # "none" /\ hpc = "exit" /\ UNCHANGED streamerVars

StreamerNext == CancelContext \/ ReceiveStep \/ HandlerStep \/ StreamStep \/ Finished

StreamerSpec == StreamerInit /\ [][StreamerNext]_streamerVars

\* Goroutines run, handlers return, and Recv returns once its context is done.
StreamerFairSpec ==
  /\ StreamerSpec /\ WF_streamerVars(HandlerStep) /\ WF_streamerVars(StreamStep)
  /\ WF_streamerVars(ProcessBatch) /\ WF_streamerVars(ProcessBatchWaits)
  /\ WF_streamerVars(streamCtx /\ \E e \in {"nil", "error"} : RecvEnds(e))

-----------------------------------------------------------------------------
\* Properties.

\* s holds the first batches of t.
Follows(s, t) == Len(s) <= Len(t) /\ \A n \in DOMAIN s : s[n] = t[n]

\* "in the order the blocks were received": no handler sees a batch twice, out of
\* order or after a gap, and none is ahead of the handlers before it.
HandledInOrder ==
  /\ Follows(handled[1], received)
  /\ \A i \in 2..NHandlers : Follows(handled[i], handled[i - 1])

\* Stream "does not return until that goroutine has exited", and "a dropped batch
\* could never be recovered": when it returns no handler is running, and unless it was
\* canceled or a handler failed every batch went through every handler.
ReturnsAfterHandlers ==
  result # "none" =>
    /\ hpc = "exit"
    /\ ~ctx /\ ~handlerErr => \A i \in 1..NHandlers : handled[i] = received

\* Neither a full queue nor a blocked receive keeps Stream from returning once
\* its context is done or a handler failed.
CancelEndsStream == (ctx \/ handlerErr) ~> (result # "none")

\* The statuses a transaction may be reported with under a filter.  The committer
\* does not tell an endorsement policy failure from an invalid signature.
Wanted(statuses) ==
  IF EndorsementPolicyFailure \in statuses THEN statuses \cup {InvalidSignature} ELSE statuses

\* Expansion, matching and mapping back (convertBlockEvent) agree: the stream carries a
\* transaction iff it has one of the statuses and touches one of the namespaces asked
\* for, and shows those namespaces only.  A filter for StatusUnrecognized alone names
\* no code, and so is no filter.
FilterIsExact ==
  \A tx \in Txs :
    /\ request.status # {Unrecognized} =>
         Sent(request, tx) <=>
           /\ tx.message
           /\ request.status = {} \/ StatusFromCommitterStatus(tx.code) \in Wanted(request.status)
           /\ request.ns = {} \/ tx.ns \cap request.ns # {}
    /\ request.ns # {} => Shown(request, tx) \subseteq request.ns
=============================================================================
