------------------------- MODULE NotificationProofs -------------------------
(***************************************************************************)
(* Proofs about the two clients of the sidecar's notification service:     *)
(* AllTxStreamer, then FinalityListener.                                   *)
(***************************************************************************)
EXTENDS AllTxStreamer, FinalityListener, TLAPS

-----------------------------------------------------------------------------
(***************************************************************************)
(* HandledInOrder, ReturnsAfterHandlers and FilterIsExact for any number   *)
(* of handlers and blocks, any queue depth and any request.  The batches   *)
(* are numbered in order, so the state is a cut through 1, 2, 3, ...: the  *)
(* handlers are done up to the batch in hand, the queue continues from     *)
(* there, and reaches up to what was received.                             *)
(***************************************************************************)

\* 1, 2, ..., Len(s).
Counts(s) == \A n \in 1..Len(s) : s[n] = n

StreamerTypeInv ==
  /\ request \in Requests /\ ctx \in BOOLEAN /\ streamCtx \in BOOLEAN
  /\ received \in Seq(Nat) /\ rpc \in {"recv", "enqueue", "full", "returned"}
  /\ queue \in Seq(Nat) /\ queueClosed \in BOOLEAN
  /\ hpc \in {"check", "select", "handle", "cancel", "exit"}
  /\ batch \in Nat /\ h \in 1..(NHandlers + 1) /\ handlerErr \in BOOLEAN
  /\ handled \in [1..NHandlers -> Seq(Nat)]

\* The batches queued so far, the ones taken from the queue included.
Queued == batch + Len(queue)

RecvInv ==
  /\ Counts(received) /\ \A n \in 1..Len(queue) : queue[n] = batch + n
  /\ rpc = "recv" => Queued = Len(received)
  /\ rpc \in {"enqueue", "full"} => Queued + 1 = Len(received)
  /\ rpc = "returned" => \/ Queued = Len(received)
                         \/ Queued + 1 = Len(received) /\ (ctx \/ handlerErr)
  /\ queueClosed => rpc = "returned"

\* Handlers before h are done with the batch in hand.
HandlerInv ==
  /\ \A i \in 1..NHandlers :
       /\ Counts(handled[i])
       /\ Len(handled[i]) = IF i < h \/ batch = 0 THEN batch ELSE batch - 1
  /\ hpc = "handle" => batch > 0 /\ h <= NHandlers
  /\ hpc # "handle" => batch = 0 \/ h = NHandlers + 1 \/ handlerErr
  /\ handlerErr => hpc \in {"cancel", "exit"}

EndInv ==
  /\ streamCtx => ctx \/ hpc = "exit"
  /\ hpc \in {"cancel", "exit"} /\ ~ctx /\ ~handlerErr => queue = <<>> /\ queueClosed
  /\ result # "none" => hpc = "exit" /\ queueClosed

StreamerInv == StreamerTypeInv /\ RecvInv /\ HandlerInv /\ EndInv
-----------------------------------------------------------------------------
LEMMA StreamerInitInv == StreamerInit => StreamerInv
<1> SUFFICES ASSUME StreamerInit PROVE StreamerInv
  OBVIOUS
<1>1. StreamerTypeInv
  <2>1. << >> \in Seq(Nat) /\ 1 \in 1..(NHandlers + 1)
    BY AllTxAssumption
  <2>2. handled \in [1..NHandlers -> Seq(Nat)]
    BY <2>1 DEF StreamerInit
  <2> QED
    BY <2>1, <2>2, Zenon DEF StreamerInit, StreamerTypeInv
<1>2. RecvInv
  BY DEF StreamerInit, RecvInv, Counts, Queued
<1>3. HandlerInv
  BY DEF StreamerInit, HandlerInv, Counts
<1>4. EndInv
  BY DEF StreamerInit, EndInv
<1> QED
  BY <1>1, <1>2, <1>3, <1>4 DEF StreamerInv

\* The batch after Len(s).
LEMMA CountsOn ==
  ASSUME NEW s \in Seq(Nat), Counts(s), NEW b \in Nat, b = Len(s) + 1
  PROVE  Append(s, b) \in Seq(Nat) /\ Len(Append(s, b)) = Len(s) + 1 /\ Counts(Append(s, b))
BY DEF Counts

\* The last batch received goes to the end of the queue.
LEMMA Enqueued ==
  ASSUME StreamerInv, Queued + 1 = Len(received), queue' = Append(queue, received[Len(received)]),
         batch' = batch
  PROVE  /\ queue' \in Seq(Nat) /\ Queued' = Len(received)
         /\ \A n \in 1..Len(queue') : queue'[n] = batch' + n
<1>1. PICK b \in Nat : b = received[Len(received)] /\ b = batch + Len(queue) + 1
  <2>1. /\ received \in Seq(Nat) /\ Len(received) \in Nat /\ batch \in Nat /\ Len(queue) \in Nat
        /\ Counts(received)
    BY DEF StreamerInv, StreamerTypeInv, RecvInv
  <2>2. Len(received) \in 1..Len(received) /\ Len(received) = batch + Len(queue) + 1
    BY <2>1 DEF Queued
  <2> QED
    BY <2>1, <2>2 DEF Counts
<1>2. /\ queue \in Seq(Nat) /\ batch \in Nat /\ queue' = Append(queue, b)
      /\ \A n \in 1..Len(queue) : queue[n] = batch + n
  BY <1>1 DEF StreamerInv, StreamerTypeInv, RecvInv
<1> QED
  BY <1>1, <1>2 DEF Queued

LEMMA RecvStepInv == ASSUME StreamerInv, ReceiveStep PROVE StreamerInv'
<1>1. /\ request' = request /\ ctx' = ctx /\ streamCtx' = streamCtx /\ queueClosed' = queueClosed
      /\ hpc' = hpc /\ batch' = batch /\ h' = h /\ handlerErr' = handlerErr
      /\ handled' = handled /\ result' = result
  BY DEF ReceiveStep, Recv, RecvEnds, ProcessBatch, ProcessBatchWaits, handlerVars
<1>2. rpc # "returned" /\ ~queueClosed
  BY DEF ReceiveStep, Recv, RecvEnds, ProcessBatch, ProcessBatchWaits, StreamerInv, RecvInv
<1>3. HandlerInv' /\ EndInv'
  BY <1>1, <1>2 DEF StreamerInv, HandlerInv, EndInv, Counts
<1>4. /\ received \in Seq(Nat) /\ queue \in Seq(Nat) /\ batch \in Nat /\ Len(queue) \in Nat
      /\ Len(received) \in Nat /\ Counts(received)
  BY DEF StreamerInv, StreamerTypeInv, RecvInv
<1>5. CASE Recv
  <2>1. PICK b \in Nat : b = Len(received) + 1
    BY <1>4
  <2>2. received' = Append(received, b) /\ queue' = queue /\ rpc = "recv" /\ rpc' = "enqueue"
    BY <1>5, <2>1 DEF Recv
  <2>3. received' \in Seq(Nat) /\ Len(received') = Len(received) + 1 /\ Counts(received')
    BY <1>4, <2>1, <2>2, CountsOn
  <2>4. RecvInv'
    BY <1>1, <1>2, <1>4, <2>2, <2>3 DEF StreamerInv, RecvInv, Queued
  <2> QED
    BY <1>1, <1>3, <2>2, <2>3, <2>4 DEF StreamerInv, StreamerTypeInv
<1>6. ASSUME NEW e \in {"nil", "error"}, RecvEnds(e) PROVE StreamerInv'
  <2>1. received' = received /\ queue' = queue /\ rpc = "recv" /\ rpc' = "returned"
    BY <1>6 DEF RecvEnds
  <2>2. RecvInv'
    BY <1>1, <1>2, <2>1 DEF StreamerInv, RecvInv, Queued, Counts
  <2> QED
    BY <1>1, <1>3, <2>1, <2>2 DEF StreamerInv, StreamerTypeInv
<1>7. CASE ProcessBatch \/ ProcessBatchWaits
  <2>1. rpc \in {"enqueue", "full"} /\ received' = received /\ Queued + 1 = Len(received)
    BY <1>7 DEF ProcessBatch, ProcessBatchWaits, StreamerInv, RecvInv
  <2>2. CASE queue' = Append(queue, received[Len(received)]) /\ rpc' = "recv"
    <3>1. /\ queue' \in Seq(Nat) /\ Queued' = Len(received)
          /\ \A n \in 1..Len(queue') : queue'[n] = batch' + n
      BY <1>1, <2>1, <2>2, Enqueued
    <3>2. RecvInv'
      BY <1>1, <1>2, <2>1, <2>2, <3>1 DEF StreamerInv, RecvInv, Counts
    <3> QED
      BY <1>1, <1>3, <2>1, <2>2, <3>1, <3>2 DEF StreamerInv, StreamerTypeInv
  <2>3. CASE queue' = queue /\ rpc' = "full"
    <3>1. RecvInv'
      BY <1>1, <1>2, <2>1, <2>3 DEF StreamerInv, RecvInv, Queued, Counts
    <3> QED
      BY <1>1, <1>3, <2>1, <2>3, <3>1 DEF StreamerInv, StreamerTypeInv
  <2>4. CASE queue' = queue /\ rpc' = "returned" /\ streamCtx
    <3>1. ctx \/ handlerErr
      BY <1>2, <2>4 DEF StreamerInv, StreamerTypeInv, EndInv
    <3>2. RecvInv'
      BY <1>1, <1>2, <2>1, <2>4, <3>1 DEF StreamerInv, RecvInv, Queued, Counts
    <3> QED
      BY <1>1, <1>3, <2>1, <2>4, <3>2 DEF StreamerInv, StreamerTypeInv
  <2> QED
    BY <1>7, <2>2, <2>3, <2>4 DEF ProcessBatch, ProcessBatchWaits
<1> QED
  BY <1>5, <1>6, <1>7 DEF ReceiveStep

\* Steps of the handler goroutine that handle nothing.
LEMMA QuietInv ==
  ASSUME StreamerInv, CheckContext \/ SelectDone \/ HandleFails \/ HandlersExit PROVE StreamerInv'
<1>1. /\ request' = request /\ ctx' = ctx /\ received' = received /\ rpc' = rpc
      /\ queue' = queue /\ queueClosed' = queueClosed /\ batch' = batch /\ h' = h
      /\ handled' = handled /\ result' = result
  BY DEF CheckContext, SelectDone, HandleFails, HandlersExit, recvVars
<1>2. /\ hpc' \in {"select", "cancel", "exit"} /\ handlerErr' \in BOOLEAN
      /\ streamCtx' \in BOOLEAN /\ (handlerErr => handlerErr')
      /\ handlerErr' => hpc' \in {"cancel", "exit"}
      /\ hpc = "handle" => handlerErr'
  <2>1. handlerErr => hpc \in {"cancel", "exit"}
    BY DEF StreamerInv, HandlerInv
  <2>2. handlerErr \in BOOLEAN /\ streamCtx \in BOOLEAN
    BY DEF StreamerInv, StreamerTypeInv
  <2>3. CASE CheckContext
    BY <2>1, <2>2, <2>3 DEF CheckContext
  <2>4. CASE SelectDone
    BY <2>1, <2>2, <2>4 DEF SelectDone
  <2>5. CASE HandleFails
    BY <2>1, <2>2, <2>5 DEF HandleFails
  <2>6. CASE HandlersExit
    BY <2>1, <2>2, <2>6 DEF HandlersExit
  <2> QED
    BY <2>3, <2>4, <2>5, <2>6
<1>3. StreamerTypeInv'
  BY <1>1, <1>2 DEF StreamerInv, StreamerTypeInv
<1>4. RecvInv'
  BY <1>1, <1>2 DEF StreamerInv, RecvInv, Queued, Counts
<1>5. HandlerInv'
  BY <1>1, <1>2 DEF StreamerInv, HandlerInv, Counts
<1>6. EndInv'
  <2>1. streamCtx' => ctx' \/ hpc' = "exit"
    BY Zenon DEF CheckContext, SelectDone, HandleFails, HandlersExit, StreamerInv, EndInv
  <2>2. hpc' \in {"cancel", "exit"} /\ ~ctx' /\ ~handlerErr' => queue' = <<>> /\ queueClosed'
    BY DEF CheckContext, SelectDone, HandleFails, HandlersExit, StreamerInv, EndInv
  <2>3. result' # "none" => hpc' = "exit" /\ queueClosed'
    BY DEF CheckContext, SelectDone, HandleFails, HandlersExit, StreamerInv, EndInv
  <2> QED
    BY <2>1, <2>2, <2>3 DEF EndInv
<1> QED
  BY <1>3, <1>4, <1>5, <1>6 DEF StreamerInv

LEMMA SelectBatchInv == ASSUME StreamerInv, SelectBatch PROVE StreamerInv'
<1>1. /\ request' = request /\ ctx' = ctx /\ streamCtx' = streamCtx /\ received' = received
      /\ rpc' = rpc /\ queueClosed' = queueClosed /\ handlerErr' = handlerErr
      /\ handled' = handled /\ result' = result /\ hpc = "select" /\ hpc' = "handle" /\ h' = 1
      /\ queue # <<>> /\ queue' = Tail(queue) /\ batch' = Head(queue)
  BY DEF SelectBatch, recvVars
<1>2. /\ queue \in Seq(Nat) /\ batch \in Nat /\ Len(queue) \in Nat /\ NHandlers \in Nat \ {0}
      /\ \A n \in 1..Len(queue) : queue[n] = batch + n
  BY AllTxAssumption DEF StreamerInv, StreamerTypeInv, RecvInv
<1>3. /\ queue' \in Seq(Nat) /\ Len(queue') = Len(queue) - 1 /\ Len(queue) > 0
      /\ batch' = batch + 1 /\ \A n \in 1..Len(queue') : queue'[n] = queue[n + 1]
  BY <1>1, <1>2
<1>4. StreamerTypeInv'
  <2>1. batch' \in Nat /\ h' \in 1..(NHandlers + 1)
    BY <1>1, <1>2, <1>3
  <2> QED
    BY <1>1, <1>3, <2>1 DEF StreamerInv, StreamerTypeInv
<1>5. RecvInv'
  <2>1. \A n \in 1..Len(queue') : queue'[n] = batch' + n
    BY <1>2, <1>3
  <2>2. Queued' = Queued
    BY <1>2, <1>3 DEF Queued
  <2> QED
    BY <1>1, <2>1, <2>2 DEF StreamerInv, RecvInv, Counts
<1>6. HandlerInv'
  <2>1. ~handlerErr /\ (batch = 0 \/ h = NHandlers + 1)
    BY <1>1 DEF StreamerInv, HandlerInv
  <2>2. ASSUME NEW i \in 1..NHandlers PROVE Counts(handled[i]) /\ Len(handled[i]) = batch
    <3>1. /\ Counts(handled[i])
          /\ Len(handled[i]) = IF i < h \/ batch = 0 THEN batch ELSE batch - 1
      BY DEF StreamerInv, HandlerInv
    <3>2. i < h \/ batch = 0
      BY <1>2, <2>1
    <3> QED
      BY <3>1, <3>2, Zenon
  <2>3. \A i \in 1..NHandlers : Len(handled'[i]) = IF i < h' \/ batch' = 0 THEN batch' ELSE batch' - 1
    BY <1>1, <1>2, <1>3, <2>2
  <2>4. batch' > 0 /\ h' <= NHandlers
    BY <1>1, <1>2, <1>3
  <2> QED
    BY <1>1, <2>1, <2>2, <2>3, <2>4 DEF HandlerInv, Counts
<1>7. EndInv'
  BY <1>1 DEF StreamerInv, EndInv
<1> QED
  BY <1>4, <1>5, <1>6, <1>7 DEF StreamerInv

LEMMA HandleBatchInv == ASSUME StreamerInv, HandleBatch PROVE StreamerInv'
<1>1. /\ request' = request /\ ctx' = ctx /\ streamCtx' = streamCtx /\ received' = received
      /\ rpc' = rpc /\ queue' = queue /\ queueClosed' = queueClosed /\ handlerErr' = handlerErr
      /\ batch' = batch /\ result' = result /\ hpc = "handle" /\ h' = h + 1
      /\ hpc' = IF h = NHandlers THEN "check" ELSE "handle"
      /\ handled' = [handled EXCEPT ![h] = Append(handled[h], batch)]
  BY DEF HandleBatch, recvVars
<1>2. /\ NHandlers \in Nat /\ h \in 1..NHandlers /\ batch \in Nat /\ batch > 0 /\ ~handlerErr
      /\ handled \in [1..NHandlers -> Seq(Nat)]
  BY <1>1, AllTxAssumption DEF StreamerInv, StreamerTypeInv, HandlerInv
<1>3. Counts(handled[h]) /\ batch = Len(handled[h]) + 1 /\ handled[h] \in Seq(Nat)
  BY <1>2 DEF StreamerInv, HandlerInv
<1>4. PICK t \in Seq(Nat) : t = Append(handled[h], batch) /\ Len(t) = batch /\ Counts(t)
  <2>1. PICK s \in Seq(Nat) : s = handled[h]
    BY <1>3
  <2>2. PICK b \in Nat : b = batch
    BY <1>2
  <2> QED
    BY <1>3, <2>1, <2>2, CountsOn, Zenon
<1>5. handled' \in [1..NHandlers -> Seq(Nat)]
  BY <1>1, <1>2, <1>4
<1>6. StreamerTypeInv'
  <2>1. h' \in 1..(NHandlers + 1)
    BY <1>1, <1>2
  <2> QED
    BY <1>1, <1>5, <2>1 DEF StreamerInv, StreamerTypeInv
<1>7. RecvInv'
  BY <1>1 DEF StreamerInv, RecvInv, Queued, Counts
<1>8. HandlerInv'
  <2>1. ASSUME NEW i \in 1..NHandlers
        PROVE  /\ Counts(handled[i])'
               /\ Len(handled'[i]) = IF i < h' \/ batch' = 0 THEN batch' ELSE batch' - 1
    <3>1. CASE i = h
      <4>1. handled'[i] = t
        BY <1>1, <1>2, <1>4, <3>1
      <4> QED
        BY <1>1, <1>2, <1>4, <3>1, <4>1 DEF Counts
    <3>2. CASE i # h
      <4>1. handled'[i] = handled[i]
        BY <1>1, <1>2, <3>2
      <4>2. i < h' <=> i < h
        BY <1>1, <1>2, <3>2
      <4>3. Counts(handled[i]) /\ Len(handled[i]) = IF i < h \/ batch = 0 THEN batch ELSE batch - 1
        BY DEF StreamerInv, HandlerInv
      <4> QED
        BY <1>1, <4>1, <4>2, <4>3 DEF Counts
    <3> QED
      BY <3>1, <3>2
  <2>2. (hpc' = "handle" => h' <= NHandlers) /\ (hpc' # "handle" => h' = NHandlers + 1)
    BY <1>1, <1>2
  <2> QED
    BY <1>1, <1>2, <2>1, <2>2 DEF HandlerInv
<1>9. EndInv'
  BY <1>1 DEF StreamerInv, EndInv
<1> QED
  BY <1>6, <1>7, <1>8, <1>9 DEF StreamerInv

LEMMA OthersInv ==
  ASSUME StreamerInv, CancelContext \/ StreamStep \/ Finished \/ UNCHANGED streamerVars PROVE StreamerInv'
<1>1. /\ request' = request /\ received' = received /\ rpc' = rpc /\ queue' = queue
      /\ hpc' = hpc /\ batch' = batch /\ h' = h /\ handlerErr' = handlerErr /\ handled' = handled
  BY DEF CancelContext, StreamStep, CloseQueue, StreamReturns, Finished, streamerVars, recvVars, handlerVars
<1>2. /\ ctx' \in BOOLEAN /\ streamCtx' \in BOOLEAN /\ queueClosed' \in BOOLEAN
      /\ (ctx => ctx') /\ (queueClosed => queueClosed')
      /\ queueClosed' => queueClosed \/ rpc = "returned"
  <2>1. ctx \in BOOLEAN /\ streamCtx \in BOOLEAN /\ queueClosed \in BOOLEAN
    BY DEF StreamerInv, StreamerTypeInv
  <2>2. CASE CancelContext
    BY <2>1, <2>2 DEF CancelContext
  <2>3. CASE CloseQueue
    BY <2>1, <2>3 DEF CloseQueue
  <2>4. CASE StreamReturns
    BY <2>1, <2>4 DEF StreamReturns
  <2>5. CASE Finished \/ UNCHANGED streamerVars
    BY <2>1, <2>5 DEF Finished, streamerVars
  <2> QED
    BY <2>2, <2>3, <2>4, <2>5 DEF StreamStep
<1>3. StreamerTypeInv'
  BY <1>1, <1>2 DEF StreamerInv, StreamerTypeInv
<1>4. RecvInv'
  BY <1>1, <1>2 DEF StreamerInv, RecvInv, Queued, Counts
<1>5. HandlerInv'
  BY <1>1 DEF StreamerInv, HandlerInv, Counts
<1>6. EndInv'
  <2>1. streamCtx' => ctx' \/ hpc' = "exit"
    BY <1>1, Zenon DEF CancelContext, StreamStep, CloseQueue, StreamReturns, Finished, streamerVars, StreamerInv, EndInv
  <2>2. result' # "none" => hpc' = "exit" /\ queueClosed'
    BY <1>1, <1>2 DEF CancelContext, StreamStep, CloseQueue, StreamReturns, Finished, streamerVars, StreamerInv, EndInv
  <2> QED
    BY <1>1, <1>2, <2>1, <2>2 DEF StreamerInv, EndInv
<1> QED
  BY <1>3, <1>4, <1>5, <1>6 DEF StreamerInv

LEMMA StreamerInvariant == StreamerSpec => []StreamerInv
<1>1. StreamerInv /\ [StreamerNext]_streamerVars => StreamerInv'
  BY RecvStepInv, QuietInv, SelectBatchInv, HandleBatchInv, OthersInv DEF StreamerNext, HandlerStep
<1> QED
  BY <1>1, StreamerInitInv, PTL DEF StreamerSpec
-----------------------------------------------------------------------------
\* HandledInOrder for any number of handlers and batches and any queue depth.
THEOREM BatchesInOrder == StreamerSpec => []HandledInOrder
<1>1. StreamerInv => HandledInOrder
  <2> SUFFICES ASSUME StreamerInv PROVE HandledInOrder
    OBVIOUS
  <2>1. ASSUME NEW s \in Seq(Nat), NEW t \in Seq(Nat), Counts(s), Counts(t), Len(s) <= Len(t)
        PROVE  Follows(s, t)
    BY <2>1 DEF Follows, Counts
  <2>2. NHandlers \in Nat \ {0} /\ batch \in Nat
    BY AllTxAssumption DEF StreamerInv, StreamerTypeInv
  <2>3. ASSUME NEW i \in 1..NHandlers
        PROVE  /\ handled[i] \in Seq(Nat) /\ Counts(handled[i])
               /\ Len(handled[i]) = IF i < h \/ batch = 0 THEN batch ELSE batch - 1
    BY DEF StreamerInv, StreamerTypeInv, HandlerInv
  <2>4. Follows(handled[1], received)
    <3>1. batch <= Len(received) /\ received \in Seq(Nat) /\ Counts(received)
      BY DEF StreamerInv, StreamerTypeInv, RecvInv, Queued
    <3>2. 1 \in 1..NHandlers
      BY <2>2
    <3>3. Len(handled[1]) <= Len(received)
      BY <2>2, <2>3, <3>1, <3>2
    <3> QED
      BY <2>1, <2>3, <3>1, <3>2, <3>3
  <2>5. ASSUME NEW i \in 2..NHandlers PROVE Follows(handled[i], handled[i - 1])
    <3>1. i \in 1..NHandlers /\ i - 1 \in 1..NHandlers /\ (i < h => i - 1 < h)
      BY <2>2 DEF StreamerInv, StreamerTypeInv
    <3>2. Len(handled[i]) <= Len(handled[i - 1])
      BY <2>2, <2>3, <3>1
    <3> QED
      BY <2>1, <2>3, <3>1, <3>2
  <2> QED
    BY <2>4, <2>5 DEF HandledInOrder
<1> QED
  BY <1>1, StreamerInvariant, PTL

\* ReturnsAfterHandlers for any number of handlers and batches and any queue depth.
THEOREM NoBatchIsLost == StreamerSpec => []ReturnsAfterHandlers
<1>1. StreamerInv => ReturnsAfterHandlers
  <2> SUFFICES ASSUME StreamerInv, result # "none"
               PROVE  /\ hpc = "exit"
                      /\ ~ctx /\ ~handlerErr => \A i \in 1..NHandlers : handled[i] = received
    BY DEF ReturnsAfterHandlers
  <2>1. hpc = "exit" /\ rpc = "returned"
    BY DEF StreamerInv, EndInv, RecvInv
  <2>2. ASSUME ~ctx, ~handlerErr, NEW i \in 1..NHandlers PROVE handled[i] = received
    <3>1. queue = <<>> /\ Queued = Len(received)
      BY <2>1, <2>2 DEF StreamerInv, EndInv, RecvInv
    <3>2. batch = Len(received)
      BY <3>1 DEF Queued, StreamerInv, StreamerTypeInv
    <3>3. Len(handled[i]) = batch
      <4>1. batch = 0 \/ h = NHandlers + 1
        BY <2>1, <2>2 DEF StreamerInv, HandlerInv
      <4>2. batch = 0 \/ i < h
        BY <4>1, AllTxAssumption
      <4> QED
        BY <4>2 DEF StreamerInv, HandlerInv
    <3>4. /\ handled[i] \in Seq(Nat) /\ received \in Seq(Nat)
          /\ Counts(handled[i]) /\ Counts(received)
      BY DEF StreamerInv, StreamerTypeInv, HandlerInv, RecvInv
    <3>5. \A n \in 1..Len(received) : handled[i][n] = received[n]
      BY <3>2, <3>3, <3>4 DEF Counts
    <3>6. /\ handled[i] \in [1..Len(received) -> Nat]
          /\ received \in [1..Len(received) -> Nat]
      BY <3>2, <3>3, <3>4
    <3> QED
      BY <3>5, <3>6
  <2> QED
    BY <2>1, <2>2
<1> QED
  BY <1>1, StreamerInvariant, PTL

\* A status expands to the codes that map back to it, and the policy failure to the
\* code of an invalid signature.
LEMMA CodesOf ==
  ASSUME NEW s \in Status, NEW c \in Status_name
  PROVE  c \in CodesFor(s) <=> \/ StatusFromCommitterStatus(c) = s
                               \/ s = EndorsementPolicyFailure
                                  /\ StatusFromCommitterStatus(c) = InvalidSignature
<1> USE DEF Committed, Unknown, MVCCConflict, InvalidSignature, DuplicateTxID, Malformed,
            Unrecognized, EndorsementPolicyFailure
<1>1. c \in Int /\ (c \in 0..3 \/ c \in 100..115)
  BY DEF Status_name
<1>2. CASE c = 0
  BY <1>2 DEF Status, CodesFor, StatusFromCommitterStatus
<1>3. CASE c = 1
  BY <1>3 DEF Status, CodesFor, StatusFromCommitterStatus
<1>4. CASE c = 2
  BY <1>4 DEF Status, CodesFor, StatusFromCommitterStatus
<1>5. CASE c = 3
  BY <1>5 DEF Status, CodesFor, StatusFromCommitterStatus
<1>6. CASE c = 100
  BY <1>6 DEF Status, CodesFor, StatusFromCommitterStatus
<1>7. CASE c > 100
  BY <1>1, <1>7 DEF Status, CodesFor, StatusFromCommitterStatus
<1> QED
  BY <1>1, <1>2, <1>3, <1>4, <1>5, <1>6, <1>7

\* Only StatusUnrecognized expands to nothing.
LEMMA NoCodes == ASSUME NEW s \in Status \ {Unrecognized} PROVE CodesFor(s) # {}
<1> USE DEF Committed, Unknown, MVCCConflict, InvalidSignature, DuplicateTxID, Malformed,
            Unrecognized, EndorsementPolicyFailure
<1>1. 101 \in Status_name
  BY DEF Status_name
<1> QED
  BY <1>1 DEF Status, CodesFor

\* FilterIsExact for any namespaces and any request.
THEOREM FilterPassesWhatIsAskedFor == StreamerSpec => []FilterIsExact
<1>1. StreamerInv => FilterIsExact
  <2> SUFFICES ASSUME StreamerInv, NEW tx \in Txs
               PROVE  /\ request.status # {Unrecognized} =>
                           Sent(request, tx) <=>
                             /\ tx.message
                             /\ \/ request.status = {}
                                \/ StatusFromCommitterStatus(tx.code) \in Wanted(request.status)
                             /\ request.ns = {} \/ tx.ns \cap request.ns # {}
                      /\ request.ns # {} => Shown(request, tx) \subseteq request.ns
    BY DEF FilterIsExact
  <2>1. PICK S \in SUBSET Status : S = request.status
    BY DEF StreamerInv, StreamerTypeInv, Requests
  <2>2. PICK c \in Status_name : c = tx.code
    BY DEF Txs
  <2>3. ASSUME S # {Unrecognized}
        PROVE  statusMatches(c, toProtoFilterStatus(S))
                 <=> (S = {} \/ StatusFromCommitterStatus(c) \in Wanted(S))
    <3>1. toProtoFilterStatus(S) = {} <=> S = {}
      <4>1. CASE S = {}
        BY <4>1 DEF toProtoFilterStatus
      <4>2. CASE S # {}
        <5>1. PICK s \in S : s # Unrecognized
          BY <2>3, <4>2
        <5>2. CodesFor(s) # {}
          BY <5>1, NoCodes
        <5> QED
          BY <4>2, <5>2 DEF toProtoFilterStatus
      <4> QED
        BY <4>1, <4>2
    <3>2. c \in toProtoFilterStatus(S) <=> \E s \in S : c \in CodesFor(s)
      BY DEF toProtoFilterStatus
    <3>3. (\E s \in S : c \in CodesFor(s)) <=> StatusFromCommitterStatus(c) \in Wanted(S)
      BY CodesOf DEF Wanted
    <3> QED
      BY <3>1, <3>2, <3>3 DEF statusMatches
  <2>4. Shown(request, tx) \subseteq request.ns \/ request.ns = {}
    BY DEF Shown, filterNamespaces
  <2> QED
    BY <2>1, <2>2, <2>3, <2>4 DEF Sent, touches
<1> QED
  BY <1>1, StreamerInvariant, PTL

-----------------------------------------------------------------------------
(***************************************************************************)
(* The safety of the finality listener for any number of transactions,     *)
(* callers, sessions and any capacity of subCh: what the map pending says  *)
(* of the callers decides who is sent an event, and that only once.        *)
(***************************************************************************)

\* The map and the callers.
MapInv ==
  /\ pending \in [TxIds -> Callers \cup {None}]
  /\ caller \in [Callers -> {"idle", "failed", "queueing", "waiting", "unregister", "got"}]
  /\ event \in [Callers -> Seq({"final", "unknown"})]
  /\ AtMostOneEvent /\ PendingIsAwaited /\ UnknownIsTimeout

\* Only transactions travel in batches, so that Handle looks up nothing else.
BatchInv ==
  /\ subCh \in Seq(SUBSET TxIds)
  /\ sendBatch \in [Sessions -> SUBSET TxIds] /\ connBatch \in [Sessions -> SUBSET TxIds]
  /\ subs \in [Sessions -> SUBSET TxIds]

ListenerInv == MapInv /\ BatchInv

-----------------------------------------------------------------------------
LEMMA ListenerInitInv == ListenerInit => ListenerInv
<1> SUFFICES ASSUME ListenerInit PROVE ListenerInv
  OBVIOUS
<1>1. \A c \in Callers : event[c] = <<>> /\ Len(event[c]) <= 1 /\ event[c] # <<"unknown">>
  BY DEF ListenerInit
<1>2. MapInv
  BY <1>1 DEF ListenerInit, MapInv, AtMostOneEvent, PendingIsAwaited, UnknownIsTimeout
<1>3. BatchInv
  BY DEF ListenerInit, BatchInv
<1> QED
  BY <1>2, <1>3 DEF ListenerInv

\* A step that leaves the map and the callers alone.
LEMMA MapStays ==
  ASSUME MapInv, pending' = pending, caller' = caller, event' = event, expired' = expired
  PROVE  MapInv'
BY DEF MapInv, AtMostOneEvent, PendingIsAwaited, UnknownIsTimeout

LEMMA BatchStays ==
  ASSUME BatchInv, subCh' = subCh, sendBatch' = sendBatch, connBatch' = connBatch, subs' = subs
  PROVE  BatchInv'
BY DEF BatchInv

-----------------------------------------------------------------------------
\* The callers.

\* A caller that moves on and keeps its channel, without an entry that would
\* contradict it.
LEMMA CallerMoves ==
  ASSUME MapInv, NEW c \in Callers,
         NEW v \in {"idle", "failed", "queueing", "waiting", "unregister", "got"},
         caller' = [caller EXCEPT ![c] = v], pending' = pending, event' = event,
         expired' = expired,
         \/ v \in {"queueing", "waiting", "unregister"}
         \/ \A t \in TxIds : pending[t] # c
  PROVE  MapInv'
<1>1. caller' \in [Callers -> {"idle", "failed", "queueing", "waiting", "unregister", "got"}]
  BY DEF MapInv
<1>2. PendingIsAwaited'
  <2> SUFFICES ASSUME NEW t \in TxIds, pending[t] # None
               PROVE  /\ Wants[pending[t]] = t /\ event[pending[t]] = <<>>
                      /\ caller'[pending[t]] \in {"queueing", "waiting", "unregister"}
    BY DEF PendingIsAwaited
  <2>1. pending[t] \in Callers
    BY DEF MapInv
  <2>2. /\ Wants[pending[t]] = t /\ event[pending[t]] = <<>>
        /\ caller[pending[t]] \in {"queueing", "waiting", "unregister"}
    BY DEF MapInv, PendingIsAwaited
  <2>3. caller'[pending[t]] = IF pending[t] = c THEN v ELSE caller[pending[t]]
    BY <2>1 DEF MapInv
  <2> QED
    BY <2>2, <2>3
<1> QED
  BY <1>1, <1>2 DEF MapInv, AtMostOneEvent, UnknownIsTimeout

LEMMA RegisterInv == ASSUME ListenerInv, NEW c \in Callers, Register(c) PROVE ListenerInv'
<1>1. BatchInv'
  BY BatchStays DEF ListenerInv, Register, sessionVars, sidecarVars
<1>2. expired' = expired
  BY DEF Register, sidecarVars
<1>3. caller[c] \in {"idle", "failed"} /\ Wants[c] \in TxIds
  BY FinalityAssumption DEF Register
<1>4. ASSUME NEW t \in TxIds PROVE pending[t] # c
  <2>1. pending[t] # None => caller[pending[t]] \in {"queueing", "waiting", "unregister"}
    BY Zenon DEF ListenerInv, MapInv, PendingIsAwaited
  <2>2. c # None
    BY FinalityAssumption, Zenon
  <2> QED
    BY <1>3, <2>1, <2>2
<1>5. CASE pending[Wants[c]] # None
  <2>1. caller' = [caller EXCEPT ![c] = "failed"] /\ pending' = pending /\ event' = event
    BY <1>5 DEF Register
  <2> QED
    BY <1>1, <1>2, <1>4, <2>1, CallerMoves, Zenon DEF ListenerInv
<1>6. CASE pending[Wants[c]] = None
  <2>1. /\ pending' = [pending EXCEPT ![Wants[c]] = c]
        /\ event' = [event EXCEPT ![c] = <<>>]
        /\ caller' = [caller EXCEPT ![c] = "queueing"]
    BY <1>6 DEF Register
  <2>2. <<>> \in Seq({"final", "unknown"}) /\ Len(<< >>) = 0
    OBVIOUS
  <2>3. /\ pending' \in [TxIds -> Callers \cup {None}]
        /\ caller' \in [Callers -> {"idle", "failed", "queueing", "waiting", "unregister", "got"}]
        /\ event' \in [Callers -> Seq({"final", "unknown"})]
    BY <2>1, <2>2, <1>3 DEF ListenerInv, MapInv
  <2>4. ASSUME NEW d \in Callers PROVE event'[d] = event[d] \/ event'[d] = <<>>
    BY <2>1 DEF ListenerInv, MapInv
  <2>5. AtMostOneEvent'
    BY <2>2, <2>4 DEF ListenerInv, MapInv, AtMostOneEvent
  <2>6. UnknownIsTimeout'
    <3>1. <<>> # <<"unknown">>
      OBVIOUS
    <3> QED
      BY <1>2, <2>4, <3>1, Zenon DEF ListenerInv, MapInv, UnknownIsTimeout
  <2>7. ASSUME NEW t \in TxIds, pending'[t] # None
        PROVE  /\ Wants[pending'[t]] = t /\ event'[pending'[t]] = <<>>
               /\ caller'[pending'[t]] \in {"queueing", "waiting", "unregister"}
    <3>1. CASE t = Wants[c]
      <4>1. pending'[t] = c
        BY <2>1, <3>1, <1>3 DEF ListenerInv, MapInv
      <4>2. event'[c] = <<>> /\ caller'[c] = "queueing"
        BY <2>1 DEF ListenerInv, MapInv
      <4> QED
        BY <3>1, <4>1, <4>2
    <3>2. CASE t # Wants[c]
      <4>1. pending'[t] = pending[t] /\ pending[t] \in Callers /\ pending[t] # c
        BY <1>4, <2>1, <2>7, <3>2 DEF ListenerInv, MapInv
      <4>2. event'[pending[t]] = event[pending[t]] /\ caller'[pending[t]] = caller[pending[t]]
        BY <2>1, <4>1 DEF ListenerInv, MapInv
      <4> QED
        BY <2>7, <4>1, <4>2 DEF ListenerInv, MapInv, PendingIsAwaited
    <3> QED
      BY <3>1, <3>2
  <2>8. PendingIsAwaited'
    BY <2>7 DEF PendingIsAwaited
  <2> QED
    BY <1>1, <2>3, <2>5, <2>6, <2>8 DEF ListenerInv, MapInv
<1> QED
  BY <1>5, <1>6

LEMMA UnregisterInv == ASSUME ListenerInv, NEW c \in Callers, Unregister(c) PROVE ListenerInv'
<1>1. BatchInv'
  BY BatchStays, Zenon DEF ListenerInv, Unregister, sessionVars, sidecarVars
<1>2. /\ pending' = [pending EXCEPT ![Wants[c]] = None]
      /\ caller' = [caller EXCEPT ![c] = "failed"]
      /\ event' = [event EXCEPT ![c] = <<>>]
      /\ expired' = expired
  BY DEF Unregister, sidecarVars
<1>3. <<>> \in Seq({"final", "unknown"}) /\ Len(<< >>) = 0 /\ <<>> # <<"unknown">>
  OBVIOUS
<1>4. /\ pending' \in [TxIds -> Callers \cup {None}]
      /\ caller' \in [Callers -> {"idle", "failed", "queueing", "waiting", "unregister", "got"}]
      /\ event' \in [Callers -> Seq({"final", "unknown"})]
  BY <1>2, <1>3, Zenon DEF ListenerInv, MapInv
<1>5. ASSUME NEW d \in Callers PROVE event'[d] = event[d] \/ event'[d] = <<>>
  BY <1>2 DEF ListenerInv, MapInv
<1>6. AtMostOneEvent' /\ UnknownIsTimeout'
  <2>1. AtMostOneEvent'
    BY <1>3, <1>5 DEF ListenerInv, MapInv, AtMostOneEvent
  <2>2. UnknownIsTimeout'
    BY <1>2, <1>3, <1>5, Zenon DEF ListenerInv, MapInv, UnknownIsTimeout
  <2> QED
    BY <2>1, <2>2
<1>7. ASSUME NEW t \in TxIds, pending'[t] # None
      PROVE  /\ Wants[pending'[t]] = t /\ event'[pending'[t]] = <<>>
             /\ caller'[pending'[t]] \in {"queueing", "waiting", "unregister"}
  <2>1. t # Wants[c] /\ pending'[t] = pending[t] /\ pending[t] \in Callers
    BY <1>2, <1>7, FinalityAssumption, Zenon DEF ListenerInv, MapInv
  <2>2. /\ Wants[pending[t]] = t /\ event[pending[t]] = <<>>
        /\ caller[pending[t]] \in {"queueing", "waiting", "unregister"}
    BY <1>7, <2>1, Zenon DEF ListenerInv, MapInv, PendingIsAwaited
  <2>3. pending[t] # c
    BY <2>1, <2>2
  <2>4. event'[pending[t]] = event[pending[t]] /\ caller'[pending[t]] = caller[pending[t]]
    BY <1>2, <2>1, <2>3 DEF ListenerInv, MapInv
  <2> QED
    BY <2>1, <2>2, <2>4
<1>8. PendingIsAwaited'
  BY <1>7 DEF PendingIsAwaited
<1> QED
  BY <1>1, <1>4, <1>6, <1>8, Zenon DEF ListenerInv, MapInv

LEMMA CallerInv ==
  ASSUME ListenerInv, NEW c \in Callers, Subscribe(c) \/ GiveUp(c) \/ Receive(c)
  PROVE  ListenerInv'
<1>1. CASE Subscribe(c)
  <2>1. MapInv'
    BY <1>1, CallerMoves, Zenon DEF ListenerInv, Subscribe, sidecarVars
  <2>2. {Wants[c]} \in SUBSET TxIds
    BY FinalityAssumption, Zenon
  <2>3. subCh' \in Seq(SUBSET TxIds)
    BY <1>1, <2>2 DEF ListenerInv, BatchInv, Subscribe
  <2> QED
    BY <1>1, <2>1, <2>3, Zenon DEF ListenerInv, BatchInv, Subscribe, sessionVars, sidecarVars
<1>2. CASE GiveUp(c)
  <2>1. MapInv'
    BY <1>2, CallerMoves, Zenon DEF ListenerInv, GiveUp, listenerVars, sidecarVars
  <2>2. BatchInv'
    BY <1>2, BatchStays DEF ListenerInv, GiveUp, listenerVars, sessionVars, sidecarVars
  <2> QED
    BY <2>1, <2>2 DEF ListenerInv
<1>3. CASE Receive(c)
  <2>1. \A t \in TxIds : pending[t] # c
    BY <1>3, FinalityAssumption DEF ListenerInv, MapInv, PendingIsAwaited, Receive
  <2>2. MapInv'
    BY <1>3, <2>1, CallerMoves, Zenon DEF ListenerInv, Receive, listenerVars, sidecarVars
  <2>3. BatchInv'
    BY <1>3, BatchStays DEF ListenerInv, Receive, listenerVars, sessionVars, sidecarVars
  <2> QED
    BY <2>2, <2>3 DEF ListenerInv
<1> QED
  BY <1>1, <1>2, <1>3

-----------------------------------------------------------------------------
\* Handle: the callers registered for ts, and only they, get their one event.
LEMMA HandleInv ==
  ASSUME MapInv, NEW ts \in SUBSET TxIds, Handle(ts), caller' = caller,
         expired \subseteq expired', ts \ final \subseteq expired'
  PROVE  MapInv'
<1>1. \A c \in Callers :
        event'[c] = IF \E t \in ts : pending[t] = c
                    THEN Append(event[c], Reported(Wants[c])) ELSE event[c]
  BY Zenon DEF Handle
<1>2. pending' = [t \in TxIds |-> IF t \in ts THEN None ELSE pending[t]]
  BY DEF Handle
<1>3. ASSUME NEW c \in Callers, \E t \in ts : pending[t] = c
      PROVE  /\ Wants[c] \in ts /\ event'[c] = <<Reported(Wants[c])>>
             /\ event'[c] \in Seq({"final", "unknown"}) /\ Len(event'[c]) = 1
  <2>1. PICK t \in ts : pending[t] = c
    BY <1>3
  <2>2. c # None /\ t \in TxIds
    BY FinalityAssumption
  <2>3. Wants[c] = t /\ event[c] = <<>>
    BY <2>1, <2>2 DEF MapInv, PendingIsAwaited
  <2>4. event'[c] = Append(<<>>, Reported(Wants[c]))
    BY <1>1, <1>3, <2>3, Zenon
  <2>5. Reported(Wants[c]) \in {"final", "unknown"}
    BY DEF Reported
  <2> QED
    BY <2>3, <2>4, <2>5
<1>4. ASSUME NEW c \in Callers, ~(\E t \in ts : pending[t] = c) PROVE event'[c] = event[c]
  BY <1>1, <1>4
<1>5. AtMostOneEvent'
  <2>1. ASSUME NEW c \in Callers PROVE Len(event'[c]) <= 1
    <3>1. CASE \E t \in ts : pending[t] = c
      <4>1. Len(event'[c]) = 1
        BY <1>3, <3>1
      <4> QED
        BY <4>1
    <3>2. CASE ~(\E t \in ts : pending[t] = c)
      BY <1>4, <3>2 DEF MapInv, AtMostOneEvent
    <3> QED
      BY <3>1, <3>2
  <2> QED
    BY <2>1 DEF AtMostOneEvent
<1>6. UnknownIsTimeout'
  <2> SUFFICES ASSUME NEW c \in Callers, event'[c] = <<"unknown">> PROVE Wants[c] \in expired'
    BY DEF UnknownIsTimeout
  <2>1. CASE \E t \in ts : pending[t] = c
    <3>1. Wants[c] \in ts /\ event'[c] = <<Reported(Wants[c])>>
      BY <1>3, <2>1
    <3>2. Reported(Wants[c]) = event'[c][1] /\ event'[c][1] = "unknown"
      BY <3>1
    <3> QED
      BY <3>1, <3>2 DEF Reported
  <2>2. CASE ~(\E t \in ts : pending[t] = c)
    BY <1>4, <2>2 DEF MapInv, UnknownIsTimeout
  <2> QED
    BY <2>1, <2>2
<1>7. PendingIsAwaited'
  <2> SUFFICES ASSUME NEW t \in TxIds, pending'[t] # None
               PROVE  /\ Wants[pending'[t]] = t /\ event'[pending'[t]] = <<>>
                      /\ caller'[pending'[t]] \in {"queueing", "waiting", "unregister"}
    BY DEF PendingIsAwaited
  <2>1. t \notin ts /\ pending'[t] = pending[t] /\ pending[t] \in Callers /\ pending[t] # None
    BY <1>2 DEF MapInv
  <2>2. /\ Wants[pending[t]] = t /\ event[pending[t]] = <<>>
        /\ caller[pending[t]] \in {"queueing", "waiting", "unregister"}
    BY <2>1, Zenon DEF MapInv, PendingIsAwaited
  <2>3. ~(\E u \in ts : pending[u] = pending[t])
    BY <2>1, <2>2 DEF MapInv, PendingIsAwaited
  <2> QED
    BY <1>4, <2>1, <2>2, <2>3, Zenon
<1>8. event' \in [Callers -> Seq({"final", "unknown"})]
  <2>1. \A c \in Callers : event'[c] \in Seq({"final", "unknown"})
    BY <1>3, <1>4, Zenon DEF MapInv
  <2>2. event' = [c \in Callers |-> event'[c]]
    BY DEF Handle
  <2> QED
    BY <2>1, <2>2
<1>9. pending' \in [TxIds -> Callers \cup {None}]
  BY <1>2 DEF MapInv
<1> QED
  BY <1>5, <1>6, <1>7, <1>8, <1>9, Zenon DEF MapInv

LEMMA reconcileInv == ASSUME ListenerInv, NEW s \in Sessions, reconcile(s) PROVE ListenerInv'
<1> DEFINE ts == {t \in connBatch[s] : Reported(t) # "unknown"}
<1>1. ts \in SUBSET TxIds /\ ts \ final = {}
  BY DEF ListenerInv, BatchInv, Reported
<1>2. Handle(ts) /\ caller' = caller /\ expired' = expired
  BY DEF reconcile, sidecarVars
<1> HIDE DEF ts
<1>3. PICK us : us = ts
  OBVIOUS
<1>4. MapInv'
  BY <1>1, <1>2, <1>3, HandleInv DEF ListenerInv
<1>5. BatchInv'
  BY DEF ListenerInv, BatchInv, reconcile, sidecarVars
<1> QED
  BY <1>4, <1>5 DEF ListenerInv

LEMMA RecvEventsInv ==
  ASSUME ListenerInv, NEW s \in Sessions, NEW ts \in SUBSET subs[s], RecvEvents(s, ts)
  PROVE  ListenerInv'
<1>1. ts \in SUBSET TxIds
  BY Zenon DEF ListenerInv, BatchInv
<1>2. MapInv'
  BY <1>1, HandleInv DEF ListenerInv, RecvEvents
<1>3. BatchInv'
  BY Zenon DEF ListenerInv, BatchInv, RecvEvents, sessionVars
<1> QED
  BY <1>2, <1>3 DEF ListenerInv

-----------------------------------------------------------------------------
\* The steps of the sessions that send no event.
LEMMA SendInv == ASSUME ListenerInv, NEW s \in Sessions, SendStep(s) PROVE ListenerInv'
<1>1. MapInv'
  BY MapStays DEF ListenerInv, SendStep, SendParks, SendTakes, SendSucceeds, SendFails, SendStops,
                  listenerVars, callerVars, sidecarVars
<1>2. CASE SendTakes(s)
  <2>1. Head(subCh) \in SUBSET TxIds /\ Tail(subCh) \in Seq(SUBSET TxIds)
    BY <1>2 DEF ListenerInv, BatchInv, SendTakes
  <2> QED
    BY <1>1, <1>2, <2>1 DEF ListenerInv, BatchInv, SendTakes, sidecarVars
<1>3. CASE SendSucceeds(s)
  BY <1>1, <1>3 DEF ListenerInv, BatchInv, SendSucceeds, listenerVars
<1>4. CASE SendFails(s)
  BY <1>1, <1>4 DEF ListenerInv, BatchInv, SendFails, listenerVars, sidecarVars
<1>5. CASE SendParks(s) \/ SendStops(s)
  BY <1>1, <1>5, Zenon DEF ListenerInv, BatchInv, SendParks, SendStops, listenerVars, sidecarVars
<1> QED
  BY <1>2, <1>3, <1>4, <1>5, Zenon DEF SendStep

LEMMA ConnectInv ==
  ASSUME ListenerInv, NEW s \in Sessions, ConnectSnapshot(s) \/ ConnectSend(s) \/ ConnectStops(s)
  PROVE  ListenerInv'
<1>1. MapInv'
  BY MapStays DEF ListenerInv, ConnectSnapshot, ConnectSend, ConnectStops, listenerVars, callerVars,
                  sidecarVars
<1>2. CASE ConnectSnapshot(s)
  BY <1>1, <1>2 DEF ListenerInv, BatchInv, ConnectSnapshot, listenerVars, sidecarVars
<1>3. CASE ConnectSend(s)
  <2>1. connBatch[s] \in SUBSET TxIds
    BY DEF ListenerInv, BatchInv
  <2>2. subCh' \in Seq(SUBSET TxIds)
    BY <1>3, <2>1 DEF ListenerInv, BatchInv, ConnectSend
  <2> QED
    BY <1>1, <1>3, <2>2 DEF ListenerInv, BatchInv, ConnectSend, sidecarVars
<1>4. CASE ConnectStops(s)
  BY <1>1, <1>4 DEF ListenerInv, BatchInv, ConnectStops, listenerVars, sidecarVars
<1> QED
  BY <1>2, <1>3, <1>4

LEMMA StartInv == ASSUME ListenerInv, StartStep PROVE ListenerInv'
<1>1. MapInv'
  BY MapStays DEF ListenerInv, StartStep, runSession, NotifyFails, NotifyDone, SessionEnds, BackOff,
                  StartReturns, listenerVars, callerVars, sidecarVars
<1>2. BatchInv'
  <2>1. subCh' = subCh /\ sendBatch' = sendBatch /\ connBatch' = connBatch
    BY Zenon DEF StartStep, runSession, NotifyFails, NotifyDone, SessionEnds, BackOff, StartReturns,
           listenerVars, sessionVars
  <2>2. subs' = subs \/ \E s \in Sessions \cup {cur} : subs' = [subs EXCEPT ![s] = {}]
    BY DEF StartStep, runSession, NotifyFails, NotifyDone, SessionEnds, BackOff, StartReturns,
           sidecarVars
  <2> QED
    BY <2>1, <2>2, Zenon DEF ListenerInv, BatchInv
<1> QED
  BY <1>1, <1>2, Zenon DEF ListenerInv

LEMMA OtherInv ==
  ASSUME ListenerInv,
         \/ Cancel
         \/ \E s \in Sessions : RecvFails(s) \/ \E how \in {"broken", "eof"} : StreamEnds(s, how)
         \/ \E t \in TxIds : Finalize(t)
         \/ UNCHANGED finalityVars
  PROVE  ListenerInv'
<1>1. CASE Cancel
  BY <1>1, MapStays, Zenon DEF ListenerInv, BatchInv, Cancel, listenerVars, callerVars
<1>2. CASE \E s \in Sessions : RecvFails(s)
  BY <1>2, MapStays, BatchStays, Zenon DEF ListenerInv, RecvFails, listenerVars, callerVars, sidecarVars
<1>3. CASE \E s \in Sessions : \E how \in {"broken", "eof"} : StreamEnds(s, how)
  <2>1. PICK s \in Sessions : \E how \in {"broken", "eof"} : StreamEnds(s, how)
    BY <1>3
  <2>2. MapInv'
    BY <2>1, MapStays DEF ListenerInv, StreamEnds, listenerVars, callerVars
  <2> QED
    BY <2>1, <2>2 DEF ListenerInv, BatchInv, StreamEnds, listenerVars
<1>4. CASE \E t \in TxIds : Finalize(t)
  BY <1>4, MapStays, BatchStays DEF ListenerInv, Finalize, listenerVars, callerVars, sessionVars
<1>5. CASE UNCHANGED finalityVars
  BY <1>5, MapStays, BatchStays DEF ListenerInv, finalityVars, listenerVars, callerVars, sessionVars, sidecarVars
<1> QED
  BY <1>1, <1>2, <1>3, <1>4, <1>5

LEMMA ListenerInvariant == ListenerSpec => []ListenerInv
<1>1. ListenerInv /\ [ListenerNext]_finalityVars => ListenerInv'
  <2> SUFFICES ASSUME ListenerInv, [ListenerNext]_finalityVars PROVE ListenerInv'
    OBVIOUS
  <2>1. ASSUME NEW c \in Callers,
               Register(c) \/ Subscribe(c) \/ GiveUp(c) \/ Unregister(c) \/ Receive(c)
        PROVE  ListenerInv'
    BY <2>1, RegisterInv, UnregisterInv, CallerInv
  <2>2. CASE StartStep
    BY <2>2, StartInv, Zenon
  <2>3. ASSUME NEW s \in Sessions, SendStep(s) \/ RecvStep(s) \/ ConnectStep(s) PROVE ListenerInv'
    BY <2>3, SendInv, ConnectInv, reconcileInv, RecvEventsInv, OtherInv DEF RecvStep, ConnectStep
  <2> QED
    BY <2>1, <2>2, <2>3, OtherInv DEF ListenerNext
<1> QED
  BY <1>1, ListenerInitInv, PTL DEF ListenerSpec

-----------------------------------------------------------------------------
\* AtMostOneEvent for any callers and sessions: Handle never blocks on the
\* channel of a caller, which holds one event.
THEOREM OneEventEach == ListenerSpec => []AtMostOneEvent
<1>1. ListenerInv => AtMostOneEvent
  BY DEF ListenerInv, MapInv
<1> QED
  BY <1>1, ListenerInvariant, PTL

\* PendingIsAwaited for any callers and sessions: the map neither leaks entries
\* nor keeps one that was answered.
THEOREM NoStaleEntry == ListenerSpec => []PendingIsAwaited
<1>1. ListenerInv => PendingIsAwaited
  BY DEF ListenerInv, MapInv
<1> QED
  BY <1>1, ListenerInvariant, PTL

\* UnknownIsTimeout for any callers and sessions: reconcile ends no wait early.
THEOREM UnknownOnlyByTimeout == ListenerSpec => []UnknownIsTimeout
<1>1. ListenerInv => UnknownIsTimeout
  BY DEF ListenerInv, MapInv
<1> QED
  BY <1>1, ListenerInvariant, PTL

=============================================================================
