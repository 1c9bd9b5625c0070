----------------------------- MODULE Submitter ------------------------------
(***************************************************************************)
(* network.Submitter and the Orderer clients it broadcasts through: one    *)
(* persistent stream per orderer, recreated when it fails, shared by the   *)
(* callers under the orderer's mutex and torn down by Close.               *)
(***************************************************************************)
EXTENDS Integers, Sequences, FiniteSets

CONSTANTS
  Callers,  \* goroutines that each call Submit once, with an envelope of their own
  N,        \* number of orderers
  Window,   \* envelopes gRPC buffers on a stream before Send blocks
  Closing,  \* whether the client calls Close
  NoOne     \* the mutex is free

ASSUME SubmitterAssumption ==
  N \in Nat \ {0} /\ Window \in Nat \ {0} /\ Closing \in BOOLEAN /\ NoOne \notin Callers

Orderers == 1..N

VARIABLES
  parent,   \* the Submitter's context is canceled
  ctx,      \* ctx[c]: the context of c's Submit is canceled
  pc, at, errs, result,  \* the Submit of each caller, at[c] the orderer it is at
  mu, closed, stream,    \* fields of each Orderer; stream[o] = 0 stands for nil
  streams,  \* streams[o]: every stream opened to o, in order
  cpc,      \* the Close of each orderer
  timedOut  \* timedOut[o]: it stopped waiting for the replies

callVars == <<ctx, pc, at, errs, result>>
closeVars == <<cpc, timedOut>>
vars == <<parent, callVars, mu, closed, stream, streams, closeVars>>

\* done: the stream's context is done; up: the transport still carries it; reader:
\* the goroutine that reads the replies runs; half: the client half-closed it;
\* sent: the envelopes written; read: how many of them the orderer has read.
NewStream == [done |-> FALSE, up |-> TRUE, broken |-> FALSE, reader |-> TRUE,
              half |-> FALSE, sent |-> <<>>, read |-> 0]

Init ==
  /\ parent = FALSE /\ ctx = [c \in Callers |-> FALSE]
  /\ pc = [c \in Callers |-> "idle"] /\ at = [c \in Callers |-> 1]
  /\ errs = [c \in Callers |-> 0] /\ result = [c \in Callers |-> "none"]
  /\ mu = [o \in Orderers |-> NoOne] /\ closed = [o \in Orderers |-> FALSE]
  /\ stream = [o \in Orderers |-> 0] /\ streams = [o \in Orderers |-> <<>>]
  /\ cpc = [o \in Orderers |-> "idle"] /\ timedOut = [o \in Orderers |-> FALSE]

Live(s) == ~s.done /\ s.up
CancelStream(o, i) == IF i = 0 THEN streams[o] ELSE [streams[o] EXCEPT ![i].done = TRUE]

-----------------------------------------------------------------------------
\* Submit.

\* The verdict once every orderer was tried.
Verdict_AnyOrderer(e) == IF e = N THEN "error" ELSE "nil"
Verdict(e) == IF e * 2 > N THEN "error" ELSE "nil"

Submit(c) ==
  /\ pc[c] = "idle" /\ pc' = [pc EXCEPT ![c] = "broadcast"]
  /\ UNCHANGED <<parent, ctx, at, errs, result, mu, closed, stream, streams, closeVars>>

PackageFails(c) ==
  /\ pc[c] = "idle"
  /\ pc' = [pc EXCEPT ![c] = "done"] /\ result' = [result EXCEPT ![c] = "error"]
  /\ UNCHANGED <<parent, ctx, at, errs, mu, closed, stream, streams, closeVars>>

\* Broadcast to the orderer at hand returned, with an error iff failed: Submit
\* counts it and goes to the next.
Returned(c, failed) ==
  LET e == errs[c] + (IF failed THEN 1 ELSE 0)
  IN /\ errs' = [errs EXCEPT ![c] = e]
     /\ IF at[c] < N
        THEN /\ at' = [at EXCEPT ![c] = @ + 1] /\ pc' = [pc EXCEPT ![c] = "broadcast"]
             /\ UNCHANGED result
        ELSE /\ pc' = [pc EXCEPT ![c] = "done"]
             /\ result' = [result EXCEPT ![c] = Verdict(e)] /\ UNCHANGED at

-----------------------------------------------------------------------------
\* Broadcast.

BroadcastCanceled(c) ==
  /\ pc[c] = "broadcast" /\ ctx[c] /\ Returned(c, TRUE)
  /\ UNCHANGED <<parent, ctx, mu, closed, stream, streams, closeVars>>

Lock(c) ==
  /\ pc[c] = "broadcast" /\ mu[at[c]] = NoOne
  /\ mu' = [mu EXCEPT ![at[c]] = c] /\ pc' = [pc EXCEPT ![c] = "ensure"]
  /\ UNCHANGED <<parent, ctx, at, errs, result, closed, stream, streams, closeVars>>

Unlock(c) == mu' = [mu EXCEPT ![at[c]] = NoOne]

\* ensureStream, of the first attempt and of the retry.
Ensuring(c) == pc[c] \in {"ensure", "retry"}
Then(c) == [pc EXCEPT ![c] = IF @ = "ensure" THEN "send" ELSE "resend"]
Reusable(o) == stream[o] # 0 /\ ~streams[o][stream[o]].done

EnsureClosed(c) ==
  /\ Ensuring(c) /\ closed[at[c]]
  /\ Unlock(c) /\ Returned(c, TRUE)
  /\ UNCHANGED <<parent, ctx, closed, stream, streams, closeVars>>

EnsureReuses(c) ==
  /\ Ensuring(c) /\ ~closed[at[c]] /\ Reusable(at[c])
  /\ pc' = Then(c)
  /\ UNCHANGED <<parent, ctx, at, errs, result, mu, closed, stream, streams, closeVars>>

EnsureOpens_NoReuse(c) ==
  LET o == at[c]
  IN /\ Ensuring(c) /\ ~closed[o] /\ ~parent
     /\ streams' = [streams EXCEPT ![o] = Append(@, NewStream)]
     /\ stream' = [stream EXCEPT ![o] = Len(streams[o]) + 1]
     /\ pc' = Then(c)
     /\ UNCHANGED <<parent, ctx, at, errs, result, mu, closed, closeVars>>

EnsureOpens(c) ==
  LET o == at[c]
  IN /\ Ensuring(c) /\ ~closed[o] /\ ~Reusable(o) /\ ~parent
     /\ streams' = [streams EXCEPT ![o] = Append(CancelStream(o, stream[o]), NewStream)]
     /\ stream' = [stream EXCEPT ![o] = Len(streams[o]) + 1]
     /\ pc' = Then(c)
     /\ UNCHANGED <<parent, ctx, at, errs, result, mu, closed, closeVars>>

EnsureFails_KeepsLock(c) ==
  LET o == at[c]
  IN /\ Ensuring(c) /\ ~closed[o] /\ ~Reusable(o)
     /\ streams' = [streams EXCEPT ![o] = CancelStream(o, stream[o])]
     /\ stream' = [stream EXCEPT ![o] = 0]
     /\ UNCHANGED mu /\ Returned(c, TRUE)
     /\ UNCHANGED <<parent, ctx, closed, closeVars>>

EnsureFails(c) ==
  LET o == at[c]
  IN /\ Ensuring(c) /\ ~closed[o] /\ ~Reusable(o)
     /\ streams' = [streams EXCEPT ![o] = CancelStream(o, stream[o])]
     /\ stream' = [stream EXCEPT ![o] = 0]
     /\ Unlock(c) /\ Returned(c, TRUE)
     /\ UNCHANGED <<parent, ctx, closed, closeVars>>

\* Send returns once the envelope is in the stream's buffer; it blocks while the
\* buffer is full and fails once the stream is over.
Sending(c) == pc[c] \in {"send", "resend"}

SendSucceeds(c) ==
  LET o == at[c] s == streams[o][stream[o]]
  IN /\ Sending(c) /\ Live(s) /\ Len(s.sent) - s.read < Window
     /\ streams' = [streams EXCEPT ![o][stream[o]].sent = Append(@, c)]
     /\ Unlock(c) /\ Returned(c, FALSE)
     /\ UNCHANGED <<parent, ctx, closed, stream, closeVars>>

\* The first failure cancels the stream and retries; the second is returned.
SendFails(c) ==
  LET o == at[c]
  IN /\ Sending(c) /\ ~Live(streams[o][stream[o]])
     /\ IF pc[c] = "send"
        THEN /\ streams' = [streams EXCEPT ![o] = CancelStream(o, stream[o])]
             /\ pc' = [pc EXCEPT ![c] = "retry"] /\ UNCHANGED <<at, errs, result, mu>>
        ELSE Unlock(c) /\ Returned(c, TRUE) /\ UNCHANGED streams
     /\ UNCHANGED <<parent, ctx, closed, stream, closeVars>>

CallerStep(c) ==
  \/ Submit(c) \/ PackageFails(c) \/ BroadcastCanceled(c) \/ Lock(c)
  \/ EnsureClosed(c) \/ EnsureReuses(c) \/ EnsureOpens(c) \/ EnsureFails(c)
  \/ SendSucceeds(c) \/ SendFails(c)

-----------------------------------------------------------------------------
\* The reply reader: it leaves when the stream is over, canceling its context.

ReaderExits(o, i) ==
  /\ streams[o][i].reader /\ ~Live(streams[o][i])
  /\ streams' = [streams EXCEPT ![o][i].reader = FALSE, ![o][i].done = TRUE]
  /\ UNCHANGED <<parent, callVars, mu, closed, stream, closeVars>>

-----------------------------------------------------------------------------
\* Close, of every orderer in parallel.

CloseMarks_NoLock(o) ==
  /\ Closing /\ cpc[o] = "idle"
  /\ closed' = [closed EXCEPT ![o] = TRUE]
  /\ cpc' = [cpc EXCEPT ![o] = IF stream[o] = 0 THEN "cancel" ELSE "closesend"]
  /\ UNCHANGED <<parent, callVars, mu, stream, streams, timedOut>>

\* The critical section: mark the orderer closed and take its stream.  From here on
\* stream[o] cannot change.
CloseMarks(o) ==
  /\ Closing /\ cpc[o] = "idle" /\ mu[o] = NoOne
  /\ closed' = [closed EXCEPT ![o] = TRUE]
  /\ cpc' = [cpc EXCEPT ![o] = IF stream[o] = 0 THEN "cancel" ELSE "closesend"]
  /\ UNCHANGED <<parent, callVars, mu, stream, streams, timedOut>>

CloseSend(o) ==
  /\ cpc[o] = "closesend" /\ cpc' = [cpc EXCEPT ![o] = "wait"]
  /\ streams' = [streams EXCEPT ![o][stream[o]].half = TRUE]
  /\ UNCHANGED <<parent, callVars, mu, closed, stream, timedOut>>

CloseWaits_NotAtAll(o) ==
  /\ cpc[o] = "wait" /\ cpc' = [cpc EXCEPT ![o] = "cancel"]
  /\ UNCHANGED <<parent, callVars, mu, closed, stream, streams, timedOut>>

CloseWaits(o) ==
  /\ cpc[o] = "wait" /\ ~streams[o][stream[o]].reader
  /\ cpc' = [cpc EXCEPT ![o] = "cancel"]
  /\ UNCHANGED <<parent, callVars, mu, closed, stream, streams, timedOut>>

CloseTimesOut(o) ==
  /\ cpc[o] = "wait" /\ streams[o][stream[o]].reader
  /\ cpc' = [cpc EXCEPT ![o] = "cancel"] /\ timedOut' = [timedOut EXCEPT ![o] = TRUE]
  /\ UNCHANGED <<parent, callVars, mu, closed, stream, streams>>

\* Cancel the stream and close the connection, which ends all streams on it.
CloseConn(o) ==
  /\ cpc[o] = "cancel" /\ cpc' = [cpc EXCEPT ![o] = "done"]
  /\ streams' = [streams EXCEPT ![o] = [i \in DOMAIN streams[o] |->
       [streams[o][i] EXCEPT !.up = FALSE, !.done = streams[o][i].done \/ i = stream[o]]]]
  /\ UNCHANGED <<parent, callVars, mu, closed, stream, timedOut>>

CloseStep(o) ==
  CloseMarks(o) \/ CloseSend(o) \/ CloseWaits(o) \/ CloseTimesOut(o) \/ CloseConn(o)

-----------------------------------------------------------------------------
\* The environment: contexts, the orderers and the connections to them.

CancelSubmit(c) ==
  /\ ~ctx[c] /\ pc[c] # "done" /\ ctx' = [ctx EXCEPT ![c] = TRUE]
  /\ UNCHANGED <<parent, pc, at, errs, result, mu, closed, stream, streams, closeVars>>

CancelParent ==
  /\ ~parent /\ parent' = TRUE
  /\ streams' = [o \in Orderers |-> [i \in DOMAIN streams[o] |->
                   [streams[o][i] EXCEPT !.done = TRUE]]]
  /\ UNCHANGED <<callVars, mu, closed, stream, closeVars>>

OrdererReads(o, i) ==
  LET s == streams[o][i]
  IN /\ Live(s) /\ s.read < Len(s.sent)
     /\ streams' = [streams EXCEPT ![o][i].read = @ + 1]
     /\ UNCHANGED <<parent, callVars, mu, closed, stream, closeVars>>

\* Having read everything up to the half-close, the orderer ends the stream.
OrdererEnds(o, i) ==
  LET s == streams[o][i]
  IN /\ Live(s) /\ s.half /\ s.read = Len(s.sent)
     /\ streams' = [streams EXCEPT ![o][i].up = FALSE]
     /\ UNCHANGED <<parent, callVars, mu, closed, stream, closeVars>>

StreamBreaks(o, i) ==
  /\ Live(streams[o][i])
  /\ streams' = [streams EXCEPT ![o][i].up = FALSE, ![o][i].broken = TRUE]
  /\ UNCHANGED <<parent, callVars, mu, closed, stream, closeVars>>

\* Every call has returned and every goroutine left.
Finished ==
  /\ \A c \in Callers : pc[c] = "done"
  /\ Closing => \A o \in Orderers :
                  cpc[o] = "done" /\ \A i \in DOMAIN streams[o] : ~streams[o][i].reader
  /\ UNCHANGED vars

OrdererStep(o) == \E i \in DOMAIN streams[o] : OrdererReads(o, i) \/ OrdererEnds(o, i)
ReaderStep(o) == \E i \in DOMAIN streams[o] : ReaderExits(o, i)

Next ==
  \/ \E c \in Callers : CallerStep(c) \/ CancelSubmit(c)
  \/ \E o \in Orderers :
       CloseStep(o) \/ OrdererStep(o) \/ ReaderStep(o)
         \/ \E i \in DOMAIN streams[o] : StreamBreaks(o, i)
  \/ CancelParent \/ Finished

Spec == Init /\ [][Next]_vars

\* The client's goroutines run, and a mutex that is free again and again is had;
\* timers expire.  Close is called (CloseMarks) at some point.
ClientSpec ==
  /\ Spec
  /\ \A c \in Callers : SF_vars(CallerStep(c))
  /\ \A o \in Orderers : WF_vars(ReaderStep(o)) /\ SF_vars(CloseStep(o))

\* Besides, the orderers keep reading what is sent to them.
FairSpec == ClientSpec /\ \A o \in Orderers : WF_vars(OrdererStep(o))

-----------------------------------------------------------------------------
\* Properties.

\* ensureStream never leaves two usable streams to one orderer, of which one would
\* leak with its reader; and after Close none is left, nor opened later.
OneLiveStream ==
  \A o \in Orderers :
    /\ \A i, j \in DOMAIN streams[o] :
         ~streams[o][i].done /\ ~streams[o][j].done => i = j
    /\ cpc[o] = "done" => \A i \in DOMAIN streams[o] : ~Live(streams[o][i])

\* gRPC forbids Send concurrently with, or after, CloseSend on one stream: the
\* closed flag, tested under the mutex, keeps them apart.
NoSendWithCloseSend ==
  \A c \in Callers : Sending(c) => cpc[at[c]] = "idle"

\* Close: "a short-lived client does not lose its last envelopes".  Unless the wait
\* timed out, the stream broke or the context was canceled, the orderer has read
\* all that was written to the stream.
CloseDrains ==
  \A o \in Orderers :
    cpc[o] = "done" /\ stream[o] # 0 /\ ~timedOut[o] /\ ~parent
      /\ ~streams[o][stream[o]].broken
    => streams[o][stream[o]].read = Len(streams[o][stream[o]].sent)

\* Copies of c's envelope written to o, on whatever stream.
Written(c, o) ==
  Cardinality(UNION {{<<i, n>> : n \in {m \in DOMAIN streams[o][i].sent :
                                          streams[o][i].sent[m] = c}} : i \in DOMAIN streams[o]})

\* Submit "returns an error if more than half errored": nil means that at least half
\* of the orderers were sent the envelope, and sent it once: the retry of Broadcast
\* never repeats a write that succeeded.
NilMeansHalf ==
  \A c \in Callers :
    result[c] = "nil" => 2 * Cardinality({o \in Orderers : Written(c, o) = 1}) >= N

\* Every Submit and every Close returns, whoever holds the mutex and however the
\* streams fail.
AllReturn ==
  /\ \A c \in Callers : <>(pc[c] = "done")
  /\ \A o \in Orderers : <>(cpc[o] = "done")
=============================================================================
