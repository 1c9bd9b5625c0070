-------------------------- MODULE SubmitterProofs ---------------------------
(***************************************************************************)
(* The safety of the orderer client's stream handling for any number of    *)
(* callers and orderers and any window: what the mutex and the closed flag *)
(* protect, and what Close may conclude from a reader that has left.       *)
(***************************************************************************)
EXTENDS Submitter, TLAPS, FiniteSetTheorems

Stream == [done : BOOLEAN, up : BOOLEAN, broken : BOOLEAN, reader : BOOLEAN,
           half : BOOLEAN, sent : Seq(Callers), read : Nat]

\* The callers that hold a mutex.
Section == {"ensure", "retry", "send", "resend"}

TypeInv ==
  /\ parent \in BOOLEAN
  /\ pc \in [Callers -> Section \cup {"idle", "broadcast", "done"}]
  /\ at \in [Callers -> Orderers]
  /\ mu \in [Orderers -> Callers \cup {NoOne}] /\ closed \in [Orderers -> BOOLEAN]
  /\ stream \in [Orderers -> Nat] /\ streams \in [Orderers -> Seq(Stream)]
  /\ cpc \in [Orderers -> {"idle", "closesend", "wait", "cancel", "done"}]
  /\ timedOut \in [Orderers -> BOOLEAN]

\* A caller between Lock and Unlock holds the mutex, and sends only on a stream of an
\* orderer that is not closed.
CallInv(c) ==
  /\ pc[c] \in Section => mu[at[c]] = c
  /\ Sending(c) => stream[at[c]] # 0 /\ ~closed[at[c]]

\* Of an orderer with streams ss, stream n, the closed flag cl, and Close at cp, which
\* has timed out or not; par: the parent context is canceled.
\* Only the current stream may be alive; a reader that left means a stream that is
\* over; and a stream that is over without a fault was read to its end.
OrdererInv(ss, n, cl, cp, t, par) ==
  /\ n \in 0..Len(ss)
  /\ cl <=> cp # "idle"
  /\ cp \in {"closesend", "wait"} => n # 0
  /\ \A i \in 1..Len(ss) :
       /\ ~ss[i].done => i = n
       /\ ~ss[i].reader => ss[i].done
       /\ cp = "done" => ~ss[i].up
  /\ n # 0 =>
       /\ ~Live(ss[n]) => \/ ss[n].broken \/ par \/ cp = "done"
                          \/ ss[n].read = Len(ss[n].sent)
       /\ cp \in {"cancel", "done"} /\ ~t /\ ~par /\ ~ss[n].broken
            => ss[n].read = Len(ss[n].sent)

OrdererInvOf(o) == OrdererInv(streams[o], stream[o], closed[o], cpc[o], timedOut[o], parent)

Inv == TypeInv /\ (\A c \in Callers : CallInv(c)) /\ \A o \in Orderers : OrdererInvOf(o)
-----------------------------------------------------------------------------
LEMMA InitInv == Init => Inv
<1> SUFFICES ASSUME Init PROVE Inv
  OBVIOUS
<1>1. <<>> \in Seq(Stream) /\ Len(<< >>) = 0
  OBVIOUS
<1>2. TypeInv
  <2>1. 1 \in Orderers
    BY SubmitterAssumption DEF Orderers
  <2> QED
    BY <1>1, <2>1, Zenon DEF Init, TypeInv
<1>3. \A c \in Callers : CallInv(c)
  BY DEF Init, CallInv, Section, Sending
<1>4. \A o \in Orderers : OrdererInvOf(o)
  <2> SUFFICES ASSUME NEW o \in Orderers PROVE OrdererInvOf(o)
    OBVIOUS
  <2>1. streams[o] = <<>> /\ stream[o] = 0 /\ closed[o] = FALSE /\ cpc[o] = "idle"
    BY DEF Init
  <2> QED
    BY <1>1, <2>1 DEF OrdererInvOf, OrdererInv
<1> QED
  BY <1>2, <1>3, <1>4 DEF Inv

\* A step that changes nothing but the streams and the fields of orderer o.
LEMMA OthersKeep ==
  ASSUME Inv, NEW o \in Orderers, parent' = parent, OrdererInvOf(o)',
         \A p \in Orderers \ {o} :
           /\ streams'[p] = streams[p] /\ stream'[p] = stream[p] /\ closed'[p] = closed[p]
           /\ cpc'[p] = cpc[p] /\ timedOut'[p] = timedOut[p]
  PROVE  \A p \in Orderers : OrdererInvOf(p)'
<1> SUFFICES ASSUME NEW p \in Orderers, p # o PROVE OrdererInvOf(p)'
  OBVIOUS
<1>1. OrdererInvOf(p)
  BY DEF Inv
<1> QED
  BY <1>1 DEF OrdererInvOf

\* A step of caller c within its critical section leaves the other callers' alone.
LEMMA SectionStep ==
  ASSUME Inv, NEW c \in Callers, pc[c] \in Section, closed' = closed, CallInv(c)',
         \A p \in Orderers \ {at[c]} : mu'[p] = mu[p] /\ stream'[p] = stream[p],
         \A d \in Callers \ {c} : pc'[d] = pc[d] /\ at'[d] = at[d]
  PROVE  \A d \in Callers : CallInv(d)'
<1> SUFFICES ASSUME NEW d \in Callers, d # c PROVE CallInv(d)'
  OBVIOUS
<1>1. CallInv(c) /\ CallInv(d) /\ at[c] \in Orderers /\ at[d] \in Orderers
  BY DEF Inv, TypeInv
<1>2. pc'[d] = pc[d] /\ at'[d] = at[d]
  OBVIOUS
<1>3. Sending(d) => pc[d] \in Section
  BY DEF Sending, Section
<1>4. CASE pc[d] \in Section
  <2>1. at[d] # at[c]
    BY <1>1, <1>4 DEF CallInv
  <2> QED
    BY <1>1, <1>2, <2>1 DEF CallInv, Sending
<1>5. CASE pc[d] \notin Section
  BY <1>2, <1>3, <1>5 DEF CallInv, Sending
<1> QED
  BY <1>4, <1>5

\* A step that leaves the callers alone, and closes no orderer whose mutex is held.
LEMMA CallersStay ==
  ASSUME Inv, pc' = pc, at' = at, mu' = mu, stream' = stream,
         \A o \in Orderers : closed'[o] = closed[o] \/ mu[o] = NoOne
  PROVE  \A c \in Callers : CallInv(c)'
<1> SUFFICES ASSUME NEW c \in Callers PROVE CallInv(c)'
  OBVIOUS
<1>1. CallInv(c) /\ at[c] \in Orderers
  BY DEF Inv, TypeInv
<1>2. Sending(c) => mu[at[c]] = c
  BY <1>1 DEF CallInv, Sending, Section
<1>3. Sending(c) => closed'[at[c]] = closed[at[c]]
  BY <1>1, <1>2, SubmitterAssumption
<1> QED
  BY <1>1, <1>3 DEF CallInv, Sending

\* Broadcast has returned: the caller is outside.
LEMMA ReturnedCaller ==
  ASSUME TypeInv, NEW c \in Callers, NEW failed \in BOOLEAN, Returned(c, failed)
  PROVE  /\ pc' \in [Callers -> Section \cup {"idle", "broadcast", "done"}]
         /\ at' \in [Callers -> Orderers]
         /\ pc'[c] \notin Section /\ ~Sending(c)'
         /\ \A d \in Callers \ {c} : pc'[d] = pc[d] /\ at'[d] = at[d]
<1>1. CASE at[c] < N
  <2>1. at' = [at EXCEPT ![c] = at[c] + 1] /\ pc' = [pc EXCEPT ![c] = "broadcast"]
    BY <1>1 DEF Returned
  <2>2. at[c] + 1 \in Orderers
    BY <1>1, SubmitterAssumption DEF TypeInv, Orderers
  <2> QED
    BY <2>1, <2>2 DEF TypeInv, Section, Sending
<1>2. CASE ~(at[c] < N)
  <2>1. at' = at /\ pc' = [pc EXCEPT ![c] = "done"]
    BY <1>2 DEF Returned
  <2> QED
    BY <2>1 DEF TypeInv, Section, Sending
<1> QED
  BY <1>1, <1>2

-----------------------------------------------------------------------------
\* The streams of one orderer.

LEMMA Update ==
  ASSUME NEW ss \in Seq(Stream), NEW i \in 1..Len(ss), NEW r \in Stream
  PROVE  /\ [ss EXCEPT ![i] = r] \in Seq(Stream) /\ Len([ss EXCEPT ![i] = r]) = Len(ss)
         /\ [ss EXCEPT ![i] = r][i] = r
         /\ \A j \in 1..Len(ss) : j # i => [ss EXCEPT ![i] = r][j] = ss[j]
OBVIOUS

\* Stream i becomes r, which is no more alive than before.
LEMMA StreamChanges ==
  ASSUME NEW ss \in Seq(Stream), NEW i \in 1..Len(ss), NEW r \in Stream,
         NEW n, NEW cl, NEW cp, NEW t, NEW par, OrdererInv(ss, n, cl, cp, t, par),
         ss[i].done => r.done, ~r.reader => r.done, r.up => ss[i].up,
         (i = n /\ ~Live(r)) =>
           r.broken \/ par \/ cp = "done" \/ r.read = Len(r.sent),
         (i = n /\ cp \in {"cancel", "done"} /\ ~t /\ ~par /\ ~r.broken) =>
           r.read = Len(r.sent)
  PROVE  OrdererInv([ss EXCEPT ![i] = r], n, cl, cp, t, par)
<1> DEFINE tt == [ss EXCEPT ![i] = r]
<1>1. /\ tt \in Seq(Stream) /\ Len(tt) = Len(ss) /\ tt[i] = r
      /\ \A j \in 1..Len(ss) : j # i => tt[j] = ss[j]
  BY Update
<1> HIDE DEF tt
<1>2. /\ n \in 0..Len(tt) /\ (cl <=> cp # "idle") /\ (cp \in {"closesend", "wait"} => n # 0)
  BY <1>1 DEF OrdererInv
<1>3. ASSUME NEW j \in 1..Len(tt)
      PROVE  /\ ~tt[j].done => j = n
             /\ ~tt[j].reader => tt[j].done
             /\ cp = "done" => ~tt[j].up
  <2>1. j \in 1..Len(ss)
    BY <1>1
  <2>2. /\ ~ss[j].done => j = n
        /\ ~ss[j].reader => ss[j].done
        /\ cp = "done" => ~ss[j].up
    BY <2>1 DEF OrdererInv
  <2>3. CASE j = i
    BY <1>1, <2>2, <2>3
  <2>4. CASE j # i
    BY <1>1, <2>1, <2>2, <2>4
  <2> QED
    BY <2>3, <2>4
<1>4. ASSUME n # 0
      PROVE  /\ ~Live(tt[n]) => \/ tt[n].broken \/ par \/ cp = "done"
                                \/ tt[n].read = Len(tt[n].sent)
             /\ cp \in {"cancel", "done"} /\ ~t /\ ~par /\ ~tt[n].broken
                  => tt[n].read = Len(tt[n].sent)
  <2>1. n \in 1..Len(ss)
    BY <1>4 DEF OrdererInv
  <2>2. CASE n = i
    BY <1>1, <2>2
  <2>3. CASE n # i
    <3>1. tt[n] = ss[n]
      BY <1>1, <2>1, <2>3
    <3> QED
      BY <1>4, <3>1 DEF OrdererInv
  <2> QED
    BY <2>2, <2>3
<1> QED
  BY <1>2, <1>3, <1>4 DEF OrdererInv, tt

\* Canceling the current stream of an orderer: then none is alive.
LEMMA CancelCurrent ==
  ASSUME NEW ss \in Seq(Stream), NEW n \in 0..Len(ss),
         \A i \in 1..Len(ss) : ~ss[i].done => i = n,
         \A i \in 1..Len(ss) : ~ss[i].reader => ss[i].done,
         NEW tt, tt = IF n = 0 THEN ss ELSE [ss EXCEPT ![n].done = TRUE]
  PROVE  /\ tt \in Seq(Stream) /\ Len(tt) = Len(ss)
         /\ \A i \in 1..Len(ss) : tt[i].done
<1>1. CASE n = 0
  <2>1. \A i \in 1..Len(ss) : ss[i] \in Stream /\ i # 0
    OBVIOUS
  <2>2. \A i \in 1..Len(ss) : ss[i].done
    BY <1>1, <2>1
  <2> QED
    BY <1>1, <2>2
<1>2. CASE n # 0
  <2> DEFINE r == [ss[n] EXCEPT !.done = TRUE]
  <2>1. n \in 1..Len(ss) /\ ss[n] \in Stream
    BY <1>2
  <2>2. r \in Stream /\ r.done
    BY <2>1, Zenon DEF Stream
  <2>3. tt = [ss EXCEPT ![n] = r]
    BY <1>2
  <2> HIDE DEF r
  <2>4. /\ tt \in Seq(Stream) /\ Len(tt) = Len(ss) /\ tt[n] = r
        /\ \A j \in 1..Len(ss) : j # n => tt[j] = ss[j]
    <3>1. PICK u : u = [ss EXCEPT ![n] = r]
      BY Zenon
    <3>2. /\ u \in Seq(Stream) /\ Len(u) = Len(ss) /\ u[n] = r
          /\ \A j \in 1..Len(ss) : j # n => u[j] = ss[j]
      BY <2>1, <2>2, <3>1, Update
    <3>3. tt = u
      BY <2>3, <3>1, Zenon
    <3> QED
      BY <3>2, <3>3, Zenon
  <2>5. ASSUME NEW i \in 1..Len(ss) PROVE tt[i].done
    <3>1. CASE i = n
      BY <2>2, <2>4, <3>1
    <3>2. CASE i # n
      <4>1. tt[i] = ss[i]
        BY <2>4, <3>2
      <4>2. ss[i].done
        BY <3>2
      <4> QED
        BY <4>1, <4>2
    <3> QED
      BY <3>1, <3>2
  <2> QED
    BY <2>4, <2>5
<1> QED
  BY <1>1, <1>2

-----------------------------------------------------------------------------
\* The callers.

\* A caller outside every critical section moves on; Lock enters one.
LEMMA OutsideInv ==
  ASSUME Inv, NEW c \in Callers,
         Submit(c) \/ PackageFails(c) \/ BroadcastCanceled(c) \/ Lock(c)
  PROVE  Inv'
<1>1. /\ parent' = parent /\ closed' = closed /\ stream' = stream /\ streams' = streams
      /\ cpc' = cpc /\ timedOut' = timedOut
  BY Zenon DEF Submit, PackageFails, BroadcastCanceled, Lock, closeVars
<1>2. \A o \in Orderers : OrdererInvOf(o)'
  BY <1>1 DEF Inv, OrdererInvOf
<1>3. CASE Submit(c) \/ PackageFails(c) \/ BroadcastCanceled(c)
  <2>1. /\ pc' \in [Callers -> Section \cup {"idle", "broadcast", "done"}]
        /\ at' \in [Callers -> Orderers] /\ mu' = mu
        /\ pc'[c] \notin Section /\ ~Sending(c)'
        /\ \A d \in Callers \ {c} : pc'[d] = pc[d] /\ at'[d] = at[d]
    <3>1. CASE Submit(c) \/ PackageFails(c)
      BY <3>1, Zenon DEF Submit, PackageFails, Inv, TypeInv, Sending, Section
    <3>2. CASE BroadcastCanceled(c)
      BY <3>2, ReturnedCaller, Zenon DEF BroadcastCanceled, Inv
    <3> QED
      BY <1>3, <3>1, <3>2
  <2>2. ASSUME NEW d \in Callers PROVE CallInv(d)'
    <3>1. CASE d = c
      BY <2>1, <3>1 DEF CallInv
    <3>2. CASE d # c
      <4>1. CallInv(d) /\ pc'[d] = pc[d] /\ at'[d] = at[d]
        BY <2>1, <3>2 DEF Inv
      <4> QED
        BY <1>1, <2>1, <4>1 DEF CallInv, Sending
    <3> QED
      BY <3>1, <3>2
  <2> QED
    BY <1>1, <1>2, <2>1, <2>2 DEF Inv, TypeInv
<1>4. CASE Lock(c)
  <2>1. /\ mu[at[c]] = NoOne /\ mu' = [mu EXCEPT ![at[c]] = c]
        /\ pc' = [pc EXCEPT ![c] = "ensure"] /\ at' = at
    BY <1>4 DEF Lock
  <2>2. at[c] \in Orderers
    BY DEF Inv, TypeInv
  <2>3. TypeInv'
    BY <1>1, <2>1, <2>2 DEF Inv, TypeInv, Section
  <2>4. ASSUME NEW d \in Callers PROVE CallInv(d)'
    <3>1. CASE d = c
      BY <2>1, <2>2, <3>1 DEF CallInv, Sending, Inv, TypeInv
    <3>2. CASE d # c
      <4>1. CallInv(d) /\ pc'[d] = pc[d] /\ at[d] \in Orderers
        BY <2>1, <3>2 DEF Inv, TypeInv
      <4>2. pc[d] \in Section => at[d] # at[c]
        BY <2>1, <4>1, SubmitterAssumption DEF CallInv
      <4>3. at[d] # at[c] => mu'[at[d]] = mu[at[d]]
        BY <2>1, <4>1 DEF Inv, TypeInv
      <4> QED
        BY <1>1, <2>1, <4>1, <4>2, <4>3 DEF CallInv, Sending
    <3> QED
      BY <3>1, <3>2
  <2> QED
    BY <1>2, <2>3, <2>4 DEF Inv
<1> QED
  BY <1>3, <1>4

\* The caller leaves its critical section and the orderer's streams become ss, with
\* n the current one.
LEMMA UnlockInv ==
  ASSUME Inv, NEW c \in Callers, pc[c] \in Section, Unlock(c),
         NEW failed \in BOOLEAN, Returned(c, failed),
         NEW ss \in Seq(Stream), NEW n \in Nat,
         streams' = [streams EXCEPT ![at[c]] = ss], stream' = [stream EXCEPT ![at[c]] = n],
         parent' = parent, closed' = closed, cpc' = cpc, timedOut' = timedOut,
         OrdererInv(ss, n, closed[at[c]], cpc[at[c]], timedOut[at[c]], parent)
  PROVE  Inv'
<1>1. /\ pc' \in [Callers -> Section \cup {"idle", "broadcast", "done"}]
      /\ at' \in [Callers -> Orderers]
      /\ pc'[c] \notin Section /\ ~Sending(c)'
      /\ \A d \in Callers \ {c} : pc'[d] = pc[d] /\ at'[d] = at[d]
  BY ReturnedCaller DEF Inv
<1>2. at[c] \in Orderers
  BY DEF Inv, TypeInv
<1>3. TypeInv'
  BY <1>1, <1>2 DEF Inv, TypeInv, Unlock
<1>4. /\ streams'[at[c]] = ss /\ stream'[at[c]] = n
      /\ \A p \in Orderers \ {at[c]} :
           streams'[p] = streams[p] /\ stream'[p] = stream[p] /\ mu'[p] = mu[p]
  BY <1>2 DEF Inv, TypeInv, Unlock
<1>5. CallInv(c)'
  BY <1>1 DEF CallInv
<1>6. \A d \in Callers : CallInv(d)'
  BY <1>1, <1>4, <1>5, SectionStep
<1>7. PICK o \in Orderers : o = at[c]
  BY <1>2
<1>8. OrdererInvOf(o)'
  BY <1>4, <1>7 DEF OrdererInvOf
<1>9. \A p \in Orderers : OrdererInvOf(p)'
  BY <1>4, <1>7, <1>8, OthersKeep
<1> QED
  BY <1>3, <1>6, <1>9 DEF Inv

\* The caller stays in its critical section, at v; the streams become ss, with n the
\* current one.
LEMMA WithinInv ==
  ASSUME Inv, NEW c \in Callers, pc[c] \in Section, NEW v \in Section,
         pc' = [pc EXCEPT ![c] = v], at' = at, mu' = mu,
         NEW ss \in Seq(Stream), NEW n \in Nat,
         streams' = [streams EXCEPT ![at[c]] = ss], stream' = [stream EXCEPT ![at[c]] = n],
         parent' = parent, closed' = closed, cpc' = cpc, timedOut' = timedOut,
         v \in {"send", "resend"} => n # 0 /\ ~closed[at[c]],
         OrdererInv(ss, n, closed[at[c]], cpc[at[c]], timedOut[at[c]], parent)
  PROVE  Inv'
<1>1. at[c] \in Orderers /\ CallInv(c)
  BY DEF Inv, TypeInv
<1>2. TypeInv'
  BY <1>1 DEF Inv, TypeInv
<1>3. /\ streams'[at[c]] = ss /\ stream'[at[c]] = n
      /\ \A p \in Orderers \ {at[c]} : streams'[p] = streams[p] /\ stream'[p] = stream[p]
      /\ pc'[c] = v /\ \A d \in Callers \ {c} : pc'[d] = pc[d]
  BY <1>1 DEF Inv, TypeInv
<1>4. CallInv(c)'
  BY <1>1, <1>3 DEF CallInv, Sending
<1>5. \A d \in Callers : CallInv(d)'
  BY <1>3, <1>4, SectionStep
<1>6. PICK o \in Orderers : o = at[c]
  BY <1>1
<1>7. OrdererInvOf(o)'
  BY <1>3, <1>6 DEF OrdererInvOf
<1>8. \A p \in Orderers : OrdererInvOf(p)'
  BY <1>3, <1>6, <1>7, OthersKeep
<1> QED
  BY <1>2, <1>5, <1>8 DEF Inv

\* What an action knows of the orderer whose mutex it holds.
LEMMA Held ==
  ASSUME Inv, NEW c \in Callers
  PROVE  /\ at[c] \in Orderers /\ streams[at[c]] \in Seq(Stream) /\ OrdererInvOf(at[c])
         /\ stream[at[c]] \in 0..Len(streams[at[c]]) /\ stream[at[c]] \in Nat
BY DEF Inv, TypeInv, OrdererInvOf, OrdererInv

LEMMA Canceled ==
  ASSUME Inv, NEW c \in Callers
  PROVE  LET o == at[c]
             tt == CancelStream(o, stream[o])
         IN /\ tt \in Seq(Stream) /\ Len(tt) = Len(streams[o])
            /\ \A i \in 1..Len(streams[o]) : tt[i].done
<1>1. PICK ss, n, tt : ss = streams[at[c]] /\ n = stream[at[c]] /\ tt = CancelStream(at[c], n)
  OBVIOUS
<1>2. /\ ss \in Seq(Stream) /\ n \in 0..Len(ss)
      /\ \A i \in 1..Len(ss) : ~ss[i].done => i = n
      /\ \A i \in 1..Len(ss) : ~ss[i].reader => ss[i].done
  BY <1>1, Held DEF OrdererInvOf, OrdererInv
<1>3. tt = IF n = 0 THEN ss ELSE [ss EXCEPT ![n].done = TRUE]
  BY <1>1 DEF CancelStream
<1>4. tt \in Seq(Stream) /\ Len(tt) = Len(ss) /\ \A i \in 1..Len(ss) : tt[i].done
  BY <1>2, <1>3, CancelCurrent, Zenon
<1> QED
  BY <1>1, <1>4

LEMMA EnsureInv ==
  ASSUME Inv, NEW c \in Callers, EnsureClosed(c) \/ EnsureReuses(c)
  PROVE  Inv'
<1>1. /\ parent' = parent /\ closed' = closed /\ stream' = stream /\ streams' = streams
      /\ cpc' = cpc /\ timedOut' = timedOut /\ pc[c] \in Section
  BY Zenon DEF EnsureClosed, EnsureReuses, closeVars, Ensuring, Section
<1>2. PICK ss \in Seq(Stream), n \in Nat : ss = streams[at[c]] /\ n = stream[at[c]]
  BY Held
<1>3. /\ streams' = [streams EXCEPT ![at[c]] = ss] /\ stream' = [stream EXCEPT ![at[c]] = n]
      /\ OrdererInv(ss, n, closed[at[c]], cpc[at[c]], timedOut[at[c]], parent)
  BY <1>1, <1>2, Held DEF OrdererInvOf, Inv, TypeInv
<1>4. CASE EnsureClosed(c)
  BY <1>1, <1>3, <1>4, UnlockInv, Zenon DEF EnsureClosed
<1>5. CASE EnsureReuses(c)
  <2>1. PICK v \in {"send", "resend"} : pc' = [pc EXCEPT ![c] = v]
    BY <1>5, Zenon DEF EnsureReuses, Then
  <2>2. v \in Section /\ n # 0 /\ ~closed[at[c]] /\ at' = at /\ mu' = mu
    BY <1>2, <1>5 DEF EnsureReuses, Reusable, Section
  <2> QED
    BY <1>1, <1>3, <2>1, <2>2, WithinInv, Zenon
<1> QED
  BY <1>4, <1>5

LEMMA EnsureOpensInv == ASSUME Inv, NEW c \in Callers, EnsureOpens(c) PROVE Inv'
<1> DEFINE o == at[c]
           tt == CancelStream(o, stream[o])
<1>1. /\ tt \in Seq(Stream) /\ Len(tt) = Len(streams[o])
      /\ \A i \in 1..Len(streams[o]) : tt[i].done
  BY Canceled
<1>2. /\ parent' = parent /\ closed' = closed /\ cpc' = cpc /\ timedOut' = timedOut
      /\ pc[c] \in Section /\ at' = at /\ mu' = mu /\ ~closed[o]
      /\ streams' = [streams EXCEPT ![o] = Append(tt, NewStream)]
      /\ stream' = [stream EXCEPT ![o] = Len(streams[o]) + 1]
  BY DEF EnsureOpens, closeVars, Ensuring, Section
<1>3. PICK v \in {"send", "resend"} : pc' = [pc EXCEPT ![c] = v]
  BY Zenon DEF EnsureOpens, Then
<1> HIDE DEF tt
<1>4. NewStream \in Stream /\ ~NewStream.done /\ NewStream.reader /\ NewStream.up
  BY DEF NewStream, Stream
<1> DEFINE n == Len(streams[o]) + 1
<1>5. /\ Append(tt, NewStream) \in Seq(Stream) /\ Len(Append(tt, NewStream)) = n
      /\ Append(tt, NewStream)[n] = NewStream /\ n \in Nat /\ n # 0
      /\ \A i \in 1..n : i = n \/ (i \in 1..Len(tt) /\ Append(tt, NewStream)[i] = tt[i])
  BY <1>1, <1>4
<1>6. PICK ss \in Seq(Stream), m \in Nat : ss = Append(tt, NewStream) /\ m = n
  BY <1>5, Zenon
<1>7. Len(ss) = m /\ ss[m] = NewStream /\ m # 0 /\ \A i \in 1..m : i = m \/ ss[i].done
  BY <1>1, <1>5, <1>6
<1>8. OrdererInv(ss, m, closed[o], cpc[o], timedOut[o], parent)
  <2>1. cpc[o] = "idle"
    BY <1>2, Held DEF OrdererInvOf, OrdererInv
  <2>2. m \in 0..Len(ss) /\ (closed[o] <=> cpc[o] # "idle")
    BY <1>2, <1>7, <2>1
  <2>3. \A i \in 1..Len(ss) : (~ss[i].done => i = m) /\ (~ss[i].reader => ss[i].done)
    BY <1>4, <1>7
  <2>4. Live(ss[m])
    BY <1>4, <1>7 DEF Live
  <2> QED
    BY <2>1, <2>2, <2>3, <2>4 DEF OrdererInv
<1>9. v \in Section /\ (v \in {"send", "resend"} => m # 0 /\ ~closed[o])
  BY <1>2, <1>7 DEF Section
<1> QED
  BY <1>2, <1>3, <1>6, <1>8, <1>9, WithinInv, Zenon

LEMMA EnsureFailsInv == ASSUME Inv, NEW c \in Callers, EnsureFails(c) PROVE Inv'
<1> DEFINE o == at[c]
           tt == CancelStream(o, stream[o])
<1>1. /\ tt \in Seq(Stream) /\ Len(tt) = Len(streams[o])
      /\ \A i \in 1..Len(streams[o]) : tt[i].done
  BY Canceled
<1>2. /\ parent' = parent /\ closed' = closed /\ cpc' = cpc /\ timedOut' = timedOut
      /\ pc[c] \in Section /\ ~closed[o] /\ Unlock(c) /\ Returned(c, TRUE)
      /\ streams' = [streams EXCEPT ![o] = tt]
      /\ stream' = [stream EXCEPT ![o] = 0]
  BY Zenon DEF EnsureFails, closeVars, Ensuring, Section
<1> HIDE DEF tt
<1>3. PICK ss \in Seq(Stream) : ss = tt
  BY <1>1
<1>4. OrdererInv(ss, 0, closed[o], cpc[o], timedOut[o], parent)
  <2>1. cpc[o] = "idle"
    BY <1>2, Held DEF OrdererInvOf, OrdererInv
  <2> QED
    BY <1>1, <1>2, <1>3, <2>1 DEF OrdererInv
<1> QED
  BY <1>2, <1>3, <1>4, UnlockInv, Zenon

LEMMA SendSucceedsInv == ASSUME Inv, NEW c \in Callers, SendSucceeds(c) PROVE Inv'
<1>1. PICK ss, n : ss = streams[at[c]] /\ n = stream[at[c]]
  OBVIOUS
<1>2. /\ ss \in Seq(Stream) /\ n \in 0..Len(ss) /\ n \in Nat
      /\ OrdererInv(ss, n, closed[at[c]], cpc[at[c]], timedOut[at[c]], parent)
  BY <1>1, Held DEF OrdererInvOf
<1>3. Sending(c) /\ pc[c] \in Section /\ Live(ss[n]) /\ Unlock(c) /\ Returned(c, FALSE)
  BY <1>1, Zenon DEF SendSucceeds, Sending, Section
<1>4. n # 0 /\ ~closed[at[c]]
  BY <1>1, <1>3 DEF Inv, CallInv
<1>5. n \in 1..Len(ss) /\ ss[n] \in Stream
  BY <1>2, <1>4
<1>6. PICK r : r = [ss[n] EXCEPT !.sent = Append(ss[n].sent, c)]
  BY Zenon
<1>7. /\ r \in Stream /\ r.done = ss[n].done /\ r.up = ss[n].up /\ r.reader = ss[n].reader
  <2>1. ss[n].sent \in Seq(Callers)
    BY <1>5 DEF Stream
  <2>2. Append(ss[n].sent, c) \in Seq(Callers)
    BY <2>1
  <2> QED
    BY <1>5, <1>6, <2>2, Zenon DEF Stream
<1>8. OrdererInv([ss EXCEPT ![n] = r], n, closed[at[c]], cpc[at[c]], timedOut[at[c]], parent)
  <2>1. cpc[at[c]] = "idle" /\ (~ss[n].reader => ss[n].done)
    BY <1>2, <1>4, <1>5 DEF OrdererInv
  <2>2. Live(r)
    BY <1>3, <1>7 DEF Live
  <2> QED
    BY <1>2, <1>5, <1>7, <2>1, <2>2, StreamChanges
<1>9. PICK tt \in Seq(Stream) : tt = [ss EXCEPT ![n] = r]
  BY <1>2, <1>5, <1>7, Update, Zenon
<1>10. /\ streams' = [streams EXCEPT ![at[c]] = tt] /\ stream' = [stream EXCEPT ![at[c]] = n]
  BY <1>1, <1>6, <1>9 DEF SendSucceeds, Inv, TypeInv
<1>11. parent' = parent /\ closed' = closed /\ cpc' = cpc /\ timedOut' = timedOut
  BY DEF SendSucceeds, closeVars
<1> QED
  BY <1>2, <1>3, <1>8, <1>9, <1>10, <1>11, UnlockInv, Zenon

LEMMA SendFailsInv == ASSUME Inv, NEW c \in Callers, SendFails(c) PROVE Inv'
<1>1. PICK ss, n : ss = streams[at[c]] /\ n = stream[at[c]]
  OBVIOUS
<1>2. /\ ss \in Seq(Stream) /\ n \in 0..Len(ss) /\ n \in Nat
      /\ OrdererInv(ss, n, closed[at[c]], cpc[at[c]], timedOut[at[c]], parent)
  BY <1>1, Held DEF OrdererInvOf
<1>3. Sending(c) /\ pc[c] \in Section /\ ~Live(ss[n])
  BY <1>1 DEF SendFails, Sending, Section
<1>4. n # 0 /\ ~closed[at[c]]
  BY <1>1, <1>3 DEF Inv, CallInv
<1>5. n \in 1..Len(ss) /\ ss[n] \in Stream
  BY <1>2, <1>4
<1>6. parent' = parent /\ closed' = closed /\ cpc' = cpc /\ timedOut' = timedOut
  BY DEF SendFails, closeVars
<1>7. stream' = [stream EXCEPT ![at[c]] = n]
  BY <1>1 DEF SendFails, Inv, TypeInv
<1>8. CASE pc[c] = "send"
  <2>1. PICK r : r = [ss[n] EXCEPT !.done = TRUE]
    BY Zenon
  <2>2. /\ r \in Stream /\ r.done /\ r.up = ss[n].up /\ r.broken = ss[n].broken
        /\ r.read = ss[n].read /\ r.sent = ss[n].sent
    BY <1>5, <2>1, Zenon DEF Stream
  <2>3. OrdererInv([ss EXCEPT ![n] = r], n, closed[at[c]], cpc[at[c]], timedOut[at[c]], parent)
    <3>1. /\ ss[n].broken \/ parent \/ cpc[at[c]] = "done" \/ ss[n].read = Len(ss[n].sent)
          /\ cpc[at[c]] = "idle"
      BY <1>2, <1>3, <1>4 DEF OrdererInv
    <3> QED
      BY <1>2, <1>5, <2>2, <3>1, StreamChanges
  <2>4. PICK tt \in Seq(Stream) : tt = [ss EXCEPT ![n] = r]
    BY <1>2, <1>5, <2>2, Update, Zenon
  <2>5. /\ streams' = [streams EXCEPT ![at[c]] = tt] /\ at' = at /\ mu' = mu
        /\ pc' = [pc EXCEPT ![c] = "retry"]
    BY <1>1, <1>4, <1>8, <2>1, <2>4 DEF SendFails, CancelStream
  <2>6. PICK v \in Section : v = "retry"
    BY DEF Section
  <2> QED
    BY <1>2, <1>3, <1>6, <1>7, <2>3, <2>4, <2>5, <2>6, WithinInv, Zenon
<1>9. CASE pc[c] # "send"
  <2>1. Unlock(c) /\ Returned(c, TRUE) /\ streams' = streams
    BY <1>9, Zenon DEF SendFails
  <2>2. streams' = [streams EXCEPT ![at[c]] = ss]
    BY <1>1, <2>1 DEF Inv, TypeInv
  <2> QED
    BY <1>2, <1>3, <1>6, <1>7, <2>1, <2>2, UnlockInv, Zenon
<1> QED
  BY <1>8, <1>9

-----------------------------------------------------------------------------
\* Close, the readers and the orderers.

\* A step of no caller, of one orderer.
LEMMA OrdererStepInv ==
  ASSUME Inv, NEW o \in Orderers, NEW ss \in Seq(Stream), NEW cl \in BOOLEAN,
         NEW v \in {"idle", "closesend", "wait", "cancel", "done"}, NEW t \in BOOLEAN,
         streams' = [streams EXCEPT ![o] = ss], closed' = [closed EXCEPT ![o] = cl],
         cpc' = [cpc EXCEPT ![o] = v], timedOut' = [timedOut EXCEPT ![o] = t],
         pc' = pc, at' = at, mu' = mu, stream' = stream, parent' = parent,
         cl = closed[o] \/ mu[o] = NoOne,
         OrdererInv(ss, stream[o], cl, v, t, parent)
  PROVE  Inv'
<1>1. TypeInv'
  BY DEF Inv, TypeInv
<1>2. /\ streams'[o] = ss /\ closed'[o] = cl /\ cpc'[o] = v /\ timedOut'[o] = t
      /\ \A p \in Orderers \ {o} :
           /\ streams'[p] = streams[p] /\ closed'[p] = closed[p] /\ cpc'[p] = cpc[p]
           /\ timedOut'[p] = timedOut[p]
  BY DEF Inv, TypeInv
<1>3. \A c \in Callers : CallInv(c)'
  BY <1>2, CallersStay
<1>4. OrdererInvOf(o)'
  BY <1>2 DEF OrdererInvOf
<1>5. \A p \in Orderers : OrdererInvOf(p)'
  BY <1>2, <1>4, OthersKeep, Zenon
<1> QED
  BY <1>1, <1>3, <1>5 DEF Inv

\* Stream i of orderer o becomes r and nothing else happens.
LEMMA StreamStepInv ==
  ASSUME Inv, NEW o \in Orderers, NEW i \in 1..Len(streams[o]), NEW r \in Stream,
         streams' = [streams EXCEPT ![o] = [streams[o] EXCEPT ![i] = r]],
         UNCHANGED <<parent, callVars, mu, closed, stream, closeVars>>,
         streams[o][i].done => r.done, ~r.reader => r.done, r.up => streams[o][i].up,
         (i = stream[o] /\ ~Live(r)) =>
           r.broken \/ parent \/ cpc[o] = "done" \/ r.read = Len(r.sent),
         (i = stream[o] /\ cpc[o] \in {"cancel", "done"} /\ ~timedOut[o] /\ ~parent /\ ~r.broken)
           => r.read = Len(r.sent)
  PROVE  Inv'
<1>1. streams[o] \in Seq(Stream) /\ OrdererInvOf(o)
  BY DEF Inv, TypeInv
<1>2. PICK ss \in Seq(Stream) : ss = [streams[o] EXCEPT ![i] = r]
  BY <1>1, Update, Zenon
<1>3. OrdererInv(ss, stream[o], closed[o], cpc[o], timedOut[o], parent)
  BY <1>1, <1>2, StreamChanges, Zenon DEF OrdererInvOf
<1>4. PICK cl \in BOOLEAN, v \in {"idle", "closesend", "wait", "cancel", "done"}, t \in BOOLEAN :
        cl = closed[o] /\ v = cpc[o] /\ t = timedOut[o]
  BY Zenon DEF Inv, TypeInv
<1>5. /\ closed' = [closed EXCEPT ![o] = cl] /\ cpc' = [cpc EXCEPT ![o] = v]
      /\ timedOut' = [timedOut EXCEPT ![o] = t]
      /\ pc' = pc /\ at' = at /\ mu' = mu /\ stream' = stream /\ parent' = parent
  BY <1>4, Zenon DEF Inv, TypeInv, callVars, closeVars
<1> QED
  BY <1>2, <1>3, <1>4, <1>5, OrdererStepInv

LEMMA StreamsInv ==
  ASSUME Inv, NEW o \in Orderers, NEW i \in DOMAIN streams[o],
         ReaderExits(o, i) \/ OrdererReads(o, i) \/ OrdererEnds(o, i) \/ StreamBreaks(o, i)
  PROVE  Inv'
<1>1. streams[o] \in Seq(Stream) /\ OrdererInvOf(o)
  BY DEF Inv, TypeInv
<1>2. i \in 1..Len(streams[o]) /\ streams[o][i] \in Stream
  BY <1>1
<1>3. PICK s \in Stream : s = streams[o][i]
  BY <1>2
<1>4. /\ ~s.reader => s.done
      /\ (i = stream[o] /\ ~Live(s)) =>
           s.broken \/ parent \/ cpc[o] = "done" \/ s.read = Len(s.sent)
      /\ (i = stream[o] /\ cpc[o] \in {"cancel", "done"} /\ ~timedOut[o] /\ ~parent /\ ~s.broken)
           => s.read = Len(s.sent)
  <2>1. i # 0
    BY <1>2
  <2> QED
    BY <1>1, <1>2, <1>3, <2>1 DEF OrdererInvOf, OrdererInv
<1>5. UNCHANGED <<parent, callVars, mu, closed, stream, closeVars>>
  BY DEF ReaderExits, OrdererReads, OrdererEnds, StreamBreaks
<1>6. CASE ReaderExits(o, i)
  <2>1. PICK r : r = [s EXCEPT !.reader = FALSE, !.done = TRUE]
    OBVIOUS
  <2>2. /\ r \in Stream /\ r.done /\ r.up = s.up /\ r.broken = s.broken
        /\ r.read = s.read /\ r.sent = s.sent
    BY <2>1, Zenon DEF Stream
  <2>3. streams' = [streams EXCEPT ![o] = [streams[o] EXCEPT ![i] = r]] /\ ~Live(s)
    BY <1>1, <1>2, <1>3, <1>6, <2>1, Zenon DEF ReaderExits, Inv, TypeInv
  <2> QED
    BY <1>2, <1>3, <1>4, <1>5, <2>2, <2>3, StreamStepInv, Zenon
<1>7. CASE OrdererReads(o, i)
  <2>1. PICK r : r = [s EXCEPT !.read = s.read + 1]
    BY Zenon
  <2>2. /\ r \in Stream /\ r.done = s.done /\ r.up = s.up /\ r.broken = s.broken
        /\ r.reader = s.reader
    BY <2>1 DEF Stream
  <2>3. /\ streams' = [streams EXCEPT ![o] = [streams[o] EXCEPT ![i] = r]]
        /\ Live(s) /\ s.read < Len(s.sent)
    BY <1>3, <1>7, <2>1 DEF OrdererReads
  <2>4. Live(r) /\ s.read # Len(s.sent)
    <3>1. s.read \in Nat /\ Len(s.sent) \in Nat
      BY DEF Stream
    <3> QED
      BY <2>2, <2>3, <3>1 DEF Live
  <2> QED
    BY <1>2, <1>3, <1>4, <1>5, <2>2, <2>3, <2>4, StreamStepInv, Zenon
<1>8. CASE OrdererEnds(o, i)
  <2>1. PICK r : r = [s EXCEPT !.up = FALSE]
    BY Zenon
  <2>2. /\ r \in Stream /\ r.done = s.done /\ ~r.up /\ r.broken = s.broken
        /\ r.reader = s.reader /\ r.read = s.read /\ r.sent = s.sent
    BY <2>1, Zenon DEF Stream
  <2>3. /\ streams' = [streams EXCEPT ![o] = [streams[o] EXCEPT ![i] = r]]
        /\ s.read = Len(s.sent)
    BY <1>3, <1>8, <2>1 DEF OrdererEnds
  <2> QED
    BY <1>2, <1>3, <1>4, <1>5, <2>2, <2>3, StreamStepInv, Zenon
<1>9. CASE StreamBreaks(o, i)
  <2>1. PICK r : r = [s EXCEPT !.up = FALSE, !.broken = TRUE]
    OBVIOUS
  <2>2. r \in Stream /\ r.done = s.done /\ ~r.up /\ r.broken /\ r.reader = s.reader
    BY <2>1, Zenon DEF Stream
  <2>3. streams' = [streams EXCEPT ![o] = [streams[o] EXCEPT ![i] = r]]
    BY <1>1, <1>2, <1>3, <1>9, <2>1, Zenon DEF StreamBreaks, Inv, TypeInv
  <2> QED
    BY <1>2, <1>3, <1>4, <1>5, <2>2, <2>3, StreamStepInv, Zenon
<1> QED
  BY <1>6, <1>7, <1>8, <1>9

\* The steps of Close that leave the streams alone.
LEMMA CloseInv ==
  ASSUME Inv, NEW o \in Orderers, CloseMarks(o) \/ CloseWaits(o) \/ CloseTimesOut(o)
  PROVE  Inv'
<1>1. PICK ss \in Seq(Stream), n \in Nat, t \in BOOLEAN, par \in BOOLEAN :
        ss = streams[o] /\ n = stream[o] /\ t = timedOut[o] /\ par = parent
  BY DEF Inv, TypeInv
<1>2. OrdererInv(ss, n, closed[o], cpc[o], t, par)
  BY <1>1 DEF Inv, OrdererInvOf
<1>3. /\ streams' = [streams EXCEPT ![o] = ss] /\ pc' = pc /\ at' = at /\ mu' = mu
      /\ stream' = stream /\ parent' = parent
  BY <1>1, Zenon DEF CloseMarks, CloseWaits, CloseTimesOut, callVars, Inv, TypeInv
<1>4. CASE CloseMarks(o)
  <2>1. PICK v \in {"cancel", "closesend"} : v = IF n = 0 THEN "cancel" ELSE "closesend"
    OBVIOUS
  <2>2. /\ closed' = [closed EXCEPT ![o] = TRUE] /\ cpc' = [cpc EXCEPT ![o] = v]
        /\ timedOut' = [timedOut EXCEPT ![o] = t] /\ mu[o] = NoOne /\ cpc[o] = "idle"
    BY <1>1, <1>4, <2>1 DEF CloseMarks, Inv, TypeInv
  <2>3. OrdererInv(ss, n, TRUE, v, t, par)
    BY <1>2, <2>1, <2>2, Zenon DEF OrdererInv
  <2> QED
    BY <1>1, <1>3, <2>2, <2>3, OrdererStepInv
<1>5. CASE CloseWaits(o)
  <2>1. /\ closed' = [closed EXCEPT ![o] = TRUE] /\ cpc' = [cpc EXCEPT ![o] = "cancel"]
        /\ timedOut' = [timedOut EXCEPT ![o] = t] /\ closed[o] /\ closed[o] = TRUE
        /\ cpc[o] = "wait" /\ ~ss[n].reader
    BY <1>1, <1>2, <1>5 DEF CloseWaits, OrdererInv, Inv, TypeInv
  <2>2. n # 0 /\ n \in 1..Len(ss)
    BY <1>2, <2>1 DEF OrdererInv
  <2>3. ~Live(ss[n])
    BY <1>2, <2>1, <2>2 DEF OrdererInv, Live
  <2>4. ss[n].broken \/ par \/ ss[n].read = Len(ss[n].sent)
    BY <1>2, <2>1, <2>2, <2>3 DEF OrdererInv
  <2>5. OrdererInv(ss, n, TRUE, "cancel", t, par)
    BY <1>2, <2>1, <2>4, Zenon DEF OrdererInv
  <2> QED
    BY <1>1, <1>3, <2>1, <2>5, OrdererStepInv
<1>6. CASE CloseTimesOut(o)
  <2>1. /\ closed' = [closed EXCEPT ![o] = TRUE] /\ cpc' = [cpc EXCEPT ![o] = "cancel"]
        /\ timedOut' = [timedOut EXCEPT ![o] = TRUE] /\ closed[o] = TRUE /\ cpc[o] = "wait"
    BY <1>1, <1>2, <1>6 DEF CloseTimesOut, OrdererInv, Inv, TypeInv
  <2>2. OrdererInv(ss, n, TRUE, "cancel", TRUE, par)
    BY <1>2, <2>1, Zenon DEF OrdererInv
  <2> QED
    BY <1>1, <1>3, <2>1, <2>2, OrdererStepInv
<1> QED
  BY <1>4, <1>5, <1>6

LEMMA CloseSendInv == ASSUME Inv, NEW o \in Orderers, CloseSend(o) PROVE Inv'
<1>1. PICK ss \in Seq(Stream), n \in Nat, t \in BOOLEAN, par \in BOOLEAN :
        ss = streams[o] /\ n = stream[o] /\ t = timedOut[o] /\ par = parent
  BY DEF Inv, TypeInv
<1>2. OrdererInv(ss, n, closed[o], cpc[o], t, par) /\ cpc[o] = "closesend"
  BY <1>1 DEF Inv, OrdererInvOf, CloseSend
<1>3. closed[o] = TRUE /\ n # 0 /\ n \in 1..Len(ss)
  BY <1>2 DEF OrdererInv, Inv, TypeInv
<1>4. PICK r : r = [ss[n] EXCEPT !.half = TRUE]
  BY Zenon
<1>5. /\ r \in Stream /\ r.done = ss[n].done /\ r.up = ss[n].up /\ r.broken = ss[n].broken
      /\ r.reader = ss[n].reader /\ r.read = ss[n].read /\ r.sent = ss[n].sent
  <2>1. ss[n] \in Stream
    BY <1>3
  <2> QED
    BY <1>4, <2>1, Zenon DEF Stream
<1>6. PICK tt \in Seq(Stream) : tt = [ss EXCEPT ![n] = r]
  BY <1>3, <1>5, Update, Zenon
<1>7. OrdererInv(tt, n, TRUE, "closesend", t, par)
  <2>1. /\ ~ss[n].reader => ss[n].done
        /\ ~Live(ss[n]) => ss[n].broken \/ par \/ ss[n].read = Len(ss[n].sent)
        /\ Live(r) = Live(ss[n])
    BY <1>2, <1>3, <1>5 DEF OrdererInv, Live
  <2> QED
    BY <1>2, <1>3, <1>5, <1>6, <2>1, StreamChanges, Zenon
<1>8. OrdererInv(tt, n, TRUE, "wait", t, par)
  BY <1>7 DEF OrdererInv
<1>9. /\ streams' = [streams EXCEPT ![o] = tt] /\ closed' = [closed EXCEPT ![o] = TRUE]
      /\ cpc' = [cpc EXCEPT ![o] = "wait"] /\ timedOut' = [timedOut EXCEPT ![o] = t]
      /\ pc' = pc /\ at' = at /\ mu' = mu /\ stream' = stream /\ parent' = parent
  BY <1>1, <1>3, <1>4, <1>6, Zenon DEF CloseSend, callVars, Inv, TypeInv
<1> QED
  BY <1>1, <1>3, <1>8, <1>9, OrdererStepInv

LEMMA CloseConnInv == ASSUME Inv, NEW o \in Orderers, CloseConn(o) PROVE Inv'
<1>1. PICK ss \in Seq(Stream), n \in Nat, t \in BOOLEAN, par \in BOOLEAN :
        ss = streams[o] /\ n = stream[o] /\ t = timedOut[o] /\ par = parent
  BY DEF Inv, TypeInv
<1>2. OrdererInv(ss, n, closed[o], cpc[o], t, par) /\ cpc[o] = "cancel"
  BY <1>1 DEF Inv, OrdererInvOf, CloseConn
<1> DEFINE tt == [i \in 1..Len(ss) |-> [ss[i] EXCEPT !.up = FALSE, !.done = ss[i].done \/ i = n]]
<1>3. ASSUME NEW i \in 1..Len(ss)
      PROVE  /\ tt[i] \in Stream /\ ~tt[i].up /\ tt[i].done = (ss[i].done \/ i = n)
             /\ tt[i].broken = ss[i].broken /\ tt[i].reader = ss[i].reader
             /\ tt[i].read = ss[i].read /\ tt[i].sent = ss[i].sent
  <2>1. ss[i] \in Stream
    OBVIOUS
  <2> QED
    BY <2>1, Zenon DEF Stream
<1>4. tt \in Seq(Stream) /\ Len(tt) = Len(ss)
  <2>1. \A i \in 1..Len(ss) :
          [ss[i] EXCEPT !.up = FALSE, !.done = ss[i].done \/ i = n] \in Stream
    BY <1>3
  <2>2. Len(ss) \in Nat
    OBVIOUS
  <2>3. tt \in [1..Len(ss) -> Stream]
    BY <2>1
  <2> HIDE DEF tt
  <2> QED
    BY <2>2, <2>3
<1>5. streams' = [streams EXCEPT ![o] = tt]
  <2>1. DOMAIN streams[o] = 1..Len(ss)
    BY <1>1
  <2> QED
    BY <1>1, <2>1 DEF CloseConn
<1> HIDE DEF tt
<1>6. closed[o] = TRUE /\ n \in 0..Len(ss)
  BY <1>2 DEF OrdererInv, Inv, TypeInv
<1>7. OrdererInv(tt, n, TRUE, "done", t, par)
  <2>1. ASSUME NEW i \in 1..Len(tt)
        PROVE  (~tt[i].done => i = n) /\ (~tt[i].reader => tt[i].done) /\ ~tt[i].up
    <3>1. i \in 1..Len(ss)
      BY <1>4
    <3>2. (~ss[i].done => i = n) /\ (~ss[i].reader => ss[i].done)
      BY <1>2, <3>1 DEF OrdererInv
    <3> QED
      BY <1>3, <3>1, <3>2, Zenon
  <2>2. ASSUME n # 0, ~t, ~par, ~tt[n].broken PROVE tt[n].read = Len(tt[n].sent)
    <3>1. n \in 1..Len(ss)
      BY <1>6, <2>2
    <3>2. tt[n].broken = ss[n].broken /\ tt[n].read = ss[n].read /\ tt[n].sent = ss[n].sent
      BY <1>3, <3>1
    <3>3. ss[n].read = Len(ss[n].sent)
      BY <1>2, <2>2, <3>2 DEF OrdererInv
    <3> QED
      BY <3>2, <3>3
  <2>3. n \in 0..Len(tt)
    BY <1>4, <1>6, Zenon
  <2> QED
    BY <2>1, <2>2, <2>3 DEF OrdererInv
<1>8. /\ closed' = [closed EXCEPT ![o] = TRUE] /\ cpc' = [cpc EXCEPT ![o] = "done"]
      /\ timedOut' = [timedOut EXCEPT ![o] = t]
      /\ pc' = pc /\ at' = at /\ mu' = mu /\ stream' = stream /\ parent' = parent
  BY <1>1, <1>6 DEF CloseConn, callVars, Inv, TypeInv
<1>9. PICK uu \in Seq(Stream) : uu = tt
  BY <1>4
<1> QED
  BY <1>1, <1>5, <1>6, <1>7, <1>8, <1>9, OrdererStepInv

LEMMA CancelParentInv == ASSUME Inv, CancelParent PROVE Inv'
<1>1. /\ parent' = TRUE /\ pc' = pc /\ at' = at /\ mu' = mu /\ closed' = closed
      /\ stream' = stream /\ cpc' = cpc /\ timedOut' = timedOut
  BY DEF CancelParent, callVars, closeVars
<1>2. ASSUME NEW o \in Orderers
      PROVE  streams'[o] \in Seq(Stream) /\ OrdererInvOf(o)'
  <2>1. PICK ss \in Seq(Stream), n \in Nat : ss = streams[o] /\ n = stream[o]
    BY DEF Inv, TypeInv
  <2>2. OrdererInv(ss, n, closed[o], cpc[o], timedOut[o], parent)
    BY <2>1 DEF Inv, OrdererInvOf
  <2> DEFINE tt == [i \in 1..Len(ss) |-> [ss[i] EXCEPT !.done = TRUE]]
  <2>3. ASSUME NEW i \in 1..Len(ss) PROVE tt[i] \in Stream /\ tt[i].done /\ tt[i].up = ss[i].up
    <3>1. ss[i] \in Stream
      OBVIOUS
    <3> QED
      BY <3>1, Zenon DEF Stream
  <2>4. tt \in Seq(Stream) /\ Len(tt) = Len(ss)
    <3>1. Len(ss) \in Nat /\ tt \in [1..Len(ss) -> Stream]
      BY <2>3
    <3> QED
      BY <3>1
  <2>5. streams'[o] = tt
    <3>1. DOMAIN streams[o] = 1..Len(ss)
      BY <2>1
    <3> QED
      BY <2>1, <3>1 DEF CancelParent
  <2> HIDE DEF tt
  <2>6. OrdererInv(tt, n, closed[o], cpc[o], timedOut[o], TRUE)
    <3>1. \A i \in 1..Len(tt) : tt[i].done /\ (cpc[o] = "done" => ~tt[i].up)
      BY <2>2, <2>3, <2>4 DEF OrdererInv
    <3> QED
      BY <2>2, <2>4, <3>1 DEF OrdererInv
  <2> QED
    BY <1>1, <2>1, <2>4, <2>5, <2>6, Zenon DEF OrdererInvOf
<1>3. streams' \in [Orderers -> Seq(Stream)]
  BY <1>2, Zenon DEF CancelParent
<1>4. TypeInv'
  BY <1>1, <1>3 DEF Inv, TypeInv
<1>5. \A c \in Callers : CallInv(c)'
  BY <1>1, CallersStay
<1> QED
  BY <1>2, <1>4, <1>5 DEF Inv

LEMMA Invariant == Spec => []Inv
<1>1. Inv /\ [Next]_vars => Inv'
  <2> SUFFICES ASSUME Inv, [Next]_vars PROVE Inv'
    OBVIOUS
  <2>1. ASSUME NEW c \in Callers, CallerStep(c) PROVE Inv'
    BY <2>1, OutsideInv, EnsureInv, EnsureOpensInv, EnsureFailsInv, SendSucceedsInv, SendFailsInv
       DEF CallerStep
  <2>2. ASSUME UNCHANGED <<parent, pc, at, mu, closed, stream, streams, closeVars>> PROVE Inv'
    <3>1. TypeInv'
      BY <2>2 DEF Inv, TypeInv, closeVars
    <3>2. \A c \in Callers : CallInv(c)'
      BY <2>2, CallersStay, Zenon
    <3>3. \A o \in Orderers : OrdererInvOf(o)'
      BY <2>2, Zenon DEF Inv, OrdererInvOf, closeVars
    <3> QED
      BY <3>1, <3>2, <3>3 DEF Inv
  <2>3. ASSUME NEW c \in Callers, CancelSubmit(c) PROVE Inv'
    BY <2>2, <2>3 DEF CancelSubmit
  <2>4. ASSUME NEW o \in Orderers, CloseStep(o) PROVE Inv'
    BY <2>4, CloseInv, CloseSendInv, CloseConnInv DEF CloseStep
  <2>5. ASSUME NEW o \in Orderers,
               \/ OrdererStep(o) \/ ReaderStep(o)
               \/ \E i \in DOMAIN streams[o] : StreamBreaks(o, i)
        PROVE  Inv'
    BY <2>5, StreamsInv DEF OrdererStep, ReaderStep
  <2>6. CASE Finished \/ UNCHANGED vars
    BY <2>2, <2>6 DEF Finished, vars, callVars
  <2> QED
    BY <2>1, <2>3, <2>4, <2>5, <2>6, CancelParentInv DEF Next
<1> QED
  BY <1>1, InitInv, PTL DEF Spec

-----------------------------------------------------------------------------
\* NoSendWithCloseSend for any callers and orderers.
THEOREM SendsPrecedeClose == Spec => []NoSendWithCloseSend
<1>1. Inv => NoSendWithCloseSend
  <2> SUFFICES ASSUME Inv, NEW c \in Callers, Sending(c) PROVE cpc[at[c]] = "idle"
    BY DEF NoSendWithCloseSend
  <2>1. ~closed[at[c]]
    BY DEF Inv, CallInv
  <2> QED
    BY <2>1, Held DEF OrdererInvOf, OrdererInv
<1> QED
  BY <1>1, Invariant, PTL

\* OneLiveStream for any callers and orderers, however often streams fail.
THEOREM NoStreamLeaks == Spec => []OneLiveStream
<1>1. Inv => OneLiveStream
  <2> SUFFICES ASSUME Inv, NEW o \in Orderers
               PROVE  /\ \A i, j \in DOMAIN streams[o] :
                           ~streams[o][i].done /\ ~streams[o][j].done => i = j
                      /\ cpc[o] = "done" => \A i \in DOMAIN streams[o] : ~Live(streams[o][i])
    BY DEF OneLiveStream
  <2>1. DOMAIN streams[o] = 1..Len(streams[o])
    BY DEF Inv, TypeInv
  <2> QED
    BY <2>1 DEF Inv, OrdererInvOf, OrdererInv, Live
<1> QED
  BY <1>1, Invariant, PTL

\* CloseDrains for any callers and orderers: a reader that left, when nothing failed,
\* means that the orderer has read everything.
THEOREM CloseLosesNothing == Spec => []CloseDrains
<1>1. Inv => CloseDrains
  BY DEF Inv, OrdererInvOf, OrdererInv, CloseDrains
<1> QED
  BY <1>1, Invariant, PTL

-----------------------------------------------------------------------------
\* Counting the orderers written to.

\* The places of c's envelope on the streams to o; Written is their number.
Copies(c, o) ==
  UNION {{<<i, n>> : n \in {m \in DOMAIN streams[o][i].sent : streams[o][i].sent[m] = c}} :
           i \in DOMAIN streams[o]}

WrittenTo(c) == {o \in Orderers : Written(c, o) = 1}

\* The orderers Submit has tried failed or were written to, once; the others were not
\* written to at all.
CountInv(c) ==
  /\ errs[c] \in Nat
  /\ pc[c] # "done" =>
       /\ \A o \in Orderers : o >= at[c] => Copies(c, o) = {}
       /\ Cardinality(WrittenTo(c)) + errs[c] >= at[c] - 1
  /\ result[c] = "nil" =>
       pc[c] = "done" /\ 2 * Cardinality(WrittenTo(c)) >= N

CountType == errs = [c \in Callers |-> errs[c]] /\ result = [c \in Callers |-> result[c]]

Counted == CountType /\ \A c \in Callers : CountInv(c)

\* A step that writes to no stream; it may open one.
NothingSent ==
  \A o \in Orderers :
    /\ DOMAIN streams[o] \subseteq DOMAIN streams'[o]
    /\ \A i \in DOMAIN streams'[o] :
         streams'[o][i].sent = IF i \in DOMAIN streams[o] THEN streams[o][i].sent ELSE <<>>

LEMMA InCopies ==
  ASSUME NEW c, NEW o, NEW x
  PROVE  x \in Copies(c, o) <=>
           \E i \in DOMAIN streams[o] : \E n \in DOMAIN streams[o][i].sent :
             streams[o][i].sent[n] = c /\ x = <<i, n>>
BY DEF Copies

LEMMA InCopiesNext ==
  ASSUME NEW c, NEW o, NEW x
  PROVE  x \in Copies(c, o)' <=>
           \E i \in DOMAIN streams'[o] : \E n \in DOMAIN streams'[o][i].sent :
             streams'[o][i].sent[n] = c /\ x = <<i, n>>
BY DEF Copies

LEMMA CopiesStay ==
  ASSUME NothingSent, NEW c \in Callers, NEW o \in Orderers
  PROVE  Copies(c, o)' = Copies(c, o)
<1>1. ASSUME NEW x, x \in Copies(c, o) PROVE x \in Copies(c, o)'
  <2>1. PICK i \in DOMAIN streams[o] : \E n \in DOMAIN streams[o][i].sent :
             streams[o][i].sent[n] = c /\ x = <<i, n>>
    BY <1>1, InCopies
  <2>2. i \in DOMAIN streams'[o] /\ streams'[o][i].sent = streams[o][i].sent
    BY DEF NothingSent
  <2> QED
    BY <2>1, <2>2, InCopiesNext
<1>2. ASSUME NEW x, x \in Copies(c, o)' PROVE x \in Copies(c, o)
  <2>1. PICK i \in DOMAIN streams'[o] : \E n \in DOMAIN streams'[o][i].sent :
             streams'[o][i].sent[n] = c /\ x = <<i, n>>
    BY <1>2, InCopiesNext
  <2>2. streams'[o][i].sent = IF i \in DOMAIN streams[o] THEN streams[o][i].sent ELSE <<>>
    BY DEF NothingSent
  <2>3. i \in DOMAIN streams[o] /\ streams'[o][i].sent = streams[o][i].sent
    <3>1. DOMAIN << >> = {}
      OBVIOUS
    <3> QED
      BY <2>1, <2>2, <3>1
  <2> QED
    BY <2>1, <2>3, InCopies
<1> QED
  BY <1>1, <1>2

LEMMA WrittenIsCount ==
  ASSUME NEW c, NEW o PROVE Written(c, o) = Cardinality(Copies(c, o))
BY DEF Written, Copies

\* The orderers are finitely many, and so are those written to.
LEMMA WrittenToFinite ==
  ASSUME NEW c
  PROVE  IsFiniteSet(WrittenTo(c)) /\ Cardinality(WrittenTo(c)) \in Nat
<1>1. IsFiniteSet(Orderers)
  BY SubmitterAssumption, FS_Interval DEF Orderers
<1>2. WrittenTo(c) \in SUBSET Orderers
  BY DEF WrittenTo
<1>3. IsFiniteSet(WrittenTo(c))
  BY <1>1, <1>2, FS_Subset
<1> QED
  BY <1>3, FS_CardinalityType

LEMMA WrittenToStays ==
  ASSUME NothingSent, NEW c \in Callers PROVE WrittenTo(c)' = WrittenTo(c)
<1>1. \A o \in Orderers : Written(c, o)' = Written(c, o)
  BY CopiesStay, Zenon DEF Written, Copies
<1> QED
  BY <1>1 DEF WrittenTo

\* A caller that does not move keeps its count.
LEMMA CountStays ==
  ASSUME NEW c \in Callers, CountInv(c), WrittenTo(c)' = WrittenTo(c),
         \A o \in Orderers : Copies(c, o)' = Copies(c, o),
         errs'[c] = errs[c], at'[c] = at[c], result'[c] = result[c],
         pc'[c] # "done" => pc[c] # "done", pc[c] = "done" => pc'[c] = "done"
  PROVE  CountInv(c)'
BY DEF CountInv

\* The orderer at hand was written to, or its failure is counted.
LEMMA ReturnedCounts ==
  ASSUME Inv, NEW c \in Callers, CountType, CountInv(c), NEW failed \in BOOLEAN,
         Returned(c, failed), pc[c] # "done",
         \A o \in Orderers : o # at[c] => Copies(c, o)' = Copies(c, o),
         Cardinality(WrittenTo(c)') = Cardinality(WrittenTo(c)) + (IF failed THEN 0 ELSE 1)
  PROVE  CountInv(c)'
<1>1. PICK k \in Nat, e \in Nat : k = Cardinality(WrittenTo(c)) /\ e = errs[c]
  BY WrittenToFinite DEF CountInv
<1>2. k + e >= at[c] - 1 /\ at[c] \in 1..N /\ N \in Nat
  BY <1>1, SubmitterAssumption, Zenon DEF CountInv, Inv, TypeInv, Orderers
<1>3. PICK f \in Nat, m \in Nat : /\ f = e + (IF failed THEN 1 ELSE 0)
                                  /\ m = k + (IF failed THEN 0 ELSE 1) /\ m + f >= at[c]
  BY <1>2
<1>4. errs'[c] = f /\ Cardinality(WrittenTo(c)') = m
  BY <1>1, <1>3, Zenon DEF Returned, CountType
<1>5. result[c] # "nil"
  BY Zenon DEF CountInv
<1>6. CASE at[c] < N
  <2>1. pc'[c] = "broadcast" /\ at'[c] = at[c] + 1 /\ result'[c] = result[c]
    BY <1>6 DEF Returned, Inv, TypeInv
  <2>2. ASSUME NEW o \in Orderers, o >= at'[c] PROVE Copies(c, o)' = {}
    <3>1. o # at[c] /\ o >= at[c]
      BY <1>2, <2>1, <2>2 DEF Orderers
    <3> QED
      BY <3>1 DEF CountInv
  <2>3. m + f >= at'[c] - 1
    BY <1>2, <1>3, <2>1
  <2> QED
    BY <1>4, <1>5, <2>1, <2>2, <2>3 DEF CountInv
<1>7. CASE ~(at[c] < N)
  <2>1. pc'[c] = "done" /\ result'[c] = Verdict(f)
    BY <1>1, <1>3, <1>7, Zenon DEF Returned, Inv, TypeInv, CountType
  <2>2. m + f >= N
    BY <1>2, <1>3, <1>7
  <2>3. result'[c] = "nil" => 2 * m >= N
    BY <1>2, <2>1, <2>2 DEF Verdict
  <2> QED
    BY <1>4, <2>1, <2>3 DEF CountInv
<1> QED
  BY <1>6, <1>7

LEMMA NothingSentIfSame == ASSUME streams' = streams PROVE NothingSent
BY DEF NothingSent

\* One orderer's streams become ss, with the same envelopes on them.
LEMMA NothingSentAt ==
  ASSUME Inv, NEW o \in Orderers, NEW ss \in Seq(Stream),
         streams' = [streams EXCEPT ![o] = ss], Len(ss) >= Len(streams[o]),
         \A i \in 1..Len(ss) :
           ss[i].sent = IF i \in 1..Len(streams[o]) THEN streams[o][i].sent ELSE <<>>
  PROVE  NothingSent
<1>1. streams[o] \in Seq(Stream) /\ streams'[o] = ss
  BY DEF Inv, TypeInv
<1>2. DOMAIN streams[o] = 1..Len(streams[o]) /\ DOMAIN ss = 1..Len(ss)
  BY <1>1
<1>3. DOMAIN streams[o] \subseteq DOMAIN ss
  BY <1>1, <1>2
<1>4. \A p \in Orderers \ {o} : streams'[p] = streams[p]
  BY DEF Inv, TypeInv
<1> QED
  BY <1>1, <1>2, <1>3, <1>4 DEF NothingSent

\* Stream i of orderer o becomes r.
LEMMA NothingSentOn ==
  ASSUME Inv, NEW o \in Orderers, NEW i \in 1..Len(streams[o]), NEW r \in Stream,
         streams' = [streams EXCEPT ![o] = [streams[o] EXCEPT ![i] = r]],
         r.sent = streams[o][i].sent
  PROVE  NothingSent
<1>1. streams[o] \in Seq(Stream)
  BY DEF Inv, TypeInv
<1>2. PICK ss \in Seq(Stream) : ss = [streams[o] EXCEPT ![i] = r]
  BY <1>1, Update, Zenon
<1>3. /\ Len(ss) = Len(streams[o]) /\ Len(streams[o]) \in Nat
      /\ \A j \in 1..Len(ss) : ss[j].sent = streams[o][j].sent
  BY <1>1, <1>2
<1>4. /\ Len(ss) >= Len(streams[o])
      /\ \A j \in 1..Len(ss) :
           ss[j].sent = IF j \in 1..Len(streams[o]) THEN streams[o][j].sent ELSE <<>>
  BY <1>3
<1>5. streams' = [streams EXCEPT ![o] = ss]
  BY <1>2
<1> QED
  BY <1>4, <1>5, NothingSentAt, Zenon

LEMMA CancelSendsNothing ==
  ASSUME Inv, NEW c \in Callers
  PROVE  \A i \in 1..Len(streams[at[c]]) :
           CancelStream(at[c], stream[at[c]])[i].sent = streams[at[c]][i].sent
<1>1. PICK ss \in Seq(Stream), n \in Nat : /\ ss = streams[at[c]] /\ n = stream[at[c]]
                                           /\ n \in 0..Len(ss)
  BY Held
<1>2. CASE n = 0
  BY <1>1, <1>2 DEF CancelStream
<1>3. CASE n # 0
  <2>1. PICK tt : tt = [ss EXCEPT ![n].done = TRUE]
    BY Zenon
  <2>2. n \in 1..Len(ss) /\ CancelStream(at[c], stream[at[c]]) = tt
    BY <1>1, <1>3, <2>1 DEF CancelStream
  <2>3. ss[n] \in Stream
    BY <2>2
  <2>4. \A i \in 1..Len(ss) : tt[i].sent = ss[i].sent
    BY <2>1, <2>2, <2>3 DEF Stream
  <2> QED
    BY <1>1, <2>2, <2>4
<1> QED
  BY <1>2, <1>3

LEMMA StreamStepsSendNothing ==
  ASSUME Inv, NEW o \in Orderers, NEW i \in DOMAIN streams[o],
         ReaderExits(o, i) \/ OrdererReads(o, i) \/ OrdererEnds(o, i) \/ StreamBreaks(o, i)
  PROVE  NothingSent
<1>1. streams[o] \in Seq(Stream)
  BY DEF Inv, TypeInv
<1>2. i \in 1..Len(streams[o]) /\ streams[o][i] \in Stream
  BY <1>1
<1>3. PICK s \in Stream : s = streams[o][i]
  BY <1>2
<1>4. PICK r : /\ r \in {[s EXCEPT !.reader = FALSE, !.done = TRUE],
                         [s EXCEPT !.read = s.read + 1], [s EXCEPT !.up = FALSE],
                         [s EXCEPT !.up = FALSE, !.broken = TRUE]}
               /\ streams' = [streams EXCEPT ![o] = [streams[o] EXCEPT ![i] = r]]
  <2>1. CASE ReaderExits(o, i)
    BY <1>1, <1>2, <1>3, <2>1, Zenon DEF ReaderExits, Inv, TypeInv
  <2>2. CASE OrdererReads(o, i)
    BY <1>3, <2>2, Zenon DEF OrdererReads
  <2>3. CASE OrdererEnds(o, i)
    BY <1>3, <2>3, Zenon DEF OrdererEnds
  <2>4. CASE StreamBreaks(o, i)
    <3>1. PICK r : r = [s EXCEPT !.up = FALSE, !.broken = TRUE]
      OBVIOUS
    <3>2. streams' = [streams EXCEPT ![o] = [streams[o] EXCEPT ![i] = r]]
      BY <1>1, <1>2, <1>3, <2>4, <3>1, Zenon DEF StreamBreaks, Inv, TypeInv
    <3> QED
      BY <3>1, <3>2, Zenon
  <2> QED
    BY <2>1, <2>2, <2>3, <2>4
<1>5. r \in Stream /\ r.sent = s.sent
  <2>1. CASE r = [s EXCEPT !.reader = FALSE, !.done = TRUE]
    BY <2>1, Zenon DEF Stream
  <2>2. CASE r = [s EXCEPT !.read = s.read + 1]
    BY <2>2 DEF Stream
  <2>3. CASE r = [s EXCEPT !.up = FALSE]
    BY <2>3, Zenon DEF Stream
  <2>4. CASE r = [s EXCEPT !.up = FALSE, !.broken = TRUE]
    BY <2>4, Zenon DEF Stream
  <2> QED
    BY <1>4, <2>1, <2>2, <2>3, <2>4
<1> QED
  BY <1>2, <1>3, <1>4, <1>5, NothingSentOn, Zenon

LEMMA CloseSendsNothing ==
  ASSUME Inv, NEW o \in Orderers, CloseStep(o) PROVE NothingSent
<1>1. CASE CloseMarks(o) \/ CloseWaits(o) \/ CloseTimesOut(o)
  BY <1>1, NothingSentIfSame DEF CloseMarks, CloseWaits, CloseTimesOut
<1>2. CASE CloseSend(o)
  <2>1. OrdererInvOf(o) /\ streams[o] \in Seq(Stream) /\ stream[o] \in Nat
    BY DEF Inv, TypeInv
  <2>2. stream[o] \in 1..Len(streams[o]) /\ cpc[o] = "closesend"
    BY <1>2, <2>1 DEF OrdererInvOf, OrdererInv, CloseSend
  <2>3. PICK s \in Stream : s = streams[o][stream[o]]
    BY <2>1, <2>2
  <2>4. PICK r : r = [s EXCEPT !.half = TRUE]
    BY Zenon
  <2>5. r \in Stream /\ r.sent = s.sent
    BY <2>4, Zenon DEF Stream
  <2>6. streams' = [streams EXCEPT ![o] = [streams[o] EXCEPT ![stream[o]] = r]]
    BY <1>2, <2>3, <2>4 DEF CloseSend
  <2> QED
    BY <2>2, <2>3, <2>5, <2>6, NothingSentOn, Zenon
<1>3. CASE CloseConn(o)
  <2>1. streams[o] \in Seq(Stream)
    BY Zenon DEF Inv, TypeInv
  <2>2. streams'[o] = [i \in DOMAIN streams[o] |->
          [streams[o][i] EXCEPT !.up = FALSE, !.done = streams[o][i].done \/ i = stream[o]]]
    BY <1>3 DEF CloseConn, Inv, TypeInv
  <2>3. DOMAIN streams'[o] = DOMAIN streams[o]
    BY <2>2
  <2>4. ASSUME NEW i \in DOMAIN streams[o] PROVE streams'[o][i].sent = streams[o][i].sent
    <3>1. streams[o][i] \in Stream
      BY <2>1
    <3> QED
      BY <2>2, <3>1 DEF Stream
  <2>5. \A p \in Orderers \ {o} : streams'[p] = streams[p]
    BY <1>3 DEF CloseConn, Inv, TypeInv
  <2> QED
    BY <2>3, <2>4, <2>5 DEF NothingSent
<1> QED
  BY <1>1, <1>2, <1>3 DEF CloseStep

LEMMA CancelParentSendsNothing == ASSUME Inv, CancelParent PROVE NothingSent
<1>1. ASSUME NEW o \in Orderers
      PROVE  /\ DOMAIN streams'[o] = DOMAIN streams[o]
             /\ \A i \in DOMAIN streams[o] : streams'[o][i].sent = streams[o][i].sent
  <2>1. streams[o] \in Seq(Stream)
    BY DEF Inv, TypeInv
  <2>2. streams'[o] = [i \in DOMAIN streams[o] |-> [streams[o][i] EXCEPT !.done = TRUE]]
    BY DEF CancelParent
  <2>3. \A i \in DOMAIN streams[o] : streams[o][i] \in Stream
    BY <2>1
  <2> QED
    BY <2>2, <2>3 DEF Stream
<1> QED
  BY <1>1 DEF NothingSent

-----------------------------------------------------------------------------
\* The count of every caller is kept.

\* A step of caller c, which writes nothing for the others.
LEMMA CountOthers ==
  ASSUME Counted, NEW c \in Callers, CountType', CountInv(c)',
         \A d \in Callers \ {c} :
           /\ \A o \in Orderers : Copies(d, o)' = Copies(d, o)
           /\ errs'[d] = errs[d] /\ at'[d] = at[d] /\ result'[d] = result[d] /\ pc'[d] = pc[d]
  PROVE  Counted'
<1> SUFFICES ASSUME NEW d \in Callers, d # c PROVE CountInv(d)'
  BY DEF Counted
<1>1. ASSUME NEW o \in Orderers PROVE Written(d, o)' = Written(d, o)
  <2>1. Written(d, o)' = Cardinality(Copies(d, o)')
    BY DEF Written, Copies
  <2> QED
    BY <2>1, WrittenIsCount, Zenon
<1>2. WrittenTo(d)' = WrittenTo(d)
  BY <1>1 DEF WrittenTo
<1> QED
  BY <1>2, CountStays, Zenon DEF Counted

\* A step that writes nothing and moves no caller on.
LEMMA CountKept ==
  ASSUME Counted, NothingSent, pc' = pc, at' = at, errs' = errs, result' = result
  PROVE  Counted'
<1> SUFFICES ASSUME NEW d \in Callers PROVE CountInv(d)'
  BY DEF Counted, CountType
<1> QED
  BY CopiesStay, WrittenToStays, CountStays DEF Counted

LEMMA ReturnedOthers ==
  ASSUME Inv, Counted, NEW c \in Callers, NEW failed \in BOOLEAN, Returned(c, failed)
  PROVE  /\ CountType'
         /\ \A d \in Callers \ {c} : /\ errs'[d] = errs[d] /\ at'[d] = at[d]
                                     /\ result'[d] = result[d] /\ pc'[d] = pc[d]
BY Zenon DEF Returned, Counted, CountType, Inv, TypeInv

\* An attempt that fails is counted and writes nothing.
LEMMA FailureCounts ==
  ASSUME Inv, Counted, NEW c \in Callers, pc[c] # "done", Returned(c, TRUE), NothingSent
  PROVE  Counted'
<1>1. WrittenTo(c)' = WrittenTo(c) /\ \A d \in Callers : \A o \in Orderers : Copies(d, o)' = Copies(d, o)
  BY CopiesStay, WrittenToStays
<1>2. Cardinality(WrittenTo(c)') = Cardinality(WrittenTo(c)) + (IF TRUE THEN 0 ELSE 1)
  BY <1>1, WrittenToFinite
<1>3. CountInv(c)'
  BY <1>1, <1>2, ReturnedCounts, Zenon DEF Counted
<1> QED
  BY <1>1, <1>3, ReturnedOthers, CountOthers, Zenon

\* The caller stays in its critical section, or outside, with nothing sent.
LEMMA MovesOn ==
  ASSUME Inv, Counted, NEW c \in Callers, NothingSent, pc[c] # "done",
         NEW v, v # "done", pc' = [pc EXCEPT ![c] = v],
         at' = at, errs' = errs, result' = result
  PROVE  Counted'
<1>1. pc'[c] # "done" /\ \A d \in Callers \ {c} : pc'[d] = pc[d]
  BY Zenon DEF Inv, TypeInv
<1>2. CountInv(c)'
  BY <1>1, CopiesStay, WrittenToStays, CountStays, Zenon DEF Counted
<1> QED
  BY <1>1, <1>2, CopiesStay, CountOthers DEF Counted, CountType

\* A successful Send puts the one copy of c's envelope on the stream.
LEMMA SendCounts == ASSUME Inv, Counted, NEW c \in Callers, SendSucceeds(c) PROVE Counted'
<1>1. PICK o \in Orderers, ss \in Seq(Stream), n \in Nat :
        o = at[c] /\ ss = streams[o] /\ n = stream[o] /\ n \in 0..Len(ss)
  BY Held
<1>2. Sending(c) /\ Returned(c, FALSE) /\ pc[c] # "done"
  BY Zenon DEF SendSucceeds, Sending
<1>3. n \in 1..Len(ss)
  <2>1. Sending(c) /\ CallInv(c)
    BY <1>2, Zenon DEF Inv
  <2>2. n \in Nat /\ n # 0 /\ n \in 0..Len(ss)
    BY <1>1, <2>1, Zenon DEF CallInv, Sending
  <2> QED
    BY <2>2
<1>4. PICK q \in Seq(Callers) : q = ss[n].sent
  <2>1. ss[n] \in Stream
    BY <1>3
  <2> QED
    BY <2>1, Zenon DEF Stream
<1>5. PICK r : r = [ss[n] EXCEPT !.sent = Append(q, c)]
  BY Zenon
<1>6. r.sent = Append(q, c)
  <2>1. ss[n] \in Stream
    BY <1>3
  <2> QED
    BY <1>5, <2>1 DEF Stream
<1>7. PICK tt : tt = [ss EXCEPT ![n] = r]
  BY Zenon
<1>8. streams' = [streams EXCEPT ![o] = tt]
  BY <1>1, <1>4, <1>5, <1>7 DEF SendSucceeds
<1>9. /\ streams'[o] = tt /\ DOMAIN tt = DOMAIN ss /\ tt[n] = r /\ n \in DOMAIN ss
      /\ \A i \in DOMAIN ss : i # n => tt[i] = ss[i]
      /\ \A p \in Orderers \ {o} : streams'[p] = streams[p]
  BY <1>3, <1>7, <1>8 DEF Inv, TypeInv
<1>10. /\ DOMAIN q = 1..Len(q) /\ Len(q) \in Nat /\ DOMAIN Append(q, c) = 1..(Len(q) + 1)
       /\ Append(q, c)[Len(q) + 1] = c /\ \A m \in 1..Len(q) : Append(q, c)[m] = q[m]
  BY <1>4
<1>11. ASSUME NEW d \in Callers, NEW p \in Orderers, d # c \/ p # o
       PROVE  Copies(d, p)' = Copies(d, p)
  <2>1. CASE p # o
    BY <1>9, <2>1 DEF Copies
  <2>2. CASE p = o /\ d # c
    <3>1. ASSUME NEW i \in DOMAIN ss
          PROVE  {m \in DOMAIN tt[i].sent : tt[i].sent[m] = d} =
                 {m \in DOMAIN ss[i].sent : ss[i].sent[m] = d}
      <4>1. CASE i # n
        BY <1>9, <4>1, Zenon
      <4>2. CASE i = n
        <5>1. tt[i].sent = Append(q, c) /\ ss[i].sent = q
          BY <1>4, <1>6, <1>9, <4>2
        <5>2. ASSUME NEW m PROVE (m \in DOMAIN Append(q, c) /\ Append(q, c)[m] = d)
                                   <=> (m \in DOMAIN q /\ q[m] = d)
          <6>1. m \in DOMAIN Append(q, c) <=> m \in DOMAIN q \/ m = Len(q) + 1
            BY <1>10
          <6>2. Len(q) + 1 \notin DOMAIN q
            BY <1>10
          <6> QED
            BY <1>10, <2>2, <6>1, <6>2
        <5> QED
          BY <5>1, <5>2
      <4> QED
        BY <4>1, <4>2, Zenon
    <3> QED
      BY <1>1, <1>9, <2>2, <3>1 DEF Copies
  <2> QED
    BY <1>11, <2>1, <2>2
<1>12. Copies(c, o) = {}
  <2>1. o >= at[c]
    BY <1>1 DEF Orderers
  <2> QED
    BY <1>2, <2>1 DEF Counted, CountInv
<1>13. Copies(c, o)' = {<<n, Len(q) + 1>>}
  <2>1. ASSUME NEW x, x \in Copies(c, o)' PROVE x = <<n, Len(q) + 1>>
    <3>1. PICK i \in DOMAIN ss : \E m \in DOMAIN tt[i].sent : tt[i].sent[m] = c /\ x = <<i, m>>
      BY <1>9, <2>1, InCopiesNext
    <3>2. PICK m \in DOMAIN tt[i].sent : tt[i].sent[m] = c /\ x = <<i, m>>
      BY <3>1
    <3>3. ~(m \in DOMAIN ss[i].sent /\ ss[i].sent[m] = c)
      <4>1. <<i, m>> \notin Copies(c, o)
        BY <1>12
      <4> QED
        BY <1>1, <4>1, InCopies
    <3>4. i = n
      BY <1>9, <3>2, <3>3
    <3>5. m = Len(q) + 1
      <4>1. m \in 1..(Len(q) + 1) /\ Append(q, c)[m] = c
        BY <1>6, <1>9, <1>10, <3>2, <3>4
      <4>2. ~(m \in 1..Len(q) /\ q[m] = c)
        BY <1>4, <1>10, <3>3, <3>4, Zenon
      <4> QED
        BY <1>10, <4>1, <4>2
    <3> QED
      BY <3>2, <3>4, <3>5
  <2>2. <<n, Len(q) + 1>> \in Copies(c, o)'
    <3>1. n \in DOMAIN streams'[o] /\ streams'[o][n].sent = Append(q, c)
      BY <1>6, <1>9
    <3>2. Len(q) + 1 \in DOMAIN Append(q, c)
      BY <1>10
    <3> QED
      BY <1>10, <3>1, <3>2, InCopiesNext
  <2> QED
    BY <2>1, <2>2, Zenon
<1>14. Written(c, o) = 0 /\ Written(c, o)' = 1
  <2>1. Written(c, o)' = Cardinality(Copies(c, o)')
    BY DEF Written, Copies
  <2> QED
    BY <1>12, <1>13, <2>1, WrittenIsCount, FS_EmptySet, FS_Singleton, Zenon
<1>15. WrittenTo(c)' = WrittenTo(c) \cup {o} /\ o \notin WrittenTo(c)
  <2>1. \A p \in Orderers : p # o => Written(c, p)' = Written(c, p)
    BY <1>11, Zenon DEF Written, Copies
  <2> QED
    BY <1>14, <2>1 DEF WrittenTo
<1>16. Cardinality(WrittenTo(c)') = Cardinality(WrittenTo(c)) + (IF FALSE THEN 0 ELSE 1)
  BY <1>15, WrittenToFinite, FS_AddElement, Zenon
<1>17. CountInv(c)'
  BY <1>1, <1>2, <1>11, <1>16, ReturnedCounts, Zenon DEF Counted
<1> QED
  BY <1>2, <1>11, <1>17, ReturnedOthers, CountOthers, Zenon
\* ensureStream and a failed Send cancel the stream at hand and may open another.
LEMMA CanceledSendsNothing ==
  ASSUME Inv, NEW c \in Callers,
         streams' = [streams EXCEPT ![at[c]] = CancelStream(at[c], stream[at[c]])]
           \/ streams' = [streams EXCEPT ![at[c]] =
                            Append(CancelStream(at[c], stream[at[c]]), NewStream)]
  PROVE  NothingSent
<1>1. PICK o \in Orderers, tt \in Seq(Stream) :
        /\ o = at[c] /\ tt = CancelStream(at[c], stream[at[c]]) /\ Len(tt) = Len(streams[o])
        /\ streams[o] \in Seq(Stream)
  BY Held, Canceled
<1>2. \A i \in 1..Len(streams[o]) : tt[i].sent = streams[o][i].sent
  BY <1>1, CancelSendsNothing
<1>3. CASE streams' = [streams EXCEPT ![o] = tt]
  <2>1. Len(tt) >= Len(streams[o])
    BY <1>1
  <2>2. \A i \in 1..Len(tt) :
          tt[i].sent = IF i \in 1..Len(streams[o]) THEN streams[o][i].sent ELSE <<>>
    BY <1>1, <1>2
  <2> QED
    BY <1>3, <2>1, <2>2, NothingSentAt, Zenon
<1>4. CASE streams' = [streams EXCEPT ![o] = Append(tt, NewStream)]
  <2>1. NewStream \in Stream /\ NewStream.sent = <<>>
    BY DEF NewStream, Stream
  <2>2. PICK uu \in Seq(Stream) : uu = Append(tt, NewStream)
    <3>1. \A x \in Stream : Append(tt, x) \in Seq(Stream)
      BY <1>1
    <3> QED
      BY <2>1, <3>1, Zenon
  <2>3. /\ Len(tt) \in Nat /\ Len(uu) = Len(tt) + 1 /\ uu[Len(tt) + 1] = NewStream
        /\ \A i \in 1..Len(tt) : uu[i] = tt[i]
    BY <2>2
  <2>4. Len(uu) >= Len(streams[o])
    BY <1>1, <2>3
  <2>5. ASSUME NEW i \in 1..Len(uu)
        PROVE  uu[i].sent = IF i \in 1..Len(streams[o]) THEN streams[o][i].sent ELSE <<>>
    <3>1. CASE i \in 1..Len(tt)
      BY <1>1, <1>2, <2>3, <3>1, Zenon
    <3>2. CASE i = Len(tt) + 1
      BY <1>1, <2>1, <2>3, <3>2
    <3> QED
      BY <2>3, <3>1, <3>2
  <2> QED
    BY <1>4, <2>2, <2>4, <2>5, NothingSentAt, Zenon
<1> QED
  BY <1>1, <1>3, <1>4, Zenon

LEMMA PackageFailsCounts ==
  ASSUME Inv, Counted, NEW c \in Callers, PackageFails(c) PROVE Counted'
<1>1. /\ streams' = streams /\ errs' = errs /\ at' = at
      /\ pc'[c] = "done" /\ result'[c] = "error"
      /\ \A d \in Callers \ {c} : pc'[d] = pc[d] /\ result'[d] = result[d]
  BY DEF PackageFails, Inv, TypeInv, Counted, CountType
<1>2. CountType'
  BY DEF PackageFails, Counted, CountType
<1>3. CountInv(c)'
  BY <1>1 DEF CountInv, Counted
<1> QED
  BY <1>1, <1>2, <1>3, NothingSentIfSame, CopiesStay, CountOthers, Zenon

LEMMA CallerCounts ==
  ASSUME Inv, Counted, NEW c \in Callers, CallerStep(c) PROVE Counted'
<1>1. CASE Submit(c)
  BY <1>1, NothingSentIfSame, MovesOn, Zenon DEF Submit
<1>2. CASE PackageFails(c)
  BY <1>2, PackageFailsCounts
<1>3. CASE BroadcastCanceled(c)
  BY <1>3, NothingSentIfSame, FailureCounts, Zenon DEF BroadcastCanceled
<1>4. CASE Lock(c)
  BY <1>4, NothingSentIfSame, MovesOn, Zenon DEF Lock
<1>5. CASE EnsureClosed(c)
  BY <1>5, NothingSentIfSame, FailureCounts, Zenon DEF EnsureClosed, Ensuring
<1>6. CASE EnsureReuses(c)
  <2>1. PICK v : v = (IF pc[c] = "ensure" THEN "send" ELSE "resend")
    OBVIOUS
  <2>2. pc' = [pc EXCEPT ![c] = v] /\ v # "done" /\ pc[c] # "done"
    BY <1>6, <2>1 DEF EnsureReuses, Then, Ensuring
  <2> QED
    BY <1>6, <2>2, NothingSentIfSame, MovesOn, Zenon DEF EnsureReuses
<1>7. CASE EnsureOpens(c)
  <2>1. PICK v : v = (IF pc[c] = "ensure" THEN "send" ELSE "resend")
    OBVIOUS
  <2>2. pc' = [pc EXCEPT ![c] = v] /\ v # "done" /\ pc[c] # "done"
    BY <1>7, <2>1 DEF EnsureOpens, Then, Ensuring
  <2>3. NothingSent
    BY <1>7, CanceledSendsNothing, Zenon DEF EnsureOpens
  <2>4. at' = at /\ errs' = errs /\ result' = result
    BY <1>7 DEF EnsureOpens
  <2> QED
    BY <2>2, <2>3, <2>4, MovesOn, Zenon
<1>8. CASE EnsureFails(c)
  <2>1. NothingSent
    BY <1>8, CanceledSendsNothing, Zenon DEF EnsureFails
  <2>2. Returned(c, TRUE) /\ pc[c] # "done"
    BY <1>8, Zenon DEF EnsureFails, Ensuring
  <2> QED
    BY <2>1, <2>2, FailureCounts, Zenon
<1>9. CASE SendSucceeds(c)
  BY <1>9, SendCounts
<1>10. CASE SendFails(c) /\ pc[c] = "send"
  <2>1. NothingSent
    BY <1>10, CanceledSendsNothing DEF SendFails
  <2>2. pc' = [pc EXCEPT ![c] = "retry"] /\ at' = at /\ errs' = errs /\ result' = result
    BY <1>10 DEF SendFails
  <2> QED
    BY <1>10, <2>1, <2>2, MovesOn, Zenon
<1>11. CASE SendFails(c) /\ pc[c] # "send"
  <2>1. Returned(c, TRUE) /\ pc[c] # "done" /\ streams' = streams
    BY <1>11, Zenon DEF SendFails, Sending
  <2> QED
    BY <2>1, NothingSentIfSame, FailureCounts, Zenon
<1> QED
  BY <1>1, <1>2, <1>3, <1>4, <1>5, <1>6, <1>7, <1>8, <1>9, <1>10, <1>11 DEF CallerStep

LEMMA InitCounted == Init => Counted
<1> SUFFICES ASSUME Init PROVE Counted
  OBVIOUS
<1>1. ASSUME NEW c \in Callers PROVE CountInv(c)
  <2>1. errs[c] = 0 /\ at[c] = 1 /\ result[c] = "none"
    BY DEF Init
  <2>2. ASSUME NEW o \in Orderers PROVE Copies(c, o) = {}
    <3>1. DOMAIN streams[o] = {}
      BY DEF Init
    <3> QED
      BY <3>1, InCopies
  <2>3. Cardinality(WrittenTo(c)) + errs[c] >= at[c] - 1
    BY <2>1, WrittenToFinite
  <2> QED
    BY <2>1, <2>2, <2>3 DEF CountInv
<1> QED
  BY <1>1 DEF Init, Counted, CountType

LEMMA NextCounted == ASSUME Inv, Counted, [Next]_vars PROVE Counted'
<1>1. ASSUME NEW c \in Callers, CancelSubmit(c) PROVE Counted'
  BY <1>1, NothingSentIfSame, CountKept DEF CancelSubmit
<1>2. ASSUME NEW o \in Orderers, CloseStep(o) PROVE Counted'
  <2>1. NothingSent
    BY <1>2, CloseSendsNothing, Zenon
  <2>2. callVars' = callVars
    BY <1>2 DEF CloseStep, CloseMarks, CloseSend, CloseWaits, CloseTimesOut, CloseConn
  <2> QED
    BY <2>1, <2>2, CountKept DEF callVars
<1>3. ASSUME NEW o \in Orderers, NEW i \in DOMAIN streams[o],
             ReaderExits(o, i) \/ OrdererReads(o, i) \/ OrdererEnds(o, i) \/ StreamBreaks(o, i)
      PROVE  Counted'
  <2>1. NothingSent
    BY <1>3, StreamStepsSendNothing
  <2>2. callVars' = callVars
    BY <1>3 DEF ReaderExits, OrdererReads, OrdererEnds, StreamBreaks
  <2> QED
    BY <2>1, <2>2, CountKept DEF callVars
<1>4. CASE CancelParent
  <2>1. callVars' = callVars
    BY <1>4 DEF CancelParent
  <2> QED
    BY <1>4, <2>1, CancelParentSendsNothing, CountKept DEF callVars
<1>5. CASE Finished \/ UNCHANGED vars
  BY <1>5, NothingSentIfSame, CountKept DEF Finished, vars, callVars
<1> QED
  BY <1>1, <1>2, <1>3, <1>4, <1>5, CallerCounts DEF Next, OrdererStep, ReaderStep

\* Submit.  A call that returns nil wrote its envelope to at least half of the
\* orderers, exactly once to each of them: the attempts that fail have written
\* nothing, so that the retry of Broadcast repeats no write, and every orderer tried
\* was written to or counted as an error.
THEOREM HalfWereWritten == Spec => []NilMeansHalf
<1>1. Counted => NilMeansHalf
  BY DEF Counted, CountInv, NilMeansHalf, WrittenTo
<1> QED
  BY <1>1, InitCounted, NextCounted, Invariant, PTL DEF Spec
=============================================================================
