------------------------- MODULE SchedulerQueueProofs -------------------------
(***************************************************************************)
(* What becomes of the queued requests of the scheduler: a replaced one   *)
(* was replaced by a newer one, and, as long as nothing kills the worker,  *)
(* none is lost, none is slept on, by a window or at all, there are never  *)
(* too many of them, and a close() that returned has left none behind.     *)
(* Then the counters of SchedulerMetrics, which agree with the futures,    *)
(* the calls and the dispatch stamps of the requests; and which requests   *)
(* the worker takes for a batch: those that are due first, and no more     *)
(* than can be done in time.                                               *)
(***************************************************************************)
EXTENDS SchedulerProofs, WellFoundedInduction

-----------------------------------------------------------------------------
(* What each step does to the futures and to the queue.                     *)

\* A worker pass resolves what it sweeps out of the queue.
LEMMA PassOutcomes ==
  ASSUME TypeOK, NEW est, Write(SweptBook(est)), NEW r \in Requests
  PROVE  /\ outcome'[r] # outcome[r] => outcome'[r].status \in {"EXPIRED", "UNSERVICEABLE"}
         /\ r \in Swept(est) => outcome'[r].status # "PENDING"
<1>1. outcome' = SweptBook(est).outcome
  BY DEF Write
<1> QED BY <1>1, SweptEffect DEF Result, Swept

\* An enqueue() that is turned away resolves itself and what is expired.
LEMMA TurnedAwayOutcomes ==
  ASSUME IInv, NEW q \in Requests, EnqueueLocked(q), ~Admit(q), NEW r \in Requests
  PROVE  /\ outcome'[r] # outcome[r] =>
              outcome'[r].status \in {"EXPIRED", "OUT_OF_ORDER", "OVERLOADED"}
         /\ r \in Live /\ r \notin Live' => outcome'[r].status # "PENDING"
<1>1. HasLock(q) /\ q \notin Live /\ caller[q] = "entering"
  BY LineHead DEF EnqueueLocked, IInv, QueueOK
<1>2. {"OUT_OF_ORDER", "OVERLOADED"} \subseteq Statuses /\ {q} \in SUBSET Requests
  BY DEF Statuses
<1>3. CASE RejectOutOfOrder(q)
  <2>1. IsBook(Book) /\ Book.outcome = outcome
    BY BookTyped DEF IInv
  <2>2. outcome'[r] = IF r = q /\ outcome[r].status = "PENDING"
                        THEN Result("OUT_OF_ORDER", None, None) ELSE outcome[r]
    <3>1. Write(Finish(Book, All({q}, "OUT_OF_ORDER")))
      BY <1>3 DEF RejectOutOfOrder
    <3>2. outcome'[r] = IF r \in {q} /\ Book.outcome[r].status = "PENDING"
                          THEN Result("OUT_OF_ORDER", None, None) ELSE Book.outcome[r]
      BY <1>2, <2>1, <3>1, WriteAllEffect
    <3> QED BY <2>1, <3>2
  <2>3. r \in Live => r \in Live'
    BY <1>1, <1>3 DEF RejectOutOfOrder, Live, Deactivate
  <2> QED BY <2>2, <2>3 DEF Result
<1>4. CASE RejectOverloaded(q)
  <2>1. outcome'[r] = IF r \in {q} /\ ExpiredBook.outcome[r].status = "PENDING"
                        THEN Result("OVERLOADED", None, None) ELSE ExpiredBook.outcome[r]
    <3>1. Write(Finish(ExpiredBook, All({q}, "OVERLOADED"))) /\ IsBook(ExpiredBook)
      BY <1>4, ExpiredEffect DEF RejectOverloaded, ExpiredBook, IInv
    <3> QED BY <1>2, <3>1, WriteAllEffect
  <2>2. r \in Live /\ r \notin Expired => r \in Live'
    BY <1>1, <1>4 DEF RejectOverloaded, Live, Deactivate
  <2> QED BY <2>1, <2>2, ExpiredEffect DEF Result, IInv
<1> QED BY <1>3, <1>4 DEF EnqueueLocked

\* close() cancels what is queued, or leaves it alone.
LEMMA CloseOutcomes ==
  ASSUME TypeOK, NEW c \in Closers, CloseLocked(c), NEW r \in Requests
  PROVE  /\ outcome'[r] # outcome[r] => outcome'[r].status = "CANCELLED"
         /\ r \in Live /\ r \notin Live' => outcome'[r].status # "PENDING"
<1>1. CASE UNCHANGED <<active, bookVars, heap, pendingOf>>
  BY <1>1 DEF bookVars, Live
<1>2. CASE Write(Finish(Book, All(Live, "CANCELLED")))
  <2>1. IsBook(Book) /\ Book.outcome = outcome
    BY BookTyped
  <2>2. Live \in SUBSET Requests /\ "CANCELLED" \in Statuses
    BY DEF Live, TypeOK, Statuses
  <2>3. outcome'[r] = IF r \in Live /\ outcome[r].status = "PENDING"
                        THEN Result("CANCELLED", None, None) ELSE outcome[r]
    <3>1. outcome'[r] = IF r \in Live /\ Book.outcome[r].status = "PENDING"
                          THEN Result("CANCELLED", None, None) ELSE Book.outcome[r]
      BY <1>2, <2>1, <2>2, WriteAllEffect
    <3> QED BY <2>1, <3>1
  <2> QED BY <2>3 DEF Result
<1> QED BY <1>1, <1>2 DEF CloseLocked

\* The steps that touch neither the futures nor the queue.
Elsewhere ==
  \/ \E r \in Requests : Submit(r)
  \/ \E w \in Workers : WakeUp(w) \/ WaitFor(w) \/ BackendCancelled(w)
  \/ Start \/ Tick
  \/ \E c \in Closers : CloseBegin(c) \/ CloseJoins(c)
  \/ UNCHANGED vars

\* They leave alone what the theorems below are about.
LEMMA ElsewhereKeeps ==
  ASSUME Elsewhere
  PROVE  UNCHANGED <<outcome, heap, active, pendingOf, latest>>
<1> USE DEF queueVars, bookVars
<1>1. ASSUME NEW r \in Requests, Submit(r)
      PROVE  UNCHANGED <<outcome, heap, active, pendingOf, latest>>
  BY <1>1 DEF Submit
<1>2. ASSUME NEW w \in Workers, WakeUp(w) \/ WaitFor(w) \/ BackendCancelled(w)
      PROVE  UNCHANGED <<outcome, heap, active, pendingOf, latest>>
  BY <1>2 DEF WakeUp, WaitFor, BackendCancelled
<1>3. ASSUME Start \/ Tick
      PROVE  UNCHANGED <<outcome, heap, active, pendingOf, latest>>
  BY <1>3 DEF Start, Tick
<1>4. ASSUME NEW c \in Closers, CloseBegin(c) \/ CloseJoins(c)
      PROVE  UNCHANGED <<outcome, heap, active, pendingOf, latest>>
  BY <1>4 DEF CloseBegin, CloseJoins, CloseReturn, CloseRaise, CloseCancelled
<1>5. ASSUME UNCHANGED vars
      PROVE  UNCHANGED <<outcome, heap, active, pendingOf, latest>>
  BY <1>5 DEF vars
<1> QED BY <1>1, <1>2, <1>3, <1>4, <1>5 DEF Elsewhere

\* The steps, by what they do to the futures and the queue
LEMMA StepKinds ==
  ASSUME [Next]_vars
  PROVE  \/ Elsewhere
         \/ \E q \in Requests : EnqueueLocked(q)
         \/ \E q \in Requests : Abandon(q)
         \/ \E w \in Workers : WorkerPass(w)
         \/ \E w \in Workers : BackendReturns(w) \/ BackendFails(w)
         \/ \E c \in Closers : CloseLocked(c)
BY DEF Next, Elsewhere, BackendEnds

\* The lock of Python 3.10 and 3.11 moves a worker around its timed wait.
LEMMA WaitForStep ==
  ASSUME IInv, NEW w \in Workers, WaitFor(w)
  PROVE  /\ LockYields /\ wstate[w] \in {"ready", "settling", "waking"}
         /\ \E state \in {"ready", "timed", "waking", "holding"} :
              wstate' = [wstate EXCEPT ![w] = state]
         /\ UNCHANGED <<now, callVars, queueVars, bookVars, wake, batch, served, lifeVars>>
         /\ UNCHANGED lockVars \/ Arrives(w) \/ (HasLock(w) /\ Leaves)
<1>1. CASE WorkerQueues(w)
  <2>1. wstate' = [wstate EXCEPT ![w] = wstate[w]]
    BY <1>1 DEF WorkerQueues, IInv, TypeOK
  <2> QED BY <1>1, <2>1 DEF WaitFor, WorkerQueues
<1>2. CASE WaitBegins(w) \/ WaitEnds(w)
  BY <1>2 DEF WaitFor, WaitBegins, WaitEnds
<1> QED BY <1>1, <1>2 DEF WaitFor

\* A pass makes one thing or another of its worker, which then was ready or had
\* the lock.
LEMMA PassMoves ==
  ASSUME NEW w \in Workers, WorkerPass(w)
  PROVE  /\ wstate[w] \in {"ready", "holding"}
         /\ \E state \in {"done", "idle", "settling", "timed", "executing", "failed"} :
              wstate' = [wstate EXCEPT ![w] = state]
BY DEF WorkerPass, WorkerExit, WorkerIdle, WorkerHold, WorkerDispatch, WorkerCrash, Becomes, Runs

-----------------------------------------------------------------------------
(* Replacement.                                                             *)

\* Orders are drawn from a counter, and callers pass the lock in that order.
OrderOK ==
  /\ \A r \in Requests : caller[r] # "new" => request[r].order < created
  /\ \A r \in Requests : caller[r] = "entering" => \E i \in 1 .. Len(line) : line[i] = r
  /\ \A i, j \in 1 .. Len(line) :
       i < j /\ line[i] \in Requests /\ line[j] \in Requests =>
         request[line[i]].order < request[line[j]].order
  /\ \A r, q \in Requests :
       caller[r] = "submitted" /\ caller[q] = "entering" => request[r].order < request[q].order

\* A caller draws its order before it heads for the lock.
LEMMA OrderOnSubmit ==
  ASSUME IInv, OrderOK, NEW r \in Requests, Submit(r)
  PROVE  OrderOK'
<1>1. PICK x \in Request : x.order = created /\ request' = [request EXCEPT ![r] = x]
  BY SubmitRequest DEF IInv
<1>2. request'[r].order = created /\ \A q \in Requests \ {r} : request'[q] = request[q]
  BY <1>1 DEF IInv, TypeOK
<1>3. /\ caller[r] = "new" /\ caller'[r] = "entering" /\ created' = created + 1
      /\ \A q \in Requests \ {r} : caller'[q] = caller[q]
  BY DEF Submit, IInv, TypeOK
<1>4. /\ Len(line) \in Nat /\ Len(line') = Len(line) + 1 /\ line'[Len(line) + 1] = r
      /\ \A i \in 1 .. Len(line) : line'[i] = line[i]
  BY DEF Submit, Arrives, IInv, TypeOK
<1>5. \A i \in 1 .. Len(line) : line[i] # r
  BY <1>3, ConfigAssumption DEF IInv, LineOK, Asking, ConfigAssumption
<1>6. created \in Nat /\ \A q \in Requests : caller[q] # "new" => request[q].order \in Nat
  BY DEF IInv, TypeOK, CallsOK, Request
<1>7. \A q \in Requests : caller'[q] # "new" => request'[q].order < created'
  BY <1>2, <1>3, <1>6 DEF OrderOK
<1>8. ASSUME NEW q \in Requests, caller'[q] = "entering"
      PROVE  \E i \in 1 .. Len(line') : line'[i] = q
  <2>1. CASE q = r
    BY <1>4, <2>1
  <2>2. CASE q # r
    <3>1. PICK i \in 1 .. Len(line) : line[i] = q
      BY <1>3, <1>8, <2>2 DEF OrderOK
    <3> QED BY <1>4, <3>1
  <2> QED BY <2>1, <2>2
<1>9. ASSUME NEW i \in 1 .. Len(line'), NEW j \in 1 .. Len(line'), i < j,
             line'[i] \in Requests, line'[j] \in Requests
      PROVE  request'[line'[i]].order < request'[line'[j]].order
  <2>1. i \in 1 .. Len(line) /\ line[i] \in Requests /\ line[i] # r /\ line'[i] = line[i]
        /\ request'[line[i]] = request[line[i]]
    BY <1>2, <1>4, <1>5, <1>9
  <2>2. CASE j = Len(line) + 1
    <3>1. caller[line[i]] # "new"
      BY <2>1, ConfigAssumption DEF IInv, LineOK, Asking, ConfigAssumption
    <3> QED BY <1>2, <1>4, <2>1, <2>2, <3>1 DEF OrderOK
  <2>3. CASE j \in 1 .. Len(line)
    BY <1>2, <1>4, <1>5, <1>9, <2>1, <2>3 DEF OrderOK
  <2> QED BY <1>4, <2>2, <2>3
<1>10. ASSUME NEW a \in Requests, NEW b \in Requests,
              caller'[a] = "submitted", caller'[b] = "entering"
       PROVE  request'[a].order < request'[b].order
  <2>1. a # r /\ caller[a] = "submitted" /\ request'[a] = request[a]
    BY <1>2, <1>3, <1>10
  <2>2. CASE b = r
    BY <1>2, <2>1, <2>2 DEF OrderOK
  <2>3. CASE b # r
    BY <1>2, <1>3, <1>10, <2>1, <2>3 DEF OrderOK
  <2> QED BY <2>2, <2>3
<1> QED BY <1>7, <1>8, <1>9, <1>10 DEF OrderOK

\* Whoever has the lock was first to draw among those who wait for it.
LEMMA OrderOnEnqueue ==
  ASSUME IInv, OrderOK, NEW r \in Requests, EnqueueLocked(r)
  PROVE  OrderOK'
<1>1. /\ request' = request /\ created' = created
      /\ caller'[r] = "submitted" /\ \A q \in Requests \ {r} : caller'[q] = caller[q]
  BY DEF EnqueueLocked, IInv, TypeOK
<1>2. /\ line # <<>> /\ Len(line) \in Nat /\ Len(line) >= 1 /\ line[1] = r
      /\ Len(line') = Len(line) - 1
      /\ \A i \in 1 .. Len(line') : line'[i] = line[i + 1] /\ i + 1 \in 1 .. Len(line)
  BY DEF EnqueueLocked, HasLock, Leaves, IInv, TypeOK
<1>3. caller[r] = "entering"
  BY LineHead DEF EnqueueLocked, IInv
<1>4. \A q \in Requests : caller'[q] # "new" => request'[q].order < created'
  BY <1>1, <1>3 DEF OrderOK
<1>5. ASSUME NEW q \in Requests, q # r, caller[q] = "entering"
      PROVE  /\ \E i \in 1 .. Len(line') : line'[i] = q
             /\ request[r].order < request[q].order
  <2>1. PICK i \in 1 .. Len(line) : line[i] = q
    BY <1>5 DEF OrderOK
  <2>2. i # 1 /\ i - 1 \in 1 .. Len(line') /\ (i - 1) + 1 = i
    BY <1>2, <1>5, <2>1
  <2>3. line'[i - 1] = q
    BY <1>2, <2>1, <2>2
  <2>4. 1 \in 1 .. Len(line) /\ 1 < i
    BY <1>2, <2>1, <2>2
  <2> QED BY <1>2, <2>1, <2>2, <2>3, <2>4 DEF OrderOK
<1>6. \A q \in Requests : caller'[q] = "entering" => \E i \in 1 .. Len(line') : line'[i] = q
  BY <1>1, <1>5
<1>7. \A i, j \in 1 .. Len(line') :
        i < j /\ line'[i] \in Requests /\ line'[j] \in Requests =>
          request'[line'[i]].order < request'[line'[j]].order
  <2>1. ASSUME NEW i \in 1 .. Len(line'), NEW j \in 1 .. Len(line'), i < j,
               line'[i] \in Requests, line'[j] \in Requests
        PROVE  request'[line'[i]].order < request'[line'[j]].order
    <3>1. i + 1 < j + 1 /\ i + 1 \in 1 .. Len(line) /\ j + 1 \in 1 .. Len(line)
      BY <1>2, <2>1
    <3> QED BY <1>1, <1>2, <2>1, <3>1 DEF OrderOK
  <2> QED BY <2>1
<1>8. \A a, b \in Requests :
        caller'[a] = "submitted" /\ caller'[b] = "entering" =>
          request'[a].order < request'[b].order
  BY <1>1, <1>5 DEF OrderOK
<1> QED BY <1>4, <1>6, <1>7, <1>8 DEF OrderOK

\* Callers of close() and workers that are in the line leave the order of the others
\* alone.
LEMMA OrderStep ==
  ASSUME IInv, OrderOK, [Next]_vars
  PROVE  OrderOK'
<1> USE DEF callVars, lockVars
<1>1. ASSUME UNCHANGED <<line, caller, request, created>> PROVE OrderOK'
  BY <1>1 DEF OrderOK
<1>0. Requests \cap (Closers \cup Workers) = {}
  BY ConfigAssumption DEF ConfigAssumption
<1>2. ASSUME NEW t, t \in Closers \cup Workers, Arrives(t), UNCHANGED <<caller, request, created>>
      PROVE  OrderOK'
  <2>1. /\ Len(line) \in Nat /\ Len(line') = Len(line) + 1 /\ line'[Len(line) + 1] = t
        /\ \A i \in 1 .. Len(line) : line'[i] = line[i]
    BY <1>2 DEF Arrives, IInv, TypeOK
  <2>2. t \notin Requests
    BY <1>0, <1>2
  <2>3. \A i \in 1 .. Len(line') : line'[i] \in Requests => i \in 1 .. Len(line)
    BY <2>1, <2>2
  <2>4. 1 .. Len(line) \subseteq 1 .. Len(line')
    BY <2>1
  <2>5. ASSUME NEW q \in Requests, caller'[q] = "entering"
        PROVE  \E i \in 1 .. Len(line') : line'[i] = q
    <3>1. PICK i \in 1 .. Len(line) : line[i] = q
      BY <1>2, <2>5 DEF OrderOK
    <3> QED BY <2>1, <2>4, <3>1
  <2> QED BY <1>2, <2>1, <2>3, <2>5 DEF OrderOK
<1>3. ASSUME NEW t, t \in Closers \cup Workers, HasLock(t), Leaves,
             UNCHANGED <<caller, request, created>>
      PROVE  OrderOK'
  <2>1. /\ line # <<>> /\ Len(line) \in Nat /\ Len(line) >= 1 /\ line[1] = t
        /\ Len(line') = Len(line) - 1
        /\ \A i \in 1 .. Len(line') : line'[i] = line[i + 1] /\ i + 1 \in 1 .. Len(line)
    BY <1>3 DEF HasLock, Leaves, IInv, TypeOK
  <2>2. t \notin Requests
    BY <1>0, <1>3
  <2>3. ASSUME NEW q \in Requests, caller[q] = "entering"
        PROVE  \E i \in 1 .. Len(line') : line'[i] = q
    <3>1. PICK i \in 1 .. Len(line) : line[i] = q
      BY <2>3 DEF OrderOK
    <3>2. i - 1 \in 1 .. Len(line') /\ (i - 1) + 1 = i
      BY <2>1, <2>2, <3>1
    <3> QED BY <2>1, <3>1, <3>2
  <2>4. ASSUME NEW i \in 1 .. Len(line'), NEW j \in 1 .. Len(line'), i < j,
               line'[i] \in Requests, line'[j] \in Requests
        PROVE  request[line'[i]].order < request[line'[j]].order
    <3>1. i + 1 < j + 1 /\ i + 1 \in 1 .. Len(line) /\ j + 1 \in 1 .. Len(line)
      BY <2>1, <2>4
    <3> QED BY <2>1, <2>4, <3>1 DEF OrderOK
  <2> QED BY <1>3, <2>3, <2>4 DEF OrderOK
<1>4. ASSUME NEW q \in Requests, Abandon(q) PROVE OrderOK'
  BY <1>1, <1>4 DEF Abandon
<1>5. ASSUME NEW w \in Workers, WorkerPass(w) PROVE OrderOK'
  <2>1. UNCHANGED callVars
    BY <1>5 DEF WorkerPass, WorkerExit, WorkerIdle, WorkerHold, WorkerDispatch, WorkerCrash,
                SweepOnly
  <2>2. UNCHANGED lockVars \/ (HasLock(w) /\ Leaves)
    BY <1>5, PassLine
  <2> QED BY <1>1, <1>3, <2>1, <2>2
<1>6. ASSUME NEW w \in Workers, WaitFor(w) PROVE OrderOK'
  <2>1. UNCHANGED callVars
    BY <1>6 DEF WaitFor
  <2>2. UNCHANGED lockVars \/ Arrives(w) \/ (HasLock(w) /\ Leaves)
    BY <1>6, WaitForStep
  <2> QED BY <1>1, <1>2, <1>3, <2>1, <2>2
<1>7. ASSUME NEW w \in Workers, WakeUp(w) \/ BackendEnds(w) PROVE OrderOK'
  <2>1. UNCHANGED <<callVars, lockVars>>
    BY <1>7 DEF WakeUp, BackendEnds, BackendReturns, BackendFails, BackendCancelled, BatchDone
  <2> QED BY <1>1, <2>1
<1>8. ASSUME Start \/ Tick PROVE OrderOK'
  BY <1>1, <1>8 DEF Start, Tick
<1>9. ASSUME NEW c \in Closers, CloseJoins(c) PROVE OrderOK'
  BY <1>1, <1>9 DEF CloseJoins, CloseReturn, CloseRaise, CloseCancelled
<1>10. ASSUME NEW c \in Closers, CloseBegin(c) PROVE OrderOK'
  BY <1>2, <1>10 DEF CloseBegin
<1>11. ASSUME NEW c \in Closers, CloseLocked(c) PROVE OrderOK'
  BY <1>3, <1>11 DEF CloseLocked
<1>12. ASSUME UNCHANGED vars PROVE OrderOK'
  BY <1>1, <1>12 DEF vars
<1> QED BY <1>4, <1>5, <1>6, <1>7, <1>8, <1>9, <1>10, <1>11, <1>12, OrderOnSubmit, OrderOnEnqueue
        DEF Next

\* Only an enqueue() replaces, and only what its session points to.
LEMMA ReplacedNow ==
  ASSUME IInv, [Next]_vars, NEW r \in Requests,
         outcome'[r] # outcome[r], outcome'[r].status = "REPLACED"
  PROVE  \E q \in Requests : /\ EnqueueLocked(q) /\ Admit(q) /\ r = Previous(q)
                             /\ outcome[r].status = "PENDING" /\ outcome'[r].by = q
<1>1. CASE Elsewhere
  BY <1>1, ElsewhereKeeps
<1>2. ASSUME NEW q \in Requests, EnqueueLocked(q)
      PROVE  /\ Admit(q) /\ r = Previous(q)
             /\ outcome[r].status = "PENDING" /\ outcome'[r].by = q
  <2>1. Admit(q)
    BY <1>2, TurnedAwayOutcomes
  <2>2. outcome'[r] = IF outcome[r].status = "PENDING" /\ r \in Expired
                        THEN Result("EXPIRED", None, None)
                      ELSE IF outcome[r].status = "PENDING" /\ r = Previous(q)
                        THEN Result("REPLACED", None, q)
                      ELSE outcome[r]
    BY <1>2, <2>1, AdmitOutcomes DEF IInv, EnqueueLocked
  <2> QED BY <2>1, <2>2 DEF Result
<1>3. ASSUME NEW q \in Requests, Abandon(q) PROVE FALSE
  BY <1>3 DEF Abandon, Abandoned, Result, IInv, TypeOK
<1>4. ASSUME NEW w \in Workers, WorkerPass(w) PROVE FALSE
  <2>1. PICK est \in Estimates : Write(SweptBook(est))
    BY <1>4 DEF WorkerPass, WorkerExit, WorkerIdle, WorkerHold, WorkerDispatch, WorkerCrash,
                SweepOnly
  <2> QED BY <2>1, PassOutcomes DEF IInv
<1>5. ASSUME NEW w \in Workers, BackendReturns(w) \/ BackendFails(w) PROVE FALSE
  <2>1. DoneNow(r)
    BY <1>5, BackendMoves DEF IInv, BatchResolved
  <2> QED BY <2>1 DEF DoneNow, Contract!Executed
<1>6. ASSUME NEW c \in Closers, CloseLocked(c) PROVE FALSE
  BY <1>6, CloseOutcomes DEF IInv
<1> QED BY <1>1, <1>2, <1>3, <1>4, <1>5, <1>6, StepKinds

\* An admitted request stays admitted.
LEMMA AdmittedForGood ==
  ASSUME IInv, [Next]_vars, NEW q \in Requests, Admitted(q)
  PROVE  Admitted(q)' /\ request'[q] = request[q]
<1>1. caller'[q] = "submitted" /\ request'[q] = request[q]
  BY CallStep DEF IInv, Admitted
<1>2. outcome'[q] = outcome[q] \/ (Moves(q) /\ ~TurnedNow(q))
  BY OutcomeStep, LineHead DEF IInv, OutcomesMove, TurnedNow, Admitted
<1>3. outcome'[q].status \notin {"OUT_OF_ORDER", "OVERLOADED"}
  BY <1>2 DEF Admitted, Moves, ShedNow, DoneNow, GivenUp, Contract!Shed, Contract!Executed
<1> QED BY <1>1, <1>3 DEF Admitted

\* The observation that replaces another is admitted and newer than it.
LEMMA ReplacedStep ==
  ASSUME IInv, OrderOK, ReplacedByNewer, [Next]_vars
  PROVE  ReplacedByNewer'
<1> SUFFICES ASSUME NEW r \in Requests, outcome'[r].status = "REPLACED"
             PROVE  \E q \in Requests :
                      /\ q = outcome'[r].by /\ Admitted(q)' /\ SameSession(q, r)'
                      /\ request'[r].order < request'[q].order
                      /\ Enforce => request'[r].seq < request'[q].seq
  BY ConfigAssumption DEF ReplacedByNewer, ConfigAssumption
<1>1. CASE outcome'[r] = outcome[r]
  <2>1. outcome[r].by \in Requests
    BY <1>1 DEF ReplacedByNewer, IInv, TypeOK, Outcome
  <2>2. PICK q \in Requests : q = outcome[r].by
    BY <2>1
  <2>3. /\ Admitted(q) /\ SameSession(q, r) /\ request[r].order < request[q].order
        /\ Enforce => request[r].seq < request[q].seq
    BY <1>1, <2>2 DEF ReplacedByNewer
  <2>4. Admitted(q)' /\ request'[q] = request[q]
    BY <2>3, AdmittedForGood
  <2>5. request'[r] = request[r]
    <3>1. caller[r] = "submitted"
      BY <1>1 DEF IInv, CallsOK, Pending, Result
    <3> QED BY <3>1, CallStep DEF IInv
  <2> QED BY <1>1, <2>2, <2>3, <2>4, <2>5 DEF SameSession
<1>2. CASE outcome'[r] # outcome[r]
  <2>1. PICK q \in Requests : /\ EnqueueLocked(q) /\ Admit(q) /\ r = Previous(q)
                              /\ outcome[r].status = "PENDING" /\ outcome'[r].by = q
    BY <1>2, ReplacedNow
  <2>2. /\ request[q] \in Request /\ caller[q] = "entering" /\ caller'[q] = "submitted"
        /\ outcome[q] = Pending /\ request' = request
    BY <2>1, AdmitQueue DEF IInv
  <2>3. r # None /\ pendingOf[request[q].session] = r
    BY <2>1, ConfigAssumption DEF Previous, ConfigAssumption
  <2>4. caller[r] = "submitted" /\ request[r].session = request[q].session
        /\ request[r] \in Request
    BY <2>2, <2>3 DEF IInv, QueueOK, CallsOK, Request
  <2>5. request[r].order < request[q].order
    BY <2>2, <2>4 DEF OrderOK
  <2>6. ASSUME Enforce PROVE request[r].seq < request[q].seq
    <3>1. request[r].seq <= latest[request[q].session]
      BY <2>1, <2>4, <2>6 DEF IInv, LatestOK, Admitted
    <3>2. /\ request[r].seq \in Int /\ request[r].seq >= 0 /\ request[q].seq \in Int
          /\ latest[request[q].session] \in Int
      BY <2>2, <2>4, SeqNosAreIntegers DEF IInv
    <3>3. ~(latest[request[q].session] # NoSeq
             /\ request[q].seq <= latest[request[q].session])
      BY <2>1, <2>6 DEF Admit, OutOfOrder
    <3> QED BY <3>1, <3>2, <3>3 DEF NoSeq
  <2>7. Admitted(q)'
    <3>1. outcome'[q].status \notin {"OUT_OF_ORDER", "OVERLOADED"}
      <4>1. outcome'[q] = IF outcome[q].status = "PENDING" /\ q \in Expired
                            THEN Result("EXPIRED", None, None)
                          ELSE IF outcome[q].status = "PENDING" /\ q = Previous(q)
                            THEN Result("REPLACED", None, q)
                          ELSE outcome[q]
        BY <2>1, AdmitOutcomes DEF IInv, EnqueueLocked
      <4> QED BY <2>2, <4>1 DEF Result, Pending
    <3> QED BY <2>2, <3>1 DEF Admitted
  <2> QED BY <2>1, <2>2, <2>4, <2>5, <2>6, <2>7 DEF SameSession
<1> QED BY <1>1, <1>2

\* A scheduler that was just created has replaced nothing.
LEMMA OrderInit == Init => OrderOK /\ ReplacedByNewer
BY DEF Init, OrderOK, ReplacedByNewer, Pending, Result

\* A replaced observation was replaced by a newer one of its session that was
\* admitted in its place (scheduler.py, enqueue()).
THEOREM ReplacedOnlyByNewer == Spec => []ReplacedByNewer
<1>1. Init => IInv /\ OrderOK /\ ReplacedByNewer
  BY InitIInv, OrderInit
<1>2. (IInv /\ OrderOK /\ ReplacedByNewer) /\ [Next]_vars
        => (IInv /\ OrderOK /\ ReplacedByNewer)'
  BY NextIInv, OrderStep, ReplacedStep
<1> QED BY <1>1, <1>2, PTL DEF Spec

-----------------------------------------------------------------------------
(* Nothing is lost.                                                         *)

\* Nothing that kills a worker: batch_key() knows every request, infer_batch() is
\* not cancelled, nor is a close() that waits for the worker.
WorkersSurvive == BadKeys = {} /\ ~BackendAborts /\ ~CloseCancels

\* An envelope is active until its call has passed the lock.
ActiveOK == \A r \in Requests : caller[r] # "submitted" => active[r]

\* What a worker pass takes out of the queue was in it.
LEMMA PassDeactivates ==
  ASSUME NEW w \in Workers, WorkerPass(w)
  PROVE  \E G \in SUBSET Live : active' = Deactivate(G)
<1>1. ASSUME NEW est, NEW B \in SUBSET Queue(est) PROVE Swept(est) \cup B \in SUBSET Live
  BY DEF Swept, Expired, Unserviceable, Queue
<1>2. CASE WorkerExit(w) \/ WorkerIdle(w) \/ WorkerHold(w)
  <2>1. PICK est : SweepOnly(est)
    BY <1>2 DEF WorkerExit, WorkerIdle, WorkerHold
  <2>2. Swept(est) \in SUBSET Live
    BY <1>1
  <2> QED BY <2>1, <2>2 DEF SweepOnly
<1>3. CASE WorkerDispatch(w)
  <2>1. PICK est, B : B \subseteq Queue(est) /\ Take(w, Queue(est), Swept(est), B)
    BY <1>3 DEF WorkerDispatch
  <2>2. Swept(est) \cup B \in SUBSET Live
    BY <1>1, <2>1
  <2> QED BY <2>1, <2>2 DEF Take
<1>4. CASE WorkerCrash(w)
  <2>1. PICK est, B : B \subseteq Queue(est) /\ active' = Deactivate(Swept(est) \cup B)
    BY <1>4 DEF WorkerCrash
  <2>2. Swept(est) \cup B \in SUBSET Live
    BY <1>1, <2>1
  <2> QED BY <2>1, <2>2
<1> QED BY <1>2, <1>3, <1>4 DEF WorkerPass

\* Whoever deactivates an envelope found it queued, or turns its own call away.
LEMMA ActiveStep ==
  ASSUME IInv, ActiveOK, [Next]_vars
  PROVE  ActiveOK'
<1> SUFFICES ASSUME NEW r \in Requests, caller'[r] # "submitted" PROVE active'[r]
  BY DEF ActiveOK
<1>1. active[r] /\ caller[r] # "submitted" /\ r \notin Live
  BY CallStep DEF ActiveOK, IInv, QueueOK
<1>2. ASSUME NEW G, active' = Deactivate(G), r \notin G PROVE active'[r]
  BY <1>1, <1>2 DEF Deactivate
<1>3. CASE Elsewhere
  BY <1>1, <1>3, ElsewhereKeeps
<1>4. ASSUME NEW q \in Requests, EnqueueLocked(q) PROVE active'[r]
  <2>1. q # r /\ r \notin Expired
    BY <1>1, <1>4 DEF EnqueueLocked, IInv, TypeOK, Expired
  <2>2. request[q] \in Request
    BY <1>4, LineHead DEF EnqueueLocked, IInv
  <2>3. Previous(q) # r
    BY <1>1, <2>2, ConfigAssumption DEF Previous, IInv, QueueOK, Request, ConfigAssumption
  <2>4. CASE RejectOutOfOrder(q)
    BY <1>2, <2>1, <2>4 DEF RejectOutOfOrder
  <2>5. CASE RejectOverloaded(q)
    <3>1. active' = Deactivate(Expired \cup {q})
      BY <2>5 DEF RejectOverloaded
    <3> QED BY <1>2, <2>1, <3>1
  <2>6. CASE Admit(q)
    <3>1. PICK old \in {{}, {Previous(q)}} : active' = Deactivate(Expired \cup old)
      BY <2>6 DEF Admit
    <3> QED BY <1>2, <2>1, <2>3, <3>1
  <2> QED BY <1>4, <2>4, <2>5, <2>6 DEF EnqueueLocked
<1>5. ASSUME NEW q \in Requests, Abandon(q) PROVE active'[r]
  BY <1>1, <1>5 DEF Abandon, queueVars
<1>6. ASSUME NEW w \in Workers, WorkerPass(w) PROVE active'[r]
  BY <1>1, <1>2, <1>6, PassDeactivates
<1>7. ASSUME NEW w \in Workers, BackendReturns(w) \/ BackendFails(w) PROVE active'[r]
  BY <1>1, <1>7 DEF BackendReturns, BackendFails, BatchDone, queueVars
<1>8. ASSUME NEW c \in Closers, CloseLocked(c) PROVE active'[r]
  BY <1>1, <1>2, <1>8 DEF CloseLocked
<1> QED BY <1>3, <1>4, <1>5, <1>6, <1>7, <1>8, StepKinds

\* What leaves the queue with its future pending is being executed.
LEMMA LeavesForTheBackend ==
  ASSUME WorkersSurvive, IInv, [Next]_vars, NEW r \in Live, r \notin Live',
         outcome'[r].status = "PENDING"
  PROVE  \E w \in Workers : wstate'[w] = "executing" /\ r \in batch'[w]
<1>0. r \in Requests /\ caller[r] = "submitted"
  BY DEF Live, IInv, TypeOK, QueueOK
<1>1. CASE Elsewhere
  BY <1>1, ElsewhereKeeps DEF Live
<1>2. ASSUME NEW q \in Requests, EnqueueLocked(q) PROVE FALSE
  <2>1. Admit(q)
    BY <1>0, <1>2, TurnedAwayOutcomes
  <2>2. outcome'[r] = IF outcome[r].status = "PENDING" /\ r \in Expired
                        THEN Result("EXPIRED", None, None)
                      ELSE IF outcome[r].status = "PENDING" /\ r = Previous(q)
                        THEN Result("REPLACED", None, q)
                      ELSE outcome[r]
    BY <1>0, <1>2, <2>1, AdmitOutcomes DEF IInv, EnqueueLocked
  <2>3. r \notin Expired /\ r # Previous(q)
    BY <2>2 DEF Result
  <2>4. r \in Live'
    <3>1. heap' = (Live \ Expired) \cup {q}
      BY <2>1 DEF Admit
    <3>2. PICK old \in {{}, {Previous(q)}} : active' = Deactivate(Expired \cup old)
      BY <2>1 DEF Admit
    <3> QED BY <1>0, <2>3, <3>1, <3>2 DEF Live, Deactivate
  <2> QED BY <2>4
<1>3. ASSUME NEW q \in Requests, Abandon(q) PROVE FALSE
  BY <1>3 DEF Abandon, queueVars, Live
<1>4. ASSUME NEW w \in Workers, WorkerPass(w)
      PROVE  wstate'[w] = "executing" /\ r \in batch'[w]
  <2>1. ASSUME NEW est, Write(SweptBook(est)) PROVE r \in Queue(est)
    BY <1>0, <2>1, PassOutcomes DEF IInv, Queue
  <2>2. ASSUME NEW est, SweepOnly(est) PROVE FALSE
    BY <1>0, <2>1, <2>2 DEF SweepOnly, Queue, Live, Deactivate
  <2>3. CASE WorkerDispatch(w)
    <3>1. PICK est, B : Take(w, Queue(est), Swept(est), B) /\ Write(SweptBook(est))
      BY <2>3 DEF WorkerDispatch
    <3>2. r \in B
      BY <1>0, <2>1, <3>1 DEF Take, Queue, Live, Deactivate
    <3>3. r \in batch'[w] /\ wstate'[w] = "executing"
      BY <2>3, <3>1, <3>2 DEF Take, WorkerDispatch, Becomes, IInv, TypeOK
    <3> QED BY <3>3
  <2>4. ~WorkerCrash(w)
    BY DEF WorkersSurvive, WorkerCrash, First
  <2> QED BY <1>4, <2>2, <2>3, <2>4 DEF WorkerPass, WorkerExit, WorkerIdle, WorkerHold
<1>5. ASSUME NEW w \in Workers, BackendReturns(w) \/ BackendFails(w) PROVE FALSE
  BY <1>5 DEF BackendReturns, BackendFails, BatchDone, queueVars, Live
<1>6. ASSUME NEW c \in Closers, CloseLocked(c) PROVE FALSE
  BY <1>0, <1>6, CloseOutcomes DEF IInv
<1> QED BY <1>1, <1>2, <1>3, <1>4, <1>5, <1>6, StepKinds

\* A worker executes its batch until the backend has answered or failed.
LEMMA StaysInTheBackend ==
  ASSUME WorkersSurvive, IInv, [Next]_vars, NEW w \in Workers, wstate[w] = "executing"
  PROVE  \/ wstate'[w] = "executing" /\ batch'[w] = batch[w]
         \/ BackendReturns(w) \/ BackendFails(w)
<1> USE DEF taskVars, IInv, TypeOK
<1>1. ASSUME NEW r \in Requests, Submit(r) \/ Abandon(r)
      PROVE  wstate'[w] = "executing" /\ batch'[w] = batch[w]
  BY <1>1 DEF Submit, Abandon
<1>2. ASSUME NEW r \in Requests, EnqueueLocked(r)
      PROVE  wstate'[w] = "executing" /\ batch'[w] = batch[w]
  <2>1. batch' = batch
    BY <1>2 DEF EnqueueLocked
  <2>2. wstate' = wstate \/ NotifyOne
    BY <1>2 DEF EnqueueLocked, RejectOutOfOrder, RejectOverloaded, Admit
  <2> QED BY <2>1, <2>2 DEF NotifyOne, Waiting
<1>3. ASSUME NEW v \in Workers, WorkerPass(v) \/ WakeUp(v)
      PROVE  wstate'[w] = "executing" /\ batch'[w] = batch[w]
  <2>1. v # w
    BY <1>3, PassMoves DEF WakeUp
  <2>2. wstate'[w] = wstate[w] /\ batch'[w] = batch[w]
    BY <1>3, <2>1 DEF WorkerPass, WorkerExit, WorkerIdle, WorkerHold, WorkerDispatch,
       WorkerCrash, WakeUp, SweepOnly, Becomes, Take
  <2> QED BY <2>2
<1>4. ASSUME NEW v \in Workers, v # w, BackendReturns(v) \/ BackendFails(v)
      PROVE  wstate'[w] = "executing" /\ batch'[w] = batch[w]
  BY <1>4 DEF BackendReturns, BackendFails, BatchDone
<1>5. ASSUME NEW v \in Workers PROVE ~BackendCancelled(v)
  BY DEF WorkersSurvive, BackendCancelled
<1>6. ASSUME Start \/ Tick PROVE wstate'[w] = "executing" /\ batch'[w] = batch[w]
  BY <1>6 DEF Start, Tick
<1>7. ASSUME NEW c \in Closers, CloseBegin(c) \/ CloseReturn(c) \/ CloseRaise(c)
      PROVE  wstate'[w] = "executing" /\ batch'[w] = batch[w]
  BY <1>7 DEF CloseBegin, CloseReturn, CloseRaise
<1>8. ASSUME NEW c \in Closers, CloseLocked(c)
      PROVE  wstate'[w] = "executing" /\ batch'[w] = batch[w]
  BY <1>8 DEF CloseLocked, NotifyAll, Waiting
<1>9. ASSUME NEW c \in Closers PROVE ~CloseCancelled(c)
  BY DEF WorkersSurvive, CloseCancelled
<1>10. ASSUME UNCHANGED vars PROVE wstate'[w] = "executing" /\ batch'[w] = batch[w]
  BY <1>10 DEF vars
<1>11. ASSUME NEW v \in Workers, WaitFor(v)
       PROVE  wstate'[w] = "executing" /\ batch'[w] = batch[w]
  <2>1. v # w /\ batch' = batch
    BY <1>11, WaitForStep
  <2> QED BY <1>11, <2>1, WaitForStep
<1> QED BY <1>1, <1>2, <1>3, <1>4, <1>5, <1>6, <1>7, <1>8, <1>9, <1>10, <1>11
        DEF Next, BackendEnds, CloseJoins

\* A request that is admitted is queued.
LEMMA AdmittedIsQueued ==
  ASSUME IInv, ActiveOK, NEW r \in Requests, EnqueueLocked(r), Admit(r)
  PROVE  r \in Live'
<1>1. caller[r] = "entering" /\ active[r] /\ request[r] \in Request
  BY LineHead DEF ActiveOK, EnqueueLocked, IInv
<1>2. r \notin Expired
  BY <1>1 DEF IInv, QueueOK, Expired
<1>3. r # Previous(r)
  BY <1>1, ConfigAssumption DEF Previous, IInv, QueueOK, Request, ConfigAssumption
<1>4. PICK old \in {{}, {Previous(r)}} : active' = Deactivate(Expired \cup old)
  BY DEF Admit
<1>5. r \in heap'
  BY DEF Admit
<1> QED BY <1>1, <1>2, <1>3, <1>4, <1>5 DEF Live, Deactivate

\* What is neither queued nor executed any more is resolved.
LEMMA NothingLostStep ==
  ASSUME WorkersSurvive, IInv, ActiveOK, NothingLost, [Next]_vars
  PROVE  NothingLost'
<1> SUFFICES ASSUME NEW r \in Requests, Admitted(r)', outcome'[r].status = "PENDING"
             PROVE  r \in Live' \/ \E w \in Workers : wstate'[w] = "executing" /\ r \in batch'[w]
  BY DEF NothingLost
<1>1. outcome[r].status = "PENDING"
  BY OutcomeStep DEF IInv, OutcomesMove, Moves
<1>2. CASE ~Admitted(r)
  BY <1>2, AdmittedStep, AdmittedIsQueued DEF IInv
<1>3. CASE Admitted(r)
  <2>1. CASE r \in Live
    BY <2>1, LeavesForTheBackend
  <2>2. ASSUME NEW w \in Workers, wstate[w] = "executing", r \in batch[w]
        PROVE  wstate'[w] = "executing" /\ r \in batch'[w]
    <3>1. ~(BackendReturns(w) \/ BackendFails(w))
      BY <2>2, BackendMoves DEF IInv, BatchResolved
    <3> QED BY <2>2, <3>1, StaysInTheBackend
  <2> QED BY <1>1, <1>3, <2>1, <2>2 DEF NothingLost
<1> QED BY <1>2, <1>3

\* Unless something kills the worker, no admitted request falls between the queue,
\* the batches and the outcomes (scheduler.py, _run() and _execute()).
THEOREM NoneIsLost ==
  ASSUME WorkersSurvive
  PROVE  Spec => []NothingLost
<1>1. Init => IInv /\ ActiveOK /\ NothingLost
  <2>1. Init => ActiveOK /\ NothingLost
    BY DEF Init, ActiveOK, NothingLost, Admitted
  <2> QED BY <2>1, InitIInv
<1>2. (IInv /\ ActiveOK /\ NothingLost) /\ [Next]_vars => (IInv /\ ActiveOK /\ NothingLost)'
  BY NextIInv, ActiveStep, NothingLostStep
<1> QED BY <1>1, <1>2, PTL DEF Spec

-----------------------------------------------------------------------------
(* Nobody sleeps on work.                                                   *)

\* One task has the lock or none, enqueue() only while the scheduler accepts; and
\* a scheduler that accepts has a worker.
AwakeOK ==
  /\ line = <<>> \/ \E t \in Requests \cup Closers : line = <<t>>
  /\ \A r \in Requests : HasLock(r) => accepting
  /\ accepting => Live0 # {}

\* Where the lock is never found taken, the line is a matter of the moment, and a
\* worker runs, is woken and waits without it.
LEMMA Uncontended ==
  ASSUME ~LockYields, IInv
  PROVE  /\ LoopFree => line = <<>>
         /\ \A w \in Workers : Woken(w) = "ready" /\ ~WaitFor(w)
         /\ \A w \in Workers : Runs(w) => wstate[w] = "ready" /\ UNCHANGED lockVars
         /\ \A w \in Workers :
              wstate[w] \in {"unborn", "ready", "idle", "timed", "executing", "done", "failed"}
<1>1. ASSUME NEW w \in Workers PROVE ~HasLock(w)
  <2> SUFFICES ASSUME HasLock(w) PROVE FALSE
    OBVIOUS
  <2>1. line[1] = w /\ 1 \in 1 .. Len(line)
    BY DEF HasLock, IInv, TypeOK
  <2> QED BY <2>1, ConfigAssumption DEF IInv, LineOK, Asking, ConfigAssumption
<1>2. \A w \in Workers : Runs(w) => wstate[w] = "ready" /\ UNCHANGED lockVars
  BY <1>1 DEF Runs
<1>3. LoopFree => line = <<>>
  BY DEF LoopFree, IInv, LineOK
<1>4. \A w \in Workers :
        wstate[w] \in {"unborn", "ready", "idle", "timed", "executing", "done", "failed"}
  BY DEF IInv, TypeOK, WorkerStates, LineOK
<1> QED BY <1>2, <1>3, <1>4 DEF Woken, WaitFor

\* A worker stops or idles only when nothing is queued.
LEMMA WorkerKeepsAwake ==
  ASSUME WorkersSurvive, ~LockYields, IInv, NEW w \in Workers, WorkerPass(w)
  PROVE  /\ \A v \in Workers \ {w} : wstate'[v] = wstate[v]
         /\ \/ wstate'[w] \in {"timed", "executing"}
            \/ wstate'[w] = "idle" /\ Live' = {}
            \/ wstate'[w] = "done" /\ Live' = {} /\ ~accepting
         /\ UNCHANGED <<line, accepting>>
<1> USE DEF callVars, lockVars, lifeVars, Becomes
<1>0. UNCHANGED line /\ wstate \in [Workers -> WorkerStates]
  BY PassLine, Uncontended DEF IInv, TypeOK
<1>1. CASE WorkerExit(w)
  <2>1. Live' = {}
    BY <1>1 DEF WorkerExit, SweepOnly, Live
  <2> QED BY <1>0, <1>1, <2>1 DEF WorkerExit, SweepOnly
<1>2. CASE WorkerIdle(w)
  <2>1. Live' = {}
    BY <1>2 DEF WorkerIdle, SweepOnly, Live
  <2> QED BY <1>0, <1>2, <2>1 DEF WorkerIdle, SweepOnly
<1>3. CASE WorkerHold(w)
  BY <1>0, <1>3 DEF WorkerHold, SweepOnly
<1>4. CASE WorkerDispatch(w)
  BY <1>0, <1>4 DEF WorkerDispatch
<1>5. ~WorkerCrash(w)
  BY DEF WorkersSurvive, WorkerCrash, First
<1> QED BY <1>1, <1>2, <1>3, <1>4, <1>5 DEF WorkerPass

\* No other step takes a worker that has work to do away from it.
LEMMA OthersKeepAwake ==
  ASSUME WorkersSurvive, ~LockYields, IInv, [Next]_vars, \A w \in Workers : ~WorkerPass(w),
         NEW w \in Workers
  PROVE  /\ wstate[w] \in {"ready", "timed", "executing"} =>
              wstate'[w] \in {"ready", "timed", "executing"}
         /\ wstate[w] = "idle" => wstate'[w] \in {"idle", "ready"}
<1> USE DEF taskVars, IInv, TypeOK
<1>1. ASSUME NEW r \in Requests, Submit(r) \/ Abandon(r) PROVE wstate' = wstate
  BY <1>1 DEF Submit, Abandon
<1>2. ASSUME NEW r \in Requests, EnqueueLocked(r) PROVE wstate' = wstate \/ NotifyOne
  BY <1>2 DEF EnqueueLocked, RejectOutOfOrder, RejectOverloaded, Admit
<1>3. ASSUME NEW v \in Workers, WakeUp(v) \/ BackendReturns(v) \/ BackendFails(v)
      PROVE  wstate' = [wstate EXCEPT ![v] = "ready"]
  BY <1>3, Uncontended DEF WakeUp, BackendReturns, BackendFails, BatchDone
<1>4. ASSUME NEW v \in Workers PROVE ~BackendCancelled(v)
  BY DEF WorkersSurvive, BackendCancelled
<1>5. ASSUME Start
      PROVE  \E v \in Workers : wstate[v] = "unborn" /\ wstate' = [wstate EXCEPT ![v] = "ready"]
  BY <1>5 DEF Start
<1>6. ASSUME NEW c \in Closers, CloseBegin(c) \/ CloseReturn(c) \/ CloseRaise(c)
      PROVE  wstate' = wstate
  BY <1>6 DEF CloseBegin, CloseReturn, CloseRaise
<1>7. ASSUME NEW c \in Closers, CloseLocked(c) PROVE NotifyAll
  BY <1>7 DEF CloseLocked
<1>8. ASSUME NEW c \in Closers PROVE ~CloseCancelled(c)
  BY DEF WorkersSurvive, CloseCancelled
<1>9. ASSUME Tick \/ UNCHANGED vars PROVE wstate' = wstate
  BY <1>9 DEF Tick, vars
<1>10. NotifyOne => \/ wstate' = wstate
                    \/ \E v \in Workers : Waiting(v) /\ wstate' = [wstate EXCEPT ![v] = "ready"]
  BY Uncontended DEF NotifyOne
<1>11. \/ wstate' = wstate
       \/ \E v \in Workers : wstate' = [wstate EXCEPT ![v] = "ready"]
       \/ NotifyAll
  BY <1>1, <1>2, <1>3, <1>4, <1>5, <1>6, <1>7, <1>8, <1>9, <1>10, Uncontended DEF Next, BackendEnds, CloseJoins
<1>12. CASE wstate' = wstate
  BY <1>12
<1>13. ASSUME NEW v \in Workers, wstate' = [wstate EXCEPT ![v] = "ready"]
       PROVE  wstate'[w] = wstate[w] \/ wstate'[w] = "ready"
  BY <1>13
<1>14. CASE NotifyAll
  BY <1>14, Uncontended DEF NotifyAll, Waiting
<1> QED BY <1>11, <1>12, <1>13, <1>14

\* Calls pass a free lock one by one, and no worker leaves a scheduler that accepts.
LEMMA AwakeStep ==
  ASSUME WorkersSurvive, ~LockYields, IInv, AwakeOK, [Next]_vars
  PROVE  AwakeOK'
<1> USE DEF callVars, lockVars, lifeVars
<1>1. ASSUME NEW t \in Requests \cup Closers, line' = Append(line, t), line = <<>>
      PROVE  line' = <<t>> /\ \A r \in Requests : HasLock(r)' => r = t
  <2>1. line' = <<t>>
    BY <1>1
  <2> QED BY <2>1 DEF HasLock
<1>2. ASSUME line # <<>>, line' = Tail(line)
      PROVE  line' = <<>> /\ \A r \in Requests : ~HasLock(r)'
  <2>1. PICK t : line = <<t>>
    BY <1>2 DEF AwakeOK
  <2>2. line' = <<>>
    BY <1>2, <2>1
  <2> QED BY <2>2 DEF HasLock
<1>00. /\ \A v \in Workers : ~LockHeld /\ ~LockHeld'
       /\ LoopFree => line = <<>>
  BY Uncontended DEF LockHeld
<1>3. ASSUME line' = line, accepting' = accepting \/ accepting'
      PROVE  /\ line' = <<>> \/ \E t \in Requests \cup Closers : line' = <<t>>
             /\ \A r \in Requests : HasLock(r)' => accepting'
  BY <1>3 DEF AwakeOK, HasLock, LockHeld
<1>4. ASSUME \A w \in Workers : ~WorkerPass(w), Live0 # {} PROVE Live0' # {}
  <2>1. PICK w \in Workers : wstate[w] \in {"ready", "idle", "timed", "executing"}
    BY <1>4, Uncontended DEF Live0
  <2>2. wstate'[w] \in {"ready", "idle", "timed", "executing"}
    BY <1>4, <2>1, OthersKeepAwake
  <2> QED BY <2>2 DEF Live0
<1>5. ASSUME NEW r \in Requests, Submit(r) PROVE AwakeOK'
  <2>1. line = <<>> /\ line' = Append(line, r) /\ accepting /\ accepting' = accepting
        /\ UNCHANGED wstate
    BY <1>00, <1>5 DEF Submit, Arrives, taskVars
  <2> QED BY <1>1, <2>1 DEF AwakeOK, Live0
<1>6. ASSUME NEW r \in Requests, EnqueueLocked(r) PROVE AwakeOK'
  <2>1. line # <<>> /\ line' = Tail(line) /\ accepting' = accepting
    BY <1>6 DEF EnqueueLocked, HasLock, Leaves
  <2>2. ASSUME accepting PROVE Live0' # {}
    <3>1. PICK w \in Workers : wstate[w] \in {"ready", "idle", "timed", "executing"}
      BY <2>2, Uncontended DEF AwakeOK, Live0
    <3>2. wstate' = wstate \/ NotifyOne
      BY <1>6 DEF EnqueueLocked, RejectOutOfOrder, RejectOverloaded, Admit
    <3>3. wstate'[w] \in {"ready", "idle", "timed", "executing"}
      BY <3>1, <3>2, Uncontended DEF NotifyOne, Waiting, IInv, TypeOK
    <3> QED BY <3>3 DEF Live0
  <2> QED BY <1>2, <2>1, <2>2 DEF AwakeOK
<1>7. ASSUME NEW w \in Workers, WorkerPass(w) PROVE AwakeOK'
  <2>1. \/ wstate'[w] \in {"timed", "executing", "idle"}
        \/ ~accepting
    BY <1>7, WorkerKeepsAwake
  <2>2. UNCHANGED <<line, accepting>>
    BY <1>7, WorkerKeepsAwake
  <2>3. accepting' => Live0' # {}
    BY <2>1, <2>2 DEF Live0
  <2> QED BY <1>3, <2>2, <2>3 DEF AwakeOK
<1>8. ASSUME NEW c \in Closers, CloseBegin(c) PROVE AwakeOK'
  <2>1. line = <<>> /\ line' = Append(line, c) /\ accepting' = accepting /\ UNCHANGED wstate
    BY <1>00, <1>8 DEF CloseBegin, Arrives, taskVars
  <2>2. c \notin Requests
    BY ConfigAssumption DEF ConfigAssumption
  <2> QED BY <1>1, <2>1, <2>2 DEF AwakeOK, Live0
<1>9. ASSUME NEW c \in Closers, CloseLocked(c) PROVE AwakeOK'
  <2>1. line # <<>> /\ line' = Tail(line) /\ ~accepting'
    BY <1>9 DEF CloseLocked, HasLock, Leaves
  <2> QED BY <1>2, <2>1 DEF AwakeOK
<1>10. ASSUME Start PROVE AwakeOK'
  <2>1. accepting' /\ line' = line /\ \E w \in Workers : wstate' = [wstate EXCEPT ![w] = "ready"]
    BY <1>10 DEF Start
  <2>2. Live0' # {}
    BY <2>1 DEF Live0, IInv, TypeOK
  <2> QED BY <1>3, <2>1, <2>2 DEF AwakeOK
<1>11. ASSUME line' = line, accepting' = accepting, \A w \in Workers : ~WorkerPass(w)
       PROVE  AwakeOK'
  BY <1>3, <1>4, <1>11 DEF AwakeOK
<1>12. ASSUME NEW r \in Requests, Abandon(r) PROVE line' = line /\ accepting' = accepting
  BY <1>12 DEF Abandon
<1>13. ASSUME NEW w \in Workers, WakeUp(w) \/ BackendEnds(w)
       PROVE  line' = line /\ accepting' = accepting
  BY <1>13 DEF WakeUp, BackendEnds, BackendReturns, BackendFails, BackendCancelled, BatchDone
<1>14. ASSUME NEW c \in Closers, CloseJoins(c) PROVE line' = line /\ accepting' = accepting
  BY <1>14 DEF CloseJoins, CloseReturn, CloseRaise, CloseCancelled
<1>15. ASSUME Tick \/ UNCHANGED vars PROVE line' = line /\ accepting' = accepting
  BY <1>15 DEF Tick, vars
<1> QED BY <1>5, <1>6, <1>7, <1>8, <1>9, <1>10, <1>11, <1>12, <1>13, <1>14, <1>15, Uncontended
        DEF Next

\* Whoever queues a request finds a worker, and wakes one if all of them wait.
LEMMA NoSleepStep ==
  ASSUME WorkersSurvive, ~LockYields, IInv, AwakeOK, NoSleepOnWork, [Next]_vars
  PROVE  NoSleepOnWork'
<1> SUFFICES ASSUME Live' # {}
             PROVE  \E w \in Workers : wstate'[w] \in {"ready", "timed", "executing"}
  <2>1. \A w \in Workers : wstate'[w] \in {"ready", "timed", "executing"} =>
          w \in Live0' /\ wstate'[w] # "idle"
    BY DEF Live0
  <2> QED BY <2>1 DEF NoSleepOnWork
<1>0. Live # {} => \E w \in Workers : wstate[w] \in {"ready", "timed", "executing"}
  BY Uncontended DEF NoSleepOnWork, Live0
<1>1. ASSUME NEW w \in Workers, WorkerPass(w)
      PROVE  wstate'[w] \in {"ready", "timed", "executing"}
  BY <1>1, WorkerKeepsAwake
<1>2. ASSUME NEW r \in Requests, EnqueueLocked(r), Admit(r)
      PROVE  \E w \in Workers : wstate'[w] \in {"ready", "timed", "executing"}
  <2>1. NotifyOne /\ accepting
    BY <1>2 DEF Admit, EnqueueLocked, AwakeOK
  <2>2. PICK w \in Workers : wstate[w] \in {"ready", "idle", "timed", "executing"}
    BY <2>1, Uncontended DEF AwakeOK, Live0
  <2>3. CASE \E v \in Workers : Waiting(v)
    <3>1. PICK v \in Workers : wstate' = [wstate EXCEPT ![v] = "ready"]
      BY <2>1, <2>3, Uncontended DEF NotifyOne
    <3>2. wstate'[v] = "ready"
      BY <3>1 DEF IInv, TypeOK
    <3> QED BY <3>2
  <2>4. CASE ~ \E v \in Workers : Waiting(v)
    BY <2>1, <2>2, <2>4 DEF NotifyOne, Waiting
  <2> QED BY <2>3, <2>4
<1>3. ASSUME \A w \in Workers : ~WorkerPass(w),
             ~ \E r \in Requests : EnqueueLocked(r) /\ Admit(r)
      PROVE  \E w \in Workers : wstate'[w] \in {"ready", "timed", "executing"}
  <2>1. Live # {}
    BY <1>3, QueueStep DEF IInv, Shrinks
  <2> QED BY <1>0, <1>3, <2>1, OthersKeepAwake
<1> QED BY <1>1, <1>2, <1>3

\* From Python 3.12 on, and unless something kills the worker, a queued request is
\* waited for by a worker that will look at it again: no wake-up is lost
\* (scheduler.py, enqueue() and _run()).
THEOREM NobodySleepsOnWork ==
  ASSUME WorkersSurvive, ~LockYields
  PROVE  Spec => []NoSleepOnWork
<1>1. Init => IInv /\ AwakeOK /\ NoSleepOnWork
  <2>1. Init => AwakeOK /\ NoSleepOnWork
    BY DEF Init, AwakeOK, NoSleepOnWork, HasLock, Live
  <2> QED BY <2>1, InitIInv
<1>2. (IInv /\ AwakeOK /\ NoSleepOnWork) /\ [Next]_vars
        => (IInv /\ AwakeOK /\ NoSleepOnWork)'
  BY NextIInv, AwakeStep, NoSleepStep
<1> QED BY <1>1, <1>2, PTL DEF Spec

-----------------------------------------------------------------------------
(* Capacity.                                                                *)

\* Until a worker fails, the observation a session points to is queued, if it
\* is still active.
PointerOK ==
  NoFailure => \A s \in Sessions : pendingOf[s] # None /\ active[pendingOf[s]] => pendingOf[s] \in heap

\* A worker that failed stays so, and batch_key() fails the worker that calls it.
LEMMA FailureStays ==
  ASSUME IInv, [Next]_vars, NoFailure'
  PROVE  /\ NoFailure
         /\ \A w \in Workers : ~WorkerCrash(w)
<1> USE DEF taskVars, IInv, TypeOK, NoFailure
<1>1. ASSUME NEW v \in Workers, WorkerCrash(v) PROVE FALSE
  BY <1>1 DEF WorkerCrash, Becomes
<1>2. ASSUME NEW w \in Workers, wstate[w] = "failed" PROVE wstate'[w] = "failed"
  <2>1. ASSUME NEW r \in Requests, EnqueueLocked(r) PROVE wstate'[w] = "failed"
    <3>1. wstate' = wstate \/ NotifyOne
      BY <2>1 DEF EnqueueLocked, RejectOutOfOrder, RejectOverloaded, Admit
    <3> QED BY <1>2, <3>1 DEF NotifyOne, Waiting
  <2>2. ASSUME NEW r \in Requests, Submit(r) \/ Abandon(r) PROVE wstate'[w] = "failed"
    BY <1>2, <2>2 DEF Submit, Abandon
  <2>3. ASSUME NEW v \in Workers, WorkerPass(v) \/ WakeUp(v) \/ BackendEnds(v)
        PROVE  wstate'[w] = "failed"
    <3>1. wstate[v] # "failed"
      BY <2>3, PassMoves DEF WakeUp, BackendEnds, BackendReturns, BackendFails, BackendCancelled
    <3>2. \E state : wstate' = [wstate EXCEPT ![v] = state]
      BY <2>3, PassMoves DEF WakeUp, BackendEnds, BackendReturns, BackendFails, BackendCancelled,
         BatchDone
    <3> QED BY <1>2, <3>1, <3>2
  <2>4. ASSUME Start PROVE wstate'[w] = "failed"
    BY <1>2, <2>4 DEF Start
  <2>5. ASSUME Tick \/ UNCHANGED vars PROVE wstate'[w] = "failed"
    BY <1>2, <2>5 DEF Tick, vars
  <2>6. ASSUME NEW c \in Closers, CloseBegin(c) \/ CloseLocked(c) \/ CloseJoins(c)
        PROVE  wstate'[w] = "failed"
    BY <1>2, <2>6 DEF CloseBegin, CloseLocked, NotifyAll, Waiting, CloseJoins, CloseReturn,
       CloseRaise, CloseCancelled
  <2>7. ASSUME NEW v \in Workers, WaitFor(v) PROVE wstate'[w] = "failed"
    <3>1. wstate[v] # "failed"
      BY <2>7, WaitForStep
    <3> QED BY <1>2, <2>7, <3>1, WaitForStep
  <2> QED BY <2>1, <2>2, <2>3, <2>4, <2>5, <2>6, <2>7 DEF Next
<1> QED BY <1>1, <1>2

\* Whatever takes an active envelope out of the heap clears the pointer to it.
LEMMA PointerStep ==
  ASSUME IInv, PointerOK, [Next]_vars
  PROVE  PointerOK'
<1> SUFFICES ASSUME NoFailure', NEW s \in Sessions, pendingOf'[s] # None, active'[pendingOf'[s]]
             PROVE  pendingOf'[s] \in heap'
  BY DEF PointerOK
<1>1. /\ \A w \in Workers : ~WorkerCrash(w)
      /\ pendingOf[s] # None /\ active[pendingOf[s]] => pendingOf[s] \in Live
  BY FailureStays DEF PointerOK, Live
<1>2. pendingOf[s] # None => pendingOf[s] \in Requests
  BY DEF IInv, TypeOK
<1>3. ASSUME NEW G, active' = Deactivate(G), pendingOf' = ClearPointers(G),
             Live \ G \subseteq heap'
      PROVE  pendingOf'[s] \in heap'
  BY <1>1, <1>2, <1>3 DEF Deactivate, ClearPointers
<1>4. CASE Elsewhere
  BY <1>1, <1>4, ElsewhereKeeps DEF Live
<1>5. ASSUME NEW q \in Requests, EnqueueLocked(q) PROVE pendingOf'[s] \in heap'
  <2>1. CASE RejectOutOfOrder(q)
    BY <1>1, <1>2, <2>1 DEF RejectOutOfOrder, Deactivate, Live
  <2>2. CASE RejectOverloaded(q)
    BY <1>1, <1>2, <2>2 DEF RejectOverloaded, Deactivate, ClearPointers
  <2>3. CASE Admit(q)
    <3>1. PICK old : /\ active' = Deactivate(Expired \cup old)
                     /\ heap' = (Live \ Expired) \cup {q}
                     /\ \/ pendingOf' = ClearPointers(Expired)
                        \/ pendingOf' = [ClearPointers(Expired) EXCEPT ![request[q].session] = q]
      BY <2>3 DEF Admit
    <3>2. CASE pendingOf'[s] = q
      BY <3>1, <3>2
    <3>3. CASE pendingOf'[s] # q
      <4>1. pendingOf'[s] = ClearPointers(Expired)[s]
        BY <3>1, <3>3 DEF ClearPointers
      <4> QED BY <1>1, <1>2, <3>1, <4>1 DEF Deactivate, ClearPointers
    <3> QED BY <3>2, <3>3
  <2> QED BY <1>5, <2>1, <2>2, <2>3 DEF EnqueueLocked
<1>6. ASSUME NEW q \in Requests, Abandon(q) PROVE pendingOf'[s] \in heap'
  BY <1>1, <1>6 DEF Abandon, queueVars, Live
<1>7. ASSUME NEW w \in Workers, WorkerPass(w) PROVE pendingOf'[s] \in heap'
  <2>1. ASSUME NEW est, SweepOnly(est) PROVE pendingOf'[s] \in heap'
    BY <1>3, <2>1 DEF SweepOnly, Queue
  <2>2. CASE WorkerDispatch(w)
    <3>1. PICK est, B : Take(w, Queue(est), Swept(est), B)
      BY <2>2 DEF WorkerDispatch
    <3>2. Live \ (Swept(est) \cup B) \subseteq heap'
      BY <3>1 DEF Take, Queue
    <3> QED BY <1>3, <3>1, <3>2 DEF Take
  <2> QED BY <1>1, <1>7, <2>1, <2>2 DEF WorkerPass, WorkerExit, WorkerIdle, WorkerHold
<1>8. ASSUME NEW w \in Workers, BackendReturns(w) \/ BackendFails(w)
      PROVE  pendingOf'[s] \in heap'
  BY <1>1, <1>8 DEF BackendReturns, BackendFails, BatchDone, queueVars, Live
<1>9. ASSUME NEW c \in Closers, CloseLocked(c) PROVE pendingOf'[s] \in heap'
  BY <1>1, <1>9 DEF CloseLocked, Live
<1> QED BY <1>4, <1>5, <1>6, <1>7, <1>8, <1>9, StepKinds

\* A replacement takes the place of what it replaces; any other newcomer was let
\* in below the bound.
LEMMA CapacityStep ==
  ASSUME IInv, PointerOK, CapacityRespected, [Next]_vars
  PROVE  CapacityRespected'
<1> SUFFICES ASSUME MaxPending # 0, NoFailure' PROVE Cardinality(Live') <= MaxPending
  BY DEF CapacityRespected
<1>1. Cardinality(Live) <= MaxPending /\ MaxPending \in Nat
  BY FailureStays, ConfigAssumption DEF CapacityRespected, ConfigAssumption
<1>2. IsFiniteSet(Live) /\ Cardinality(Live) \in Nat
  BY ConfigAssumption, FS_Subset, FS_CardinalityType DEF ConfigAssumption, Live, IInv, TypeOK
<1>3. ASSUME NEW S, IsFiniteSet(S), Live' \in SUBSET S, Cardinality(S) <= MaxPending
      PROVE  Cardinality(Live') <= MaxPending
  <2>1. /\ Cardinality(Live') <= Cardinality(S)
        /\ Cardinality(S) \in Nat /\ Cardinality(Live') \in Nat
    BY <1>3, FS_Subset, FS_CardinalityType
  <2> QED BY <1>1, <1>3, <2>1
<1>4. CASE \E G : Shrinks(G)
  <2>1. Live' \in SUBSET Live
    BY <1>4 DEF Shrinks
  <2> QED BY <1>1, <1>2, <1>3, <2>1
<1>5. ASSUME NEW q \in Requests, EnqueueLocked(q), Admit(q)
      PROVE  Cardinality(Live') <= MaxPending
  <2>1. /\ Live' \subseteq (Live \ Expired) \cup {q}
        /\ Previous(q) # None => Previous(q) \notin Live'
        /\ request[q] \in Request
    BY <1>5, AdmitQueue DEF IInv
  <2>2. CASE Previous(q) = None
    <3> DEFINE Room == Live \ Expired
    <3>1. Room \in SUBSET Live /\ IsFiniteSet(Room) /\ Cardinality(Room) \in Nat
      BY <1>2, FS_Subset, FS_CardinalityType
    <3>2. ~(Cardinality(Room) >= MaxPending)
      BY <1>5, <2>2 DEF Admit, AtCapacity
    <3>3. /\ IsFiniteSet(Room \cup {q})
          /\ Cardinality(Room \cup {q}) \in {Cardinality(Room), Cardinality(Room) + 1}
      BY <3>1, FS_AddElement
    <3>4. Live' \in SUBSET (Room \cup {q})
      BY <2>1
    <3> HIDE DEF Room
    <3>5. Cardinality(Room \cup {q}) <= MaxPending
      BY <1>1, <3>1, <3>2, <3>3
    <3> QED BY <1>3, <3>3, <3>4, <3>5
  <2>3. CASE Previous(q) # None
    <3>1. PICK p : p = Previous(q)
      OBVIOUS
    <3>2. p \in Live
      BY <2>1, <2>3, <3>1, FailureStays DEF Previous, PointerOK, Live, Request
    <3>3. /\ IsFiniteSet(Live \ {p}) /\ Cardinality(Live \ {p}) = Cardinality(Live) - 1
      BY <1>2, <3>2, FS_RemoveElement
    <3>4. /\ IsFiniteSet((Live \ {p}) \cup {q})
          /\ Cardinality((Live \ {p}) \cup {q})
               \in {Cardinality(Live \ {p}), Cardinality(Live \ {p}) + 1}
      BY <3>3, FS_AddElement
    <3>5. Cardinality((Live \ {p}) \cup {q}) <= MaxPending
      BY <1>1, <1>2, <3>3, <3>4
    <3>6. Live' \in SUBSET ((Live \ {p}) \cup {q})
      BY <2>1, <2>3, <3>1
    <3> QED BY <1>3, <3>4, <3>5, <3>6
  <2> QED BY <2>2, <2>3
<1> QED BY <1>4, <1>5, QueueStep DEF IInv

\* The bound on pending requests holds although a replacement is admitted without
\* asking for room, until a worker fails (scheduler.py, enqueue()).
THEOREM CapacityIsKept == Spec => []CapacityRespected
<1>1. Init => IInv /\ PointerOK /\ CapacityRespected
  <2>1. Init => PointerOK
    BY DEF Init, PointerOK
  <2>2. Init => Live = {}
    BY DEF Init, Live
  <2>3. Init => CapacityRespected
    BY <2>2, FS_EmptySet, ConfigAssumption DEF CapacityRespected, ConfigAssumption
  <2> QED BY <2>1, <2>3, InitIInv
<1>2. (IInv /\ PointerOK /\ CapacityRespected) /\ [Next]_vars
        => (IInv /\ PointerOK /\ CapacityRespected)'
  BY NextIInv, PointerStep, CapacityStep
<1> QED BY <1>1, <1>2, PTL DEF Spec

-----------------------------------------------------------------------------
(* What close() leaves behind.                                              *)

Running == {"ready", "idle", "timed", "executing"}

\* A call of close() is on its way: it has read self._worker and has not come back.
Closing(c) == closer[c] \in {"locking", "joining"}

\* start() is called while a call of close() is on its way.  orphaned_worker shows what
\* happens then: the late close() forgets the new worker.
RestartInClose == Start /\ \E c \in Closers : Closing(c)

\* The scheduler's only running worker is the one start() kept; without one it is
\* drained and does not accept; and a close() joins that worker, or one that another
\* close() has seen the end of.
DrainOK ==
  /\ \A w \in Workers : wstate[w] \in Running => handle = w
  /\ handle = None \/ wstate[handle] = "done" => Live = {} /\ ~accepting
  /\ \A c \in Closers : Closing(c) =>
       \/ handle # None /\ joined[c] = handle
       \/ handle = None /\ joined[c] \in Workers /\ wstate[joined[c]] = "done"

\* Between passes a worker that runs may be made ready, and no other one changes.
LEMMA BetweenPasses ==
  ASSUME WorkersSurvive, ~LockYields, IInv, [Next]_vars, ~Start, \A w \in Workers : ~WorkerPass(w),
         NEW w \in Workers
  PROVE  wstate'[w] = wstate[w] \/ (wstate[w] \in Running /\ wstate'[w] = "ready")
<1> USE DEF taskVars, IInv, TypeOK, Running
<1>1. ASSUME NEW r \in Requests, Submit(r) \/ Abandon(r) PROVE wstate' = wstate
  BY <1>1 DEF Submit, Abandon
<1>2. ASSUME NEW r \in Requests, EnqueueLocked(r)
      PROVE  wstate'[w] = wstate[w] \/ (wstate[w] \in Running /\ wstate'[w] = "ready")
  <2>1. wstate' = wstate \/ NotifyOne
    BY <1>2 DEF EnqueueLocked, RejectOutOfOrder, RejectOverloaded, Admit
  <2> QED BY <2>1, Uncontended DEF NotifyOne, Waiting
<1>3. ASSUME NEW v \in Workers, WakeUp(v) \/ BackendReturns(v) \/ BackendFails(v)
      PROVE  wstate[v] \in Running /\ wstate' = [wstate EXCEPT ![v] = "ready"]
  BY <1>3, Uncontended DEF WakeUp, BackendReturns, BackendFails, BatchDone
<1>4. ASSUME NEW v \in Workers PROVE ~BackendCancelled(v)
  BY DEF WorkersSurvive, BackendCancelled
<1>5. ASSUME NEW c \in Closers, CloseBegin(c) \/ CloseReturn(c) \/ CloseRaise(c)
      PROVE  wstate' = wstate
  BY <1>5 DEF CloseBegin, CloseReturn, CloseRaise
<1>6. ASSUME NEW c \in Closers, CloseLocked(c)
      PROVE  wstate'[w] = wstate[w] \/ (wstate[w] \in Running /\ wstate'[w] = "ready")
  BY <1>6, Uncontended DEF CloseLocked, NotifyAll, Waiting
<1>7. ASSUME NEW c \in Closers PROVE ~CloseCancelled(c)
  BY DEF WorkersSurvive, CloseCancelled
<1>8. ASSUME Tick \/ UNCHANGED vars PROVE wstate' = wstate
  BY <1>8 DEF Tick, vars
<1> QED BY <1>1, <1>2, <1>3, <1>4, <1>5, <1>6, <1>7, <1>8, Uncontended DEF Next, BackendEnds, CloseJoins

\* Apart from start() and close(), nobody touches the lifecycle, and nothing is
\* queued while the scheduler does not accept.
LEMMA LifeSteps ==
  ASSUME WorkersSurvive, IInv, AwakeOK, [Next]_vars
  PROVE  /\ ~accepting /\ Live = {} => Live' = {}
         /\ \/ UNCHANGED lifeVars
            \/ Start
            \/ \E c \in Closers : CloseBegin(c) \/ CloseLocked(c) \/ CloseReturn(c) \/ CloseRaise(c)
<1>1. ASSUME NEW r \in Requests, EnqueueLocked(r) PROVE accepting
  BY <1>1 DEF AwakeOK, EnqueueLocked
<1>2. ~accepting /\ Live = {} => Live' = {}
  BY <1>1, QueueStep DEF IInv, Shrinks
<1>3. ASSUME NEW r \in Requests, Submit(r) \/ EnqueueLocked(r) \/ Abandon(r)
      PROVE  UNCHANGED lifeVars
  BY <1>3 DEF Submit, EnqueueLocked, Abandon
<1>4. ASSUME NEW w \in Workers, WorkerPass(w) PROVE UNCHANGED lifeVars
  BY <1>4 DEF WorkerPass, WorkerExit, WorkerIdle, WorkerHold, WorkerDispatch, WorkerCrash, SweepOnly
<1>5. ASSUME NEW w \in Workers, WakeUp(w) \/ BackendEnds(w) PROVE UNCHANGED lifeVars
  BY <1>5 DEF WakeUp, BackendEnds, BackendReturns, BackendFails, BackendCancelled, BatchDone
<1>6. ASSUME NEW c \in Closers PROVE ~CloseCancelled(c)
  BY DEF WorkersSurvive, CloseCancelled
<1>7. ASSUME Tick \/ UNCHANGED vars PROVE UNCHANGED lifeVars
  BY <1>7 DEF Tick, vars
<1>8. ASSUME NEW w \in Workers, WaitFor(w) PROVE UNCHANGED lifeVars
  BY <1>8 DEF WaitFor
<1> QED BY <1>2, <1>3, <1>4, <1>5, <1>6, <1>7, <1>8 DEF Next, CloseJoins

\* A step that changes nothing is no restart.
LEMMA NoRestartInClose ==
  ASSUME [~RestartInClose]_vars, IInv
  PROVE  ~RestartInClose
<1> SUFFICES ASSUME UNCHANGED vars, Start PROVE FALSE
  BY DEF RestartInClose
<1>1. handle = None /\ handle' \in Workers
  BY DEF Start
<1> QED BY <1>1, ConfigAssumption DEF vars, lifeVars, ConfigAssumption

\* One worker runs at a time, and every close() on its way waits for that one.
LEMMA DrainStep ==
  ASSUME WorkersSurvive, ~LockYields, IInv, AwakeOK, DrainOK, [Next]_vars, ~RestartInClose
  PROVE  DrainOK'
<1> USE ConfigAssumption DEF ConfigAssumption, IInv, TypeOK, lifeVars, Closing
<1>1. CASE Start
  <2>1. PICK v \in Workers : wstate[v] = "unborn" /\ handle' = v
                             /\ wstate' = [wstate EXCEPT ![v] = "ready"]
    BY <1>1 DEF Start
  <2>2. handle = None /\ UNCHANGED <<closer, joined>>
    BY <1>1 DEF Start
  <2>3. \A w \in Workers : wstate[w] \notin Running
    BY <2>2 DEF DrainOK
  <2>4. \A w \in Workers : wstate'[w] \in Running => handle' = w
    BY <2>1, <2>3
  <2>5. handle' # None /\ wstate'[handle'] # "done"
    BY <2>1
  <2>6. \A c \in Closers : ~Closing(c)'
    BY <1>1, <2>2 DEF RestartInClose
  <2> QED BY <2>4, <2>5, <2>6 DEF DrainOK
<1>2. ASSUME NEW c \in Closers, CloseReturn(c) PROVE DrainOK'
  <2>1. /\ closer[c] = "joining" /\ wstate[joined[c]] = "done" /\ handle' = None
        /\ closer' = [closer EXCEPT ![c] = "returned"] /\ UNCHANGED <<wstate, accepting, joined>>
    BY <1>2 DEF CloseReturn, taskVars
  <2>2. handle = None \/ wstate[handle] = "done"
    BY <2>1 DEF DrainOK
  <2>3. \A w \in Workers : wstate'[w] \notin Running
    BY <2>1, <2>2 DEF DrainOK, Running
  <2>4. Live' = {} /\ ~accepting'
    BY <2>1, <2>2, LifeSteps DEF DrainOK
  <2>5. ASSUME NEW d \in Closers, Closing(d)'
        PROVE  joined'[d] \in Workers /\ wstate'[joined'[d]] = "done"
    <3>1. Closing(d)
      BY <2>1, <2>5
    <3> QED BY <2>1, <2>2, <3>1 DEF DrainOK
  <2> QED BY <2>1, <2>3, <2>4, <2>5 DEF DrainOK
<1>3. ASSUME ~Start, handle' = handle, accepting' = accepting \/ ~accepting'
      PROVE  /\ \A w \in Workers : wstate'[w] \in Running => handle' = w
             /\ handle' = None \/ wstate'[handle'] = "done" => Live' = {} /\ ~accepting'
             /\ \A w \in Workers : wstate[w] = "done" => wstate'[w] = "done"
  <2>1. CASE \A w \in Workers : ~WorkerPass(w)
    <3>1. \A w \in Workers : \/ wstate'[w] = wstate[w]
                             \/ wstate[w] \in Running /\ wstate'[w] = "ready"
      BY <1>3, <2>1, BetweenPasses
    <3>2. ASSUME handle' = None \/ wstate'[handle'] = "done"
          PROVE  handle = None \/ wstate[handle] = "done"
      BY <1>3, <3>1, <3>2
    <3>3. \A w \in Workers : wstate[w] = "done" => wstate'[w] = "done"
      BY <3>1 DEF Running
    <3> QED BY <1>3, <3>1, <3>2, <3>3, LifeSteps DEF DrainOK
  <2>2. ASSUME NEW v \in Workers, WorkerPass(v)
        PROVE  /\ \A w \in Workers : wstate'[w] \in Running => handle' = w
               /\ handle' = None \/ wstate'[handle'] = "done" => Live' = {} /\ ~accepting'
               /\ \A w \in Workers : wstate[w] = "done" => wstate'[w] = "done"
    <3>1. wstate[v] = "ready" /\ handle = v
      BY <2>2, PassLine, Uncontended DEF DrainOK, Running
    <3>2. \A w \in Workers \ {v} : wstate'[w] = wstate[w]
      BY <2>2, WorkerKeepsAwake
    <3>3. wstate'[v] = "done" => Live' = {} /\ ~accepting'
      BY <2>2, WorkerKeepsAwake
    <3> QED BY <1>3, <3>1, <3>2, <3>3 DEF DrainOK
  <2> QED BY <2>1, <2>2
<1>4. ASSUME NEW c \in Closers, CloseBegin(c) \/ CloseLocked(c) \/ CloseRaise(c) PROVE DrainOK'
  <2>1. handle' = handle /\ (accepting' = accepting \/ ~accepting')
    BY <1>4 DEF CloseBegin, CloseLocked, CloseRaise
  <2>2. ~Start
    <3>1. closer'[c] # closer[c]
      BY <1>4, LineHead DEF CloseBegin, CloseLocked, CloseRaise
    <3> QED BY <3>1 DEF Start
  <2>3. ASSUME NEW d \in Closers, Closing(d)'
        PROVE  \/ Closing(d) /\ joined'[d] = joined[d]
               \/ handle # None /\ joined'[d] = handle
    <3>1. CASE CloseBegin(c)
      BY <2>3, <3>1 DEF CloseBegin
    <3>2. CASE CloseLocked(c)
      BY <2>3, <3>2, LineHead DEF CloseLocked
    <3>3. CASE CloseRaise(c)
      BY <2>3, <3>3 DEF CloseRaise
    <3> QED BY <1>4, <3>1, <3>2, <3>3
  <2> QED BY <1>3, <2>1, <2>2, <2>3 DEF DrainOK
<1>5. CASE UNCHANGED lifeVars /\ ~Start
  BY <1>3, <1>5 DEF DrainOK
<1> QED BY <1>1, <1>2, <1>4, <1>5, LifeSteps

\* From Python 3.12 on, while nobody restarts the scheduler during a close() and
\* unless something kills the worker: once close() has returned no worker runs and
\* every admitted request is resolved, so the backend may be closed next (server.py,
\* the lifespan).
THEOREM CloseLeavesNothing ==
  ASSUME WorkersSurvive, ~LockYields
  PROVE  Spec /\ [][~RestartInClose]_vars => []CloseDrains
<1>1. Init => IInv /\ ActiveOK /\ NothingLost /\ AwakeOK /\ DrainOK
  <2> SUFFICES ASSUME Init PROVE ActiveOK /\ NothingLost /\ AwakeOK /\ DrainOK
    BY InitIInv
  <2>1. ActiveOK /\ NothingLost /\ AwakeOK
    BY DEF Init, ActiveOK, NothingLost, Admitted, AwakeOK, HasLock
  <2>2. DrainOK
    BY DEF Init, DrainOK, Live, Running, Closing
  <2> QED BY <2>1, <2>2
<1>2. (IInv /\ ActiveOK /\ NothingLost /\ AwakeOK /\ DrainOK)
        /\ [Next]_vars /\ [~RestartInClose]_vars
        => (IInv /\ ActiveOK /\ NothingLost /\ AwakeOK /\ DrainOK)'
  BY NextIInv, ActiveStep, NothingLostStep, AwakeStep, DrainStep, NoRestartInClose
<1>3. IInv /\ ActiveOK /\ NothingLost /\ AwakeOK /\ DrainOK => CloseDrains
  <2> SUFFICES ASSUME IInv, DrainOK, NothingLost, handle = None PROVE
                 Live0 = {} /\ Live = {} /\ \A r \in Requests : Admitted(r) => outcome[r].status # "PENDING"
    BY DEF CloseDrains
  <2>1. \A w \in Workers : wstate[w] \notin Running
    BY ConfigAssumption DEF DrainOK, ConfigAssumption
  <2>2. Live = {}
    BY DEF DrainOK
  <2> QED BY <2>1, <2>2, Uncontended DEF Live0, Running, NothingLost
<1> QED BY <1>1, <1>2, <1>3, PTL DEF Spec

-----------------------------------------------------------------------------
(* The batching window.                                                     *)

\* Only a worker pass sets the timer of a worker.
LEMMA WakeStays ==
  ASSUME [Next]_vars, \A w \in Workers : ~WorkerPass(w)
  PROVE  wake' = wake
BY DEF Next, vars, taskVars, Submit, EnqueueLocked, Abandon, WakeUp, WaitFor, BackendEnds, BackendReturns,
   BackendFails, BackendCancelled, BatchDone, Start, CloseBegin, CloseLocked, CloseJoins,
   CloseReturn, CloseRaise, CloseCancelled, Tick

\* A worker that goes to sleep looks at the leader, which is due first.
LEMMA HoldStep ==
  ASSUME ~LockYields, IInv, Policy = "edf", NEW w \in Workers, WorkerHold(w), NEW r \in Live'
  PROVE  \E est \in Estimates : wake'[w] <= request'[r].deadline - Guard - Predicted(est)
<1>1. PICK est \in Estimates, lead \in Requests :
        /\ First(lead, Queue(est)) /\ SweepOnly(est)
        /\ Becomes(w, "timed", DispatchAt(lead, est))
  BY DEF WorkerHold
<1>2. /\ request' = request /\ wake'[w] = DispatchAt(lead, est) /\ r \in Queue(est)
  BY <1>1 DEF SweepOnly, Becomes, Live, callVars, IInv, TypeOK
<1>3. /\ r \in Live /\ lead \in Live
  BY <1>1, <1>2 DEF Queue, First
<1>4. /\ request[r].deadline \in Nat /\ request[lead].deadline \in Nat
      /\ request[lead].received \in Nat
  BY <1>3 DEF IInv, TypeOK, QueueOK, CallsOK, Live, Request
<1>5. request[lead].deadline <= request[r].deadline
  BY <1>1, <1>2, <1>4 DEF First, Before
<1>6. Guard \in Nat /\ Window \in Nat /\ Predicted(est) \in Int
  BY ConfigAssumption DEF ConfigAssumption, Predicted, NoEstimate
<1>7. DispatchAt(lead, est) <= request[lead].deadline - Guard - Predicted(est)
  BY <1>4, <1>6 DEF DispatchAt
<1>8. DispatchAt(lead, est) \in Int
  BY <1>4, <1>6 DEF DispatchAt
<1> HIDE DEF Predicted
<1> QED BY <1>2, <1>4, <1>5, <1>6, <1>7, <1>8

\* Whoever arrives during the sleep wakes the only sleeper.
LEMMA SleepStep ==
  ASSUME WorkersSurvive, ~LockYields, IInv, DrainOK, SleepEndsBeforeGuard, [Next]_vars
  PROVE  SleepEndsBeforeGuard'
<1> SUFFICES ASSUME Policy = "edf", NEW w \in Workers, wstate'[w] = "timed", NEW r \in Live'
             PROVE  \E est \in Estimates :
                      wake'[w] <= request'[r].deadline - Guard - Predicted(est)
  <2>1. \A w \in Workers : wstate'[w] # "settling"
    BY NobodyParked DEF IInv
  <2> QED BY <2>1 DEF SleepEndsBeforeGuard, Predicted
<1>1. ASSUME NEW v \in Workers, NEW u \in Workers, wstate[v] \in Running, wstate[u] \in Running
      PROVE  v = u
  BY <1>1 DEF DrainOK
<1>2. CASE WorkerPass(w)
  <2>1. WorkerHold(w)
    BY <1>2 DEF WorkerPass, WorkerExit, WorkerIdle, WorkerDispatch, WorkerCrash, Becomes,
       IInv, TypeOK
  <2> QED BY <2>1, HoldStep
<1>3. ASSUME NEW v \in Workers, v # w PROVE ~WorkerPass(v)
  <2> SUFFICES ASSUME WorkerPass(v) PROVE FALSE
    OBVIOUS
  <2>1. wstate[v] = "ready"
    BY PassLine, Uncontended
  <2>2. wstate[w] = "timed"
    BY <1>3, WorkerKeepsAwake
  <2> QED BY <1>1, <1>3, <2>1, <2>2 DEF Running
<1>4. CASE \A v \in Workers : ~WorkerPass(v)
  <2>1. wstate[w] = "timed"
    <3>1. CASE Start
      BY <3>1 DEF Start, IInv, TypeOK
    <3>2. CASE ~Start
      BY <1>4, <3>2, BetweenPasses
    <3> QED BY <3>1, <3>2
  <2>2. ~ \E q \in Requests : EnqueueLocked(q) /\ Admit(q)
    <3> SUFFICES ASSUME NEW q \in Requests, Admit(q) PROVE FALSE
      OBVIOUS
    <3>1. NotifyOne
      BY DEF Admit
    <3>2. PICK v \in Workers : Waiting(v) /\ wstate' = [wstate EXCEPT ![v] = "ready"]
      BY <2>1, <3>1, Uncontended DEF NotifyOne, Waiting
    <3>3. v = w
      BY <1>1, <2>1, <3>2 DEF Waiting, Running
    <3> QED BY <3>2, <3>3 DEF IInv, TypeOK
  <2>3. r \in Live
    BY <2>2, QueueStep DEF IInv, Shrinks
  <2>4. request'[r] = request[r]
    BY <2>3, CallStep DEF IInv, TypeOK, Live, QueueOK
  <2>5. wake'[w] = wake[w]
    BY <1>4, WakeStays
  <2> QED BY <2>1, <2>3, <2>4, <2>5 DEF SleepEndsBeforeGuard
<1> QED BY <1>2, <1>3, <1>4

\* From Python 3.12 on, while nobody restarts the scheduler during a close() and
\* unless something kills the worker: a worker that sleeps in the batching window
\* wakes up before the dispatch guard of every queued request, those that arrived
\* during the sleep included (scheduler.py, _run()).
THEOREM WakesInTime ==
  ASSUME WorkersSurvive, ~LockYields
  PROVE  Spec /\ [][~RestartInClose]_vars => []SleepEndsBeforeGuard
<1>1. Init => IInv /\ AwakeOK /\ DrainOK /\ SleepEndsBeforeGuard
  <2> SUFFICES ASSUME Init PROVE AwakeOK /\ DrainOK /\ SleepEndsBeforeGuard
    BY InitIInv
  <2>1. Live = {}
    BY DEF Init, Live
  <2>2. AwakeOK
    BY DEF Init, AwakeOK, HasLock
  <2>3. DrainOK
    BY <2>1 DEF Init, DrainOK, Running, Closing
  <2> QED BY <2>1, <2>2, <2>3 DEF SleepEndsBeforeGuard
<1>2. (IInv /\ AwakeOK /\ DrainOK /\ SleepEndsBeforeGuard)
        /\ [Next]_vars /\ [~RestartInClose]_vars
        => (IInv /\ AwakeOK /\ DrainOK /\ SleepEndsBeforeGuard)'
  BY NextIInv, AwakeStep, DrainStep, SleepStep, NoRestartInClose
<1> QED BY <1>1, <1>2, PTL DEF Spec

-----------------------------------------------------------------------------
(* Metrics.                                                                 *)

\* Each counter of a book is the number of futures that hold its status.
Counts(book) ==
  \A s \in Statuses : book.tally[s] = Cardinality({r \in Requests : book.outcome[r].status = s})

\* What was submitted passed the lock, and what was served was dispatched.
SubmittedOK == submitted = Cardinality({r \in Requests : caller[r] = "submitted"})
ServedOK == NoFailure => served = Cardinality({r \in Requests : dispatched[r]})

\* Adding a disjoint set of requests to another adds up their sizes.
LEMMA DisjointSizes ==
  ASSUME NEW S \in SUBSET Requests, NEW T \in SUBSET Requests, S \cap T = {}
  PROVE  Cardinality(S \cup T) = Cardinality(S) + Cardinality(T)
<1>1. IsFiniteSet(S) /\ IsFiniteSet(T)
  BY ConfigAssumption, FS_Subset DEF ConfigAssumption
<1>2. Cardinality(S) \in Nat /\ Cardinality(T) \in Nat /\ Cardinality({}) = 0
  BY <1>1, FS_CardinalityType, FS_EmptySet
<1>3. Cardinality(S \cup T) = Cardinality(S) + Cardinality(T) - Cardinality(S \cap T)
  BY <1>1, FS_Union
<1>4. Cardinality(S \cap T) = 0
  BY <1>2
<1> QED BY <1>2, <1>3, <1>4

\* _finish counts the futures it resolves, and only those.
LEMMA FinishCountsFresh ==
  ASSUME NEW book, NEW results, IsBook(book), DOMAIN results \subseteq Requests,
         \A r \in DOMAIN results : results[r] \in Outcome, Counts(book)
  PROVE  Counts(Finish(book, results))
<1> DEFINE fresh == {r \in DOMAIN results : book.outcome[r].status = "PENDING"}
           old(s) == {r \in Requests : book.outcome[r].status = s}
           new(s) == {r \in fresh : results[r].status = s}
<1> SUFFICES ASSUME NEW s \in Statuses
             PROVE  Finish(book, results).tally[s]
                      = Cardinality({r \in Requests : Finish(book, results).outcome[r].status = s})
  BY DEF Counts
<1>1. Finish(book, results).tally[s] = book.tally[s] + Cardinality(new(s))
  BY DEF Finish
<1>2. {r \in Requests : Finish(book, results).outcome[r].status = s} = old(s) \cup new(s)
  <2>1. s # "PENDING"
    BY DEF Statuses
  <2> QED BY <2>1, FinishEffect
<1>3. old(s) \in SUBSET Requests /\ new(s) \in SUBSET Requests /\ old(s) \cap new(s) = {}
  BY DEF Statuses
<1>4. Cardinality(old(s) \cup new(s)) = Cardinality(old(s)) + Cardinality(new(s))
  BY <1>3, DisjointSizes
<1>5. book.tally[s] = Cardinality(old(s))
  BY DEF Counts
<1> QED BY <1>1, <1>2, <1>4, <1>5

\* So does giving the same outcome to every envelope of S.
LEMMA AllCountsFresh ==
  ASSUME NEW book, IsBook(book), Counts(book), NEW S \in SUBSET Requests, NEW status \in Statuses
  PROVE  IsBook(Finish(book, All(S, status))) /\ Counts(Finish(book, All(S, status)))
BY AllEffect, FinishCountsFresh, FinishEffect

\* Writing back a book that counts right.
LEMMA WriteCounts ==
  ASSUME NEW book, Counts(book), Write(book)
  PROVE  Counts(Book)'
BY DEF Write, Counts, Book

\* The sweeps count what they resolve.
LEMMA SweptCounts ==
  ASSUME TypeOK, Counts(Book)
  PROVE  IsBook(ExpiredBook) /\ Counts(ExpiredBook) /\ \A est : Counts(SweptBook(est))
<1>1. Expired \in SUBSET Requests /\ \A est : Unserviceable(est) \in SUBSET Requests
  BY DEF Expired, Unserviceable, Live, TypeOK
<1>2. {"EXPIRED", "UNSERVICEABLE"} \subseteq Statuses
  BY DEF Statuses
<1>3. IsBook(ExpiredBook) /\ Counts(ExpiredBook)
  BY <1>1, <1>2, BookTyped, AllCountsFresh DEF ExpiredBook
<1>4. ASSUME NEW est PROVE Counts(SweptBook(est))
  <2>1. Counts(Finish(ExpiredBook, All(Unserviceable(est), "UNSERVICEABLE")))
    BY <1>1, <1>2, <1>3, AllCountsFresh
  <2> QED BY <2>1 DEF SweptBook, ExpiredBook
<1> QED BY <1>3, <1>4

\* The end of a batch counts its answers first, then what is left of it as failed.
LEMMA BackendCounts ==
  ASSUME IInv, Counts(Book), NEW w \in Workers, BackendReturns(w) \/ BackendFails(w)
  PROVE  Counts(Book)'
<1>1. IsBook(Book) /\ batch[w] \in SUBSET Requests /\ "FAILED" \in Statuses
  BY BookTyped DEF IInv, TypeOK, Statuses
<1>2. CASE BackendFails(w)
  <2>1. Counts(Finish(Book, All(batch[w], "FAILED")))
    BY <1>1, AllCountsFresh
  <2> QED BY <1>2, <2>1, WriteCounts DEF BackendFails, BatchDone
<1>3. CASE BackendReturns(w)
  <2>1. PICK action \in [batch[w] -> batch[w] \cup {Alien}] : Write(Routed(batch[w], action))
    BY <1>3 DEF BackendReturns, BatchDone
  <2> DEFINE B == batch[w]
             good == {r \in B : \A q \in B : (q = r \/ Before(q, r)) => action[q] = q}
             answers == [r \in good |-> Answer(r, action[r])]
             answered == Finish(Book, answers)
  <2>2. good \subseteq Requests /\ DOMAIN answers = good
    BY <1>1
  <2>3. ASSUME NEW r \in good PROVE answers[r] \in Outcome
    <3>1. action[r] = r /\ r \in Requests /\ answers[r] = Answer(r, action[r])
      BY <1>1, <2>3
    <3>2. {"COMPLETED", "DEADLINE_MISSED"} \subseteq Statuses
      BY DEF Statuses
    <3> HIDE DEF good, answers
    <3> QED BY <3>1, <3>2, ResultTyped DEF Answer
  <2>4. IsBook(answered) /\ Counts(answered)
    <3> HIDE DEF good, answers
    <3> QED BY <1>1, <2>2, <2>3, FinishCountsFresh, FinishEffect
  <2>5. Counts(Finish(answered, All(B, "FAILED")))
    BY <1>1, <2>4, AllCountsFresh
  <2>6. Routed(B, action) \in {answered, Finish(answered, All(B, "FAILED"))}
    BY DEF Routed
  <2>7. Counts(Routed(B, action))
    <3> HIDE DEF answered
    <3> QED BY <2>4, <2>5, <2>6
  <2> QED BY <2>1, <2>7, WriteCounts
<1> QED BY <1>2, <1>3

\* The counters follow the futures.
LEMMA CountsStep ==
  ASSUME IInv, Counts(Book), [Next]_vars
  PROVE  Counts(Book)'
<1>1. /\ IsBook(Book) /\ Book.outcome = outcome /\ Book.tally = tally
      /\ {"OUT_OF_ORDER", "OVERLOADED", "REPLACED", "CANCELLED"} \subseteq Statuses
  BY BookTyped DEF IInv, Statuses
<1>2. /\ IsBook(ExpiredBook) /\ Counts(ExpiredBook) /\ \A est : Counts(SweptBook(est))
  BY SweptCounts DEF IInv
<1>3. CASE UNCHANGED bookVars
  BY <1>3 DEF bookVars, Counts, Book
<1>4. CASE Elsewhere
  <2>1. UNCHANGED bookVars
    BY <1>4 DEF Elsewhere, Submit, WakeUp, WaitFor, BackendCancelled, Start, Tick, CloseBegin, CloseJoins,
       CloseReturn, CloseRaise, CloseCancelled, vars
  <2> QED BY <1>3, <2>1
<1>5. ASSUME NEW q \in Requests, EnqueueLocked(q) PROVE Counts(Book)'
  <2>1. {q} \in SUBSET Requests
    OBVIOUS
  <2>2. CASE RejectOutOfOrder(q)
    <3>1. Counts(Finish(Book, All({q}, "OUT_OF_ORDER")))
      BY <1>1, <2>1, AllCountsFresh
    <3> QED BY <2>2, <3>1, WriteCounts DEF RejectOutOfOrder
  <2>3. CASE RejectOverloaded(q)
    <3>1. Counts(Finish(ExpiredBook, All({q}, "OVERLOADED")))
      BY <1>1, <1>2, <2>1, AllCountsFresh
    <3> QED BY <2>3, <3>1, WriteCounts DEF RejectOverloaded, ExpiredBook
  <2>4. CASE Admit(q)
    <3> DEFINE old == IF Previous(q) = None THEN {} ELSE {Previous(q)}
               replaced == [p \in old |-> Result("REPLACED", None, q)]
    <3>1. old \subseteq Requests
      BY <1>5, <2>4, AdmitOutcomes DEF IInv, EnqueueLocked
    <3>2. DOMAIN replaced = old /\ \A p \in old : replaced[p] \in Outcome
      BY <1>1, ResultTyped
    <3>3. Write(Finish(ExpiredBook, replaced))
      BY <2>4 DEF Admit, ExpiredBook
    <3>4. Counts(Finish(ExpiredBook, replaced))
      <4> HIDE DEF replaced, old
      <4> QED BY <1>2, <3>1, <3>2, FinishCountsFresh
    <3> QED BY <3>3, <3>4, WriteCounts
  <2> QED BY <1>5, <2>2, <2>3, <2>4 DEF EnqueueLocked
<1>6. ASSUME NEW q \in Requests, Abandon(q) PROVE Counts(Book)'
  <2>1. tally' = tally /\ outcome' = [outcome EXCEPT ![q] = Abandoned] /\ outcome[q].status = "PENDING"
    BY <1>6 DEF Abandon
  <2>2. ASSUME NEW s \in Statuses
        PROVE  {r \in Requests : outcome'[r].status = s} = {r \in Requests : outcome[r].status = s}
    <3>1. s # "PENDING" /\ s # "ABANDONED"
      BY DEF Statuses
    <3> QED BY <2>1, <3>1 DEF Abandoned, Result, IInv, TypeOK
  <2> QED BY <2>1, <2>2 DEF Counts, Book
<1>7. ASSUME NEW w \in Workers, WorkerPass(w) PROVE Counts(Book)'
  <2>1. PICK est : Write(SweptBook(est))
    BY <1>7 DEF WorkerPass, WorkerExit, WorkerIdle, WorkerHold, WorkerDispatch, WorkerCrash,
       SweepOnly
  <2> QED BY <1>2, <2>1, WriteCounts
<1>8. ASSUME NEW c \in Closers, CloseLocked(c) PROVE Counts(Book)'
  <2>1. CASE Write(Finish(Book, All(Live, "CANCELLED")))
    <3>1. Live \in SUBSET Requests
      BY DEF Live, IInv, TypeOK
    <3>2. Counts(Finish(Book, All(Live, "CANCELLED")))
      BY <1>1, <3>1, AllCountsFresh
    <3> QED BY <2>1, <3>2, WriteCounts
  <2> QED BY <1>3, <1>8, <2>1 DEF CloseLocked
<1> QED BY <1>4, <1>5, <1>6, <1>7, <1>8, BackendCounts, StepKinds

\* Only a call that passes the lock is counted as submitted.
LEMMA SubmittedStep ==
  ASSUME IInv, SubmittedOK, [Next]_vars
  PROVE  SubmittedOK'
<1> DEFINE S == {r \in Requests : caller[r] = "submitted"}
<1>1. CASE \A q \in Requests : ~EnqueueLocked(q)
  <2>1. submitted' = submitted
    BY <1>1 DEF Next, callVars, vars, Submit, Abandon, WorkerPass, WorkerExit, WorkerIdle,
       WorkerHold, WorkerDispatch, WorkerCrash, SweepOnly, WakeUp, WaitFor, BackendEnds, BackendReturns,
       BackendFails, BackendCancelled, BatchDone, Start, CloseBegin, CloseLocked, CloseJoins,
       CloseReturn, CloseRaise, CloseCancelled, Tick
  <2>2. \A r \in Requests : caller'[r] = "submitted" <=> caller[r] = "submitted"
    BY <1>1, CallStep DEF IInv
  <2> QED BY <2>1, <2>2 DEF SubmittedOK
<1>2. ASSUME NEW q \in Requests, EnqueueLocked(q) PROVE SubmittedOK'
  <2>1. /\ submitted' = submitted + 1 /\ caller' = [caller EXCEPT ![q] = "submitted"]
        /\ caller[q] = "entering"
    BY <1>2, LineHead DEF EnqueueLocked, IInv
  <2>2. {r \in Requests : caller'[r] = "submitted"} = S \cup {q} /\ q \notin S
    BY <2>1 DEF IInv, TypeOK
  <2>3. IsFiniteSet(S)
    BY ConfigAssumption, FS_Subset DEF ConfigAssumption
  <2>4. Cardinality(S \cup {q}) = Cardinality(S) + 1
    BY <2>2, <2>3, FS_AddElement
  <2> QED BY <2>1, <2>2, <2>4 DEF SubmittedOK
<1> QED BY <1>1, <1>2

\* A batch is counted with the dispatch stamps of its envelopes, which have none.
LEMMA ServedStep ==
  ASSUME IInv, ServedOK, [Next]_vars
  PROVE  ServedOK'
<1> SUFFICES ASSUME NoFailure' PROVE served' = Cardinality({r \in Requests : dispatched'[r]})
  BY DEF ServedOK
<1>1. served = Cardinality({r \in Requests : dispatched[r]}) /\ \A w \in Workers : ~WorkerCrash(w)
  BY FailureStays DEF ServedOK
<1>2. CASE \A w \in Workers : ~WorkerDispatch(w)
  <2>1. served' = served /\ dispatched' = dispatched
    BY <1>1, <1>2 DEF Next, taskVars, queueVars, vars, Submit, Abandon, EnqueueLocked, WorkerPass,
       WorkerExit, WorkerIdle, WorkerHold, SweepOnly, WakeUp, WaitFor, BackendEnds, BackendReturns,
       BackendFails, BackendCancelled, BatchDone, Start, CloseBegin, CloseLocked, CloseJoins,
       CloseReturn, CloseRaise, CloseCancelled, Tick
  <2> QED BY <1>1, <2>1
<1>3. ASSUME NEW w \in Workers, WorkerDispatch(w)
      PROVE  served' = Cardinality({r \in Requests : dispatched'[r]})
  <2>1. PICK est, B : B \subseteq Queue(est) /\ Take(w, Queue(est), Swept(est), B)
    BY <1>3 DEF WorkerDispatch
  <2> DEFINE D == {r \in Requests : dispatched[r]}
  <2>2. B \in SUBSET Requests /\ B \cap D = {}
    BY <2>1 DEF Queue, Live, IInv, TypeOK, QueueOK
  <2>3. {r \in Requests : dispatched'[r]} = D \cup B /\ served' = served + Cardinality(B)
    BY <2>1, <2>2 DEF Take
  <2>4. Cardinality(D \cup B) = Cardinality(D) + Cardinality(B)
    BY <2>2, DisjointSizes
  <2> QED BY <1>1, <2>3, <2>4
<1> QED BY <1>2, <1>3

\* The counters of SchedulerMetrics agree with what happened to the requests:
\* every submission is counted once (metrics.py).
THEOREM MetricsAreRight == Spec => []MetricsAgree
<1>1. Init => IInv /\ Counts(Book) /\ SubmittedOK /\ ServedOK
  <2> SUFFICES ASSUME Init PROVE Counts(Book) /\ SubmittedOK /\ ServedOK
    BY InitIInv
  <2>1. \A s \in Statuses : {r \in Requests : outcome[r].status = s} = {}
    BY DEF Init, Pending, Result, Statuses
  <2>2. {r \in Requests : caller[r] = "submitted"} = {} /\ {r \in Requests : dispatched[r]} = {}
    BY DEF Init
  <2>3. (\A s \in Statuses : tally[s] = 0) /\ submitted = 0 /\ served = 0
    BY DEF Init
  <2> QED BY <2>1, <2>2, <2>3, FS_EmptySet DEF Counts, Book, SubmittedOK, ServedOK
<1>2. (IInv /\ Counts(Book) /\ SubmittedOK /\ ServedOK) /\ [Next]_vars
        => (IInv /\ Counts(Book) /\ SubmittedOK /\ ServedOK)'
  BY NextIInv, CountsStep, SubmittedStep, ServedStep
<1>3. IInv /\ Counts(Book) /\ SubmittedOK /\ ServedOK => MetricsAgree
  <2> SUFFICES ASSUME IInv, Counts(Book), SubmittedOK, ServedOK PROVE MetricsAgree
    OBVIOUS
  <2> DEFINE R == {r \in Requests : outcome[r].status \in Statuses}
  <2>1. Unresolved \in SUBSET Requests /\ R \in SUBSET Requests /\ Unresolved \cap R = {}
    BY DEF Unresolved, Statuses
  <2>2. {r \in Requests : caller[r] = "submitted"} = Unresolved \cup R
    BY DEF Unresolved, IInv, TypeOK, Outcome, CallsOK, Pending, Result, Statuses
  <2>3. submitted = Cardinality(Unresolved) + Cardinality(R)
    BY <2>1, <2>2, DisjointSizes DEF SubmittedOK
  <2> QED BY <2>3 DEF MetricsAgree, Counts, Book, ServedOK
<1> QED BY <1>1, <1>2, <1>3, PTL DEF Spec

-----------------------------------------------------------------------------
(* The batches.                                                             *)

\* No order is drawn twice.
DrawnOnce ==
  \A r, q \in Requests :
    caller[r] # "new" /\ caller[q] # "new" /\ request[r].order = request[q].order => r = q

\* A call that was not made is still to be made, unless it is made now.
LEMMA OnlySubmitCalls ==
  ASSUME IInv, [Next]_vars, NEW r \in Requests, caller[r] = "new", ~Submit(r)
  PROVE  caller'[r] = "new"
<1> USE DEF callVars
<1>1. ASSUME caller' = caller PROVE caller'[r] = "new"
  BY <1>1
<1>2. ASSUME NEW q \in Requests, q # r, Submit(q) PROVE caller'[r] = "new"
  BY <1>2 DEF Submit, IInv, TypeOK
<1>3. ASSUME NEW q \in Requests, EnqueueLocked(q) PROVE caller'[r] = "new"
  BY <1>3, LineHead DEF EnqueueLocked, IInv, TypeOK
<1>4. ASSUME NEW q \in Requests, Abandon(q) PROVE caller' = caller
  BY <1>4 DEF Abandon
<1>5. ASSUME NEW w \in Workers, WorkerPass(w) PROVE caller' = caller
  BY <1>5 DEF WorkerPass, WorkerExit, WorkerIdle, WorkerHold, WorkerDispatch, WorkerCrash, SweepOnly
<1>6. ASSUME NEW w \in Workers, WakeUp(w) \/ BackendEnds(w) PROVE caller' = caller
  BY <1>6 DEF WakeUp, BackendEnds, BackendReturns, BackendFails, BackendCancelled, BatchDone
<1>7. ASSUME Start \/ Tick PROVE caller' = caller
  BY <1>7 DEF Start, Tick
<1>8. ASSUME NEW c \in Closers, CloseBegin(c) \/ CloseLocked(c) \/ CloseJoins(c)
      PROVE  caller' = caller
  BY <1>8 DEF CloseBegin, CloseLocked, CloseJoins, CloseReturn, CloseRaise, CloseCancelled
<1>9. ASSUME UNCHANGED vars PROVE caller' = caller
  BY <1>9 DEF vars
<1>10. ASSUME NEW w \in Workers, WaitFor(w) PROVE caller' = caller
  BY <1>10 DEF WaitFor
<1> QED BY <1>1, <1>2, <1>3, <1>4, <1>5, <1>6, <1>7, <1>8, <1>9, <1>10 DEF Next

\* The counter only goes up.
LEMMA DrawnStep ==
  ASSUME IInv, OrderOK, DrawnOnce, [Next]_vars
  PROVE  DrawnOnce'
<1>1. CASE \E r \in Requests : Submit(r)
  <2>1. PICK r \in Requests : Submit(r)
    BY <1>1
  <2>2. PICK x \in Request : x.order = created /\ request' = [request EXCEPT ![r] = x]
    BY <2>1, SubmitRequest DEF IInv
  <2>3. /\ request'[r].order = created
        /\ \A q \in Requests \ {r} : request'[q] = request[q] /\ caller'[q] = caller[q]
    BY <2>1, <2>2 DEF Submit, IInv, TypeOK
  <2>4. \A q \in Requests : caller[q] # "new" => request[q].order \in Nat /\ request[q].order < created
    BY DEF IInv, TypeOK, CallsOK, Request, OrderOK
  <2>5. created \in Nat
    BY DEF IInv, TypeOK
  <2> QED BY <2>3, <2>4, <2>5 DEF DrawnOnce
<1>2. CASE \A r \in Requests : ~Submit(r)
  <2>1. ASSUME NEW r \in Requests, caller[r] = "new" PROVE caller'[r] = "new"
    BY <1>2, <2>1, OnlySubmitCalls
  <2>2. \A r \in Requests : caller[r] # "new" => request'[r] = request[r]
    BY CallStep DEF IInv
  <2> QED BY <2>1, <2>2 DEF DrawnOnce
<1> QED BY <1>1, <1>2

-----------------------------------------------------------------------------
(* The order of the queue.                                                  *)

\* What Before compares
Submitted(r) == caller[r] # "new"

\* The sort keys of the requests that were submitted are in a total order.
LEMMA BeforeIsOrder ==
  ASSUME IInv, DrawnOnce
  PROVE  \A a, b, c \in {r \in Requests : Submitted(r)} :
           /\ ~Before(a, a)
           /\ Before(a, b) /\ Before(b, c) => Before(a, c)
           /\ a # b => Before(a, b) \/ Before(b, a)
<1>1. \A r \in Requests : Submitted(r) =>
        /\ request[r].deadline \in Nat /\ request[r].received \in Nat
        /\ request[r].priority \in Int /\ request[r].order \in Nat
  BY ConfigAssumption DEF Submitted, IInv, CallsOK, Request, ConfigAssumption
<1> QED BY <1>1 DEF Submitted, Before, DrawnOnce

\* A batch has a last request: all others come before it.
LEMMA LastOfBatch ==
  ASSUME IInv, DrawnOnce, NEW B, B \subseteq {r \in Requests : Submitted(r)}, B # {}
  PROVE  \E last \in B : \A r \in B \ {last} : Before(r, last)
<1> DEFINE After(b) == {r \in B : Before(b, r)}
           Tails == {After(b) : b \in B}
<1>1. IsFiniteSet(B)
  BY ConfigAssumption, FS_Subset DEF ConfigAssumption
<1>2. IsWellFoundedOn(StrictSubsetOrdering(B), SUBSET B)
  BY <1>1, FS_StrictSubsetOrderingWellFounded, FS_FiniteSubsetsOfFinite
<1>3. Tails \subseteq SUBSET B /\ Tails # {}
  OBVIOUS
<1>4. PICK T \in Tails : \A U \in Tails : <<U, T>> \notin StrictSubsetOrdering(B)
  <2> HIDE DEF Tails
  <2> QED BY <1>2, <1>3, WFMin
<1>5. PICK last \in B : T = After(last)
  BY <1>4
<1>6. ASSUME NEW r \in After(last) PROVE FALSE
  <2>1. r \in B /\ After(r) \in Tails /\ After(r) \subseteq B /\ After(last) \subseteq B
    BY <1>6
  <2>2. After(r) \subseteq After(last)
    BY <1>6, BeforeIsOrder
  <2>3. r \notin After(r)
    BY <2>1, BeforeIsOrder
  <2>4. <<After(r), After(last)>> \in StrictSubsetOrdering(B)
    BY <1>6, <2>1, <2>2, <2>3 DEF StrictSubsetOrdering
  <2> QED BY <1>4, <1>5, <2>1, <2>4
<1> QED BY <1>5, <1>6, BeforeIsOrder

-----------------------------------------------------------------------------
(* What a worker takes.                                                     *)

\* Only a pass of its own lets a worker execute something.
LEMMA DispatchesInAPass ==
  ASSUME IInv, [Next]_vars, NEW w \in Workers, Dispatches(w)
  PROVE  WorkerDispatch(w)
<1> USE DEF Dispatches, IInv, TypeOK, taskVars
<1>1. ASSUME NEW r \in Requests, Submit(r) \/ Abandon(r) PROVE FALSE
  BY <1>1 DEF Submit, Abandon
<1>2. ASSUME NEW r \in Requests, EnqueueLocked(r) PROVE FALSE
  <2>1. UNCHANGED wstate \/ NotifyOne
    BY <1>2 DEF EnqueueLocked, RejectOutOfOrder, RejectOverloaded, Admit
  <2> QED BY <2>1 DEF NotifyOne, Woken
<1>3. ASSUME NEW v \in Workers, WorkerPass(v) PROVE WorkerDispatch(w)
  <2>1. v = w
    BY <1>3, PassMoves
  <2>2. \E state \in {"done", "idle", "settling", "timed", "failed"} :
          ~WorkerDispatch(w) => wstate' = [wstate EXCEPT ![w] = state]
    BY <1>3, <2>1 DEF WorkerPass, WorkerExit, WorkerIdle, WorkerHold, WorkerCrash, Becomes
  <2> QED BY <2>2
<1>4. ASSUME NEW v \in Workers, WakeUp(v) \/ BackendEnds(v) PROVE FALSE
  BY <1>4 DEF WakeUp, Woken, BackendEnds, BackendReturns, BackendFails, BackendCancelled, BatchDone
<1>5. ASSUME Start \/ Tick PROVE FALSE
  BY <1>5 DEF Start, Tick
<1>6. ASSUME NEW c \in Closers, CloseBegin(c) \/ CloseLocked(c) \/ CloseJoins(c) PROVE FALSE
  BY <1>6 DEF CloseBegin, CloseLocked, CloseJoins, CloseReturn, CloseRaise, CloseCancelled, NotifyAll, Woken
<1>7. ASSUME UNCHANGED vars PROVE FALSE
  BY <1>7 DEF vars
<1>8. ASSUME NEW v \in Workers, WaitFor(v) PROVE FALSE
  BY <1>8, WaitForStep
<1> QED BY <1>1, <1>2, <1>3, <1>4, <1>5, <1>6, <1>7, <1>8 DEF Next

\* What it takes, of which queue, led by whom, and when
LEMMA Taken ==
  ASSUME IInv, NEW w \in Workers, WorkerDispatch(w)
  PROVE  \E est \in Estimates, lead \in Requests :
           /\ First(lead, Queue(est)) /\ Selects(batch'[w], Queue(est), lead, now', est)
           /\ batch'[w] \subseteq Queue(est) /\ heap' \subseteq Queue(est)
           /\ request' = request
           /\ Queue(est) \subseteq {r \in Requests : Submitted(r)}
           /\ \A r \in Queue(est) : now < request[r].deadline
<1>1. PICK est \in Estimates, lead \in Requests, B \in SUBSET Requests :
        /\ First(lead, Queue(est)) /\ Selects(B, Queue(est), lead, now', est)
        /\ B \subseteq Queue(est) /\ Take(w, Queue(est), Swept(est), B)
  BY DEF WorkerDispatch, Queue, Live, IInv, TypeOK
<1>2. batch'[w] = B /\ heap' \subseteq Queue(est)
  BY <1>1 DEF Take, IInv, TypeOK
<1>3. request' = request
  BY DEF WorkerDispatch, callVars
<1>4. ASSUME NEW r \in Queue(est)
      PROVE  r \in Requests /\ Submitted(r) /\ now < request[r].deadline
  <2>1. r \in Live /\ ~(request[r].deadline <= now)
    BY <1>4 DEF Queue, Swept, Expired
  <2>2. r \in Requests /\ caller[r] = "submitted"
    BY <2>1 DEF Live, IInv, TypeOK, QueueOK
  <2>3. request[r].deadline \in Nat /\ now \in Nat
    BY <2>2 DEF IInv, TypeOK, CallsOK, Request
  <2> QED BY <2>1, <2>2, <2>3 DEF Submitted
<1> QED BY <1>1, <1>2, <1>3, <1>4

\* The leader is due first, and the batch contains it.
LEMMA EarliestStep ==
  ASSUME IInv, [Next]_vars, NEW w \in Workers, Dispatches(w)
  PROVE  /\ \A r \in batch'[w] : now < request[r].deadline
         /\ Policy = "edf" => \A q \in heap' : \E r \in batch'[w] :
                                request[r].deadline <= request[q].deadline
<1>1. PICK est \in Estimates, lead \in Requests :
        /\ First(lead, Queue(est)) /\ Selects(batch'[w], Queue(est), lead, now', est)
        /\ batch'[w] \subseteq Queue(est) /\ heap' \subseteq Queue(est)
        /\ Queue(est) \subseteq {r \in Requests : Submitted(r)}
        /\ \A r \in Queue(est) : now < request[r].deadline
  BY DispatchesInAPass, Taken
<1>2. lead \in batch'[w] /\ lead \in Queue(est)
  BY <1>1 DEF Selects, First
<1>3. ASSUME Policy = "edf", NEW q \in Queue(est)
      PROVE  request[lead].deadline <= request[q].deadline
  <2>1. request[q].deadline \in Nat /\ request[lead].deadline \in Nat
    BY <1>1, <1>2 DEF Submitted, IInv, CallsOK, Request
  <2> QED BY <1>1, <1>3, <2>1 DEF First, Before
<1> QED BY <1>1, <1>2, <1>3

\* Who joined last was tested with the whole batch.
LEMMA OnTimeStep ==
  ASSUME IInv, DrawnOnce, [Next]_vars, NEW w \in Workers, Dispatches(w),
         Cardinality(batch'[w]) > 1
  PROVE  \E est \in Estimates :
           LET p == est[Cardinality(batch'[w])]
           IN  p = NoEstimate \/ \A r \in batch'[w] : now' + p + Guard <= request[r].deadline
<1>1. PICK est \in Estimates, lead \in Requests :
        /\ First(lead, Queue(est)) /\ Selects(batch'[w], Queue(est), lead, now', est)
        /\ batch'[w] \subseteq Queue(est)
        /\ Queue(est) \subseteq {r \in Requests : Submitted(r)}
  BY DispatchesInAPass, Taken
<1> DEFINE B == batch'[w]
<1>2. lead \in B /\ B \subseteq {r \in Requests : Submitted(r)} /\ IsFiniteSet(B)
  BY <1>1, ConfigAssumption, FS_Subset DEF Selects, ConfigAssumption
<1>3. PICK last \in B : \A r \in B \ {last} : Before(r, last)
  BY <1>2, LastOfBatch
<1>4. {b \in B : Before(b, last)} = B \ {last}
  BY <1>2, <1>3, BeforeIsOrder
<1>5. Cardinality(B \ {last}) + 1 = Cardinality(B)
  <2>1. Cardinality(B \ {last}) = Cardinality(B) - 1 /\ Cardinality(B) \in Nat
    BY <1>2, FS_RemoveElement, FS_CardinalityType
  <2> QED BY <2>1
<1>6. last # lead
  <2>1. SUFFICES ASSUME last = lead PROVE FALSE
    OBVIOUS
  <2>2. \A r \in B \ {lead} : Before(r, lead) /\ Before(lead, r)
    BY <1>1, <1>3, <2>1 DEF First
  <2>3. B \ {lead} = {}
    BY <1>2, <2>2, BeforeIsOrder
  <2> QED BY <1>5, <2>1, <2>3, FS_EmptySet
<1>7. Joins(last, B \ {last}, lead, now', est)
  BY <1>1, <1>3, <1>4, <1>6 DEF Selects
<1>8. (B \ {last}) \cup {last} = B
  OBVIOUS
<1> QED BY <1>5, <1>7, <1>8 DEF Joins

-----------------------------------------------------------------------------
\* EDF: nothing stays queued that is due before all of a batch that is executed,
\* and nothing is executed that had expired (scheduler.py, _run()).
THEOREM DispatchedInOrder == Spec => EarliestDispatched
<1>1. IInv /\ [Next]_vars =>
        [\A w \in Workers :
           Dispatches(w) =>
             /\ \A r \in batch'[w] : now < request[r].deadline
             /\ Policy = "edf" => \A q \in heap' : \E r \in batch'[w] :
                                    request[r].deadline <= request[q].deadline]_vars
  BY EarliestStep
<1> QED BY <1>1, Invariant, PTL DEF Spec, EarliestDispatched

\* No batch of several is executed that the estimate of its size says will be late
\* for anyone in it (scheduler.py, _take_batch_locked()).
THEOREM BatchesOnTime == Spec => BatchOnTime
<1>1. Init => IInv /\ OrderOK /\ DrawnOnce
  BY InitIInv, OrderInit DEF Init, DrawnOnce
<1>2. (IInv /\ OrderOK /\ DrawnOnce) /\ [Next]_vars => (IInv /\ OrderOK /\ DrawnOnce)'
  BY NextIInv, OrderStep, DrawnStep
<1>3. (IInv /\ OrderOK /\ DrawnOnce) /\ [Next]_vars =>
        [\A w \in Workers :
           Dispatches(w) /\ Cardinality(batch'[w]) > 1 =>
             \E est \in Estimates :
               LET p == est[Cardinality(batch'[w])]
               IN  p = NoEstimate \/ \A r \in batch'[w] : now' + p + Guard <= request[r].deadline]_vars
  BY OnTimeStep
<1> QED BY <1>1, <1>2, <1>3, PTL DEF Spec, BatchOnTime
===============================================================================
