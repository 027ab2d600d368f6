------------------------------ MODULE Scheduler ------------------------------
(***************************************************************************)
(* The deadline-aware scheduler of src/actserve/scheduler.py: callers that *)
(* enqueue observations, the worker task that sweeps, batches and executes *)
(* them, and the start/close lifecycle.  An asyncio task runs undisturbed  *)
(* between two awaits, so every action below is one such stretch: a whole  *)
(* critical section of the condition's lock, or what happens between two   *)
(* of them.  Time is a discrete clock that any step may find advanced.     *)
(***************************************************************************)
EXTENDS Integers, Sequences, FiniteSets

CONSTANTS
  Requests,       \* the envelopes that may be created (one per enqueue call)
  Sessions,       \* the (model, session_id) pairs
  Workers,        \* the worker tasks that start() may create
  Closers,        \* the concurrent callers of close()
  None,           \* Python's None where an object is expected
  Alien,          \* an action whose identity matches no request of the batch
  \* what callers may put in a request
  SeqNos, Timeouts, Priorities, Keys,
  Ages,           \* how long before it is submitted a request may have been made
  BadKeys,        \* batch keys on which backend.batch_key raises
  \* SchedulerConfig, in clock ticks; 0 stands for None in the two maxima
  Policy, Window, Guard, MaxBatchSize, Coalesce, Enforce, DropMissed,
  DropUnserviceable, MaxPending,
  \* the backend
  BackendMax,     \* backend.max_batch_size
  Estimates,      \* the tables estimate_batch_latency_ms may answer from
  BackendFaults,  \* may infer_batch raise, or answer with wrong actions?
  BackendAborts,  \* may infer_batch raise CancelledError?
  \* the environment
  CancelModes,    \* values of close(cancel_pending=...)
  Abandons,       \* may a caller cancel the future it awaits?
  CloseCancels,   \* may a caller of close() be cancelled while it joins?
  LockYields,     \* may a task find the condition's lock taken (Python 3.10, 3.11)?
  PassDelay,      \* how far the clock may move inside one worker pass
  MaxTime         \* bound on the clock

NoTime == -1
NoSeq == -1
NoEstimate == -1

ASSUME ConfigAssumption ==
  /\ None \notin Requests \cup Workers
  /\ Requests \cap Closers = {} /\ Workers \cap (Requests \cup Closers) = {}
  /\ Alien \notin Requests \cup {None}
  /\ IsFiniteSet(Requests)
  /\ SeqNos \subseteq Nat /\ Timeouts \subseteq Nat /\ Ages \subseteq Nat
  /\ Priorities \subseteq Int
  /\ BadKeys \subseteq Keys
  /\ \A est \in Estimates : est[1] \in Nat \cup {NoEstimate}
  /\ Policy \in {"edf", "fifo"}
  /\ Window \in Nat /\ Guard \in Nat /\ MaxBatchSize \in Nat /\ MaxPending \in Nat
  /\ {Coalesce, Enforce, DropMissed, DropUnserviceable} \subseteq BOOLEAN
  /\ {BackendFaults, BackendAborts, Abandons, CloseCancels, LockYields} \subseteq BOOLEAN
  /\ CancelModes \subseteq BOOLEAN
  /\ BackendMax \in Nat \ {0}
  /\ PassDelay \in Nat /\ MaxTime \in Nat

VARIABLES
  now,         \* time.monotonic_ns()
  created,     \* how many orders the counter has handed out
  request,     \* the InferenceRequest of each envelope, None before it exists
  caller,      \* where the enqueue() call for the envelope is
  line,        \* the tasks that asked for the condition's lock, in turn
  parked,      \* are they suspended, or is the one that asked about to go on?
  heap,        \* self._heap, as the set of its envelopes
  active,      \* _Envelope.active
  dispatched,  \* _Envelope.dispatched_ns is not None
  outcome,     \* what the envelope's future holds
  pendingOf,   \* self._pending_by_session
  latest,      \* self._latest_sequence_by_session
  accepting,   \* self._accepting
  handle,      \* self._worker
  wstate,      \* what each worker task is doing
  wake,        \* when the timed wait of a worker ends
  batch,       \* the envelopes a worker is executing
  closer,      \* where each close() call is
  joined,      \* the worker task each close() call read
  submitted, served, tally \* SchedulerMetrics: submitted, dispatched, _status

callVars  == <<created, request, caller, submitted>>
lockVars  == <<line, parked>>
queueVars == <<heap, active, dispatched, pendingOf, latest>>
bookVars  == <<outcome, tally>>
taskVars  == <<wstate, wake, batch, served>>
lifeVars  == <<accepting, handle, closer, joined>>
vars == <<now, callVars, lockVars, queueVars, bookVars, taskVars, lifeVars>>

Statuses == {"COMPLETED", "DEADLINE_MISSED", "EXPIRED", "UNSERVICEABLE",
             "REPLACED", "OUT_OF_ORDER", "OVERLOADED", "FAILED", "CANCELLED"}

Request == [session : Sessions, seq : SeqNos, received : Nat, deadline : Nat,
            priority : Priorities, key : Keys, order : Nat]

\* the RequestOutcome a future holds: the request its action names, if it has
\* one, and the request that replaced it
Result(status, action, by) == [status |-> status, action |-> action, by |-> by]

Pending   == Result("PENDING", None, None)
Abandoned == Result("ABANDONED", None, None)

Init ==
  /\ now = 0
  /\ created = 0
  /\ request = [r \in Requests |-> None]
  /\ caller = [r \in Requests |-> "new"]
  /\ line = <<>> /\ parked = FALSE
  /\ heap = {}
  /\ active = [r \in Requests |-> TRUE]
  /\ dispatched = [r \in Requests |-> FALSE]
  /\ outcome = [r \in Requests |-> Pending]
  /\ pendingOf = [s \in Sessions |-> None]
  /\ latest = [s \in Sessions |-> NoSeq]
  /\ accepting = FALSE
  /\ handle = None
  /\ wstate = [w \in Workers |-> "unborn"]
  /\ wake = [w \in Workers |-> NoTime]
  /\ batch = [w \in Workers |-> {}]
  /\ closer = [c \in Closers |-> "idle"]
  /\ joined = [c \in Closers |-> None]
  /\ submitted = 0
  /\ served = 0
  /\ tally = [s \in Statuses |-> 0]

-----------------------------------------------------------------------------
(* Futures and metrics.                                                     *)

\* Mutant: _finish that counts before it looks at the future.
FinishCounts(book, results) ==
  [outcome |-> [r \in Requests |-> IF r \in DOMAIN results
                                      /\ book.outcome[r].status = "PENDING"
                                   THEN results[r] ELSE book.outcome[r]],
   tally |-> [s \in Statuses |->
                book.tally[s] + Cardinality({r \in DOMAIN results : results[r].status = s})]]

\* _finish applied to every envelope of DOMAIN results: a future that is
\* already done (or cancelled by its caller) is left as it is and not counted.
Finish(book, results) ==
  LET fresh == {r \in DOMAIN results : book.outcome[r].status = "PENDING"}
  IN [outcome |-> [r \in Requests |-> IF r \in fresh THEN results[r] ELSE book.outcome[r]],
      tally |-> [s \in Statuses |->
                   book.tally[s] + Cardinality({r \in fresh : results[r].status = s})]]

Book == [outcome |-> outcome, tally |-> tally]
Write(book) == outcome' = book.outcome /\ tally' = book.tally

\* the same outcome, without an action, for every envelope of S
All(S, status) == [r \in S |-> Result(status, None, None)]

-----------------------------------------------------------------------------
(* The queue.                                                               *)

Live == {r \in heap : active[r]}    \* what _remove_inactive_locked keeps

Expired == {r \in Live : request[r].deadline <= now}

\* Mutant: the sort key of arrival order, whatever the policy.
BeforeByArrival(a, b) == request[a].order < request[b].order

\* the queue's sort key: deadline or arrival, then priority, then order
Before(a, b) ==
  LET Major(r) == IF Policy = "edf" THEN request[r].deadline ELSE request[r].received
  IN \/ Major(a) < Major(b)
     \/ /\ Major(a) = Major(b)
        /\ \/ request[a].priority > request[b].priority
           \/ /\ request[a].priority = request[b].priority
              /\ request[a].order < request[b].order

\* r is the envelope on top of the heap Q
First(r, Q) == r \in Q /\ \A q \in Q \ {r} : Before(r, q)

\* _clear_session_pointer for every envelope of S
ClearPointers(S) ==
  [s \in Sessions |-> IF pendingOf[s] \in S THEN None ELSE pendingOf[s]]

\* active := False for every envelope of S
Deactivate(S) == [r \in Requests |-> IF r \in S THEN FALSE ELSE active[r]]

Waiting(w) == wstate[w] \in {"idle", "timed"}

\* A waiter that goes on needs the lock again; wait_for() of Python 3.10 and 3.11
\* has a task of its own for that, and the worker waits for its end.
Woken(w) == IF LockYields /\ wstate[w] = "timed" THEN "waking" ELSE "ready"

\* Mutants: no notify(); a notify() that reaches only the untimed waiter.
NotifyNone == UNCHANGED wstate
NotifyIdle == wstate' = [w \in Workers |-> IF wstate[w] = "idle" THEN "ready" ELSE wstate[w]]

\* condition.notify(): one waiter, if there is one, may go on
NotifyOne ==
  IF \E w \in Workers : Waiting(w)
    THEN \E w \in Workers : Waiting(w) /\ wstate' = [wstate EXCEPT ![w] = Woken(w)]
    ELSE UNCHANGED wstate

\* condition.notify_all()
NotifyAll == wstate' = [w \in Workers |-> IF Waiting(w) THEN Woken(w) ELSE wstate[w]]

-----------------------------------------------------------------------------
(* The condition's lock.  A critical section has no await in it, so nobody  *)
(* finds the lock taken, except by a worker around wait_for() of Python     *)
(* 3.10 and 3.11, which runs condition.wait() in a task of its own: the     *)
(* lock is held until that task has begun, and again from its end until     *)
(* the worker goes on.                                                      *)

LockHeld == LockYields /\ \E w \in Workers : wstate[w] \in {"settling", "holding"}

LockFree == line = <<>> /\ ~LockHeld

\* Whoever finds the lock free goes on without an await: nobody else runs.
LoopFree == line = <<>> \/ parked

\* Task t asks for the lock; it is suspended if the lock is taken or others
\* were there before.
Arrives(t) == line' = Append(line, t) /\ parked' = (LockHeld \/ line # <<>>)

\* the lock is free and it is the turn of task t
HasLock(t) == line # <<>> /\ Head(line) = t /\ ~LockHeld

\* It has the lock, and the others move up.
Leaves == line' = Tail(line) /\ parked' = (parked /\ Tail(line) # <<>>)

-----------------------------------------------------------------------------
(* enqueue().                                                               *)

\* A caller that made a request some time ago calls enqueue(), which refuses
\* unless the scheduler accepts, draws the next order and heads for the lock.
Submit(r) ==
  /\ LoopFree
  /\ caller[r] = "new"
  /\ accepting
  /\ \E s \in Sessions, q \in SeqNos, a \in Ages, d \in Timeouts, p \in Priorities, k \in Keys :
       /\ a <= now /\ now - a + d <= MaxTime
       /\ request' = [request EXCEPT ![r] =
            [session |-> s, seq |-> q, received |-> now - a, deadline |-> now - a + d,
             priority |-> p, key |-> k, order |-> created]]
  /\ created' = created + 1
  /\ caller' = [caller EXCEPT ![r] = "entering"]
  /\ Arrives(r)
  /\ UNCHANGED <<now, submitted, queueVars, bookVars, taskVars, lifeVars>>

\* Mutants: a sequence number may be used twice; no number is looked at.
OutOfOrderStrictly(r) == Enforce /\ request[r].seq < latest[request[r].session]
OutOfOrderNever(r) == FALSE

OutOfOrder(r) ==
  /\ Enforce
  /\ latest[request[r].session] # NoSeq
  /\ request[r].seq <= latest[request[r].session]

\* Mutant: an observation supersedes only one that is due no later.
PreviousDueSooner(r) ==
  LET p == pendingOf[request[r].session]
  IN IF Coalesce /\ p # None /\ active[p] /\ ~dispatched[p]
          /\ request[p].deadline <= request[r].deadline
       THEN p ELSE None

\* the queued observation of the same session that r supersedes
Previous(r) ==
  LET p == pendingOf[request[r].session]
  IN IF Coalesce /\ p # None /\ active[p] /\ ~dispatched[p] THEN p ELSE None

\* Mutant: one more than max_pending_requests.
AtCapacityOffByOne == MaxPending # 0 /\ Cardinality(Live \ Expired) > MaxPending

AtCapacity == MaxPending # 0 /\ Cardinality(Live \ Expired) >= MaxPending

RejectOutOfOrder(r) ==
  /\ OutOfOrder(r)
  /\ active' = Deactivate({r})
  /\ Write(Finish(Book, All({r}, "OUT_OF_ORDER")))
  /\ UNCHANGED <<heap, pendingOf, latest, wstate>>

\* A full queue refuses r, after the sweep that looked for room in it.
RejectOverloaded(r) ==
  /\ ~OutOfOrder(r)
  /\ Previous(r) = None /\ AtCapacity
  /\ active' = Deactivate(Expired \cup {r})
  /\ heap' = Live \ Expired
  /\ pendingOf' = ClearPointers(Expired)
  /\ Write(Finish(Finish(Book, All(Expired, "EXPIRED")), All({r}, "OVERLOADED")))
  /\ UNCHANGED <<latest, wstate>>

\* r is queued; the observation it supersedes stays in the heap, inactive.
Admit(r) ==
  LET s == request[r].session
      old == IF Previous(r) = None THEN {} ELSE {Previous(r)}
  IN /\ ~OutOfOrder(r)
     /\ ~(Previous(r) = None /\ AtCapacity)
     /\ latest' = [latest EXCEPT ![s] = request[r].seq]
     /\ active' = Deactivate(Expired \cup old)
     /\ heap' = (Live \ Expired) \cup {r}
     /\ pendingOf' = IF Coalesce THEN [ClearPointers(Expired) EXCEPT ![s] = r]
                                 ELSE ClearPointers(Expired)
     /\ Write(Finish(Finish(Book, All(Expired, "EXPIRED")),
                     [p \in old |-> Result("REPLACED", None, r)]))
     /\ NotifyOne

\* The rest of enqueue(), under the lock.
EnqueueLocked(r) ==
  /\ HasLock(r) /\ Leaves
  /\ submitted' = submitted + 1
  /\ RejectOutOfOrder(r) \/ RejectOverloaded(r) \/ Admit(r)
  /\ caller' = [caller EXCEPT ![r] = "submitted"]
  /\ UNCHANGED <<now, created, request, dispatched, wake, batch, served, lifeVars>>

\* The task that awaits the future is cancelled, and the future with it.
Abandon(r) ==
  /\ Abandons /\ LoopFree
  /\ caller[r] = "submitted" /\ outcome[r].status = "PENDING"
  /\ outcome' = [outcome EXCEPT ![r] = Abandoned]
  /\ UNCHANGED <<now, callVars, lockVars, queueVars, tally, taskVars, lifeVars>>

-----------------------------------------------------------------------------
(* The worker: one action per way a pass through the loop of _run can end.  *)

\* The worker has the lock, because it was free, after its turn in the line, or
\* since the end of a timed wait.
Runs(w) ==
  /\ LoopFree
  /\ \/ wstate[w] = "ready" /\ LockFree /\ UNCHANGED lockVars
     \/ wstate[w] = "ready" /\ HasLock(w) /\ Leaves
     \/ LockYields /\ wstate[w] = "holding" /\ UNCHANGED lockVars

\* _predicted_latency_ns(1) or 0.  (Bound: an estimator answers with a number that
\* is not negative, or with None; otherwise the pass would end the worker as a
\* batch_key that raises does.)
Predicted(est) == IF est[1] = NoEstimate THEN 0 ELSE est[1]

Unserviceable(est) ==
  IF ~DropUnserviceable \/ est[1] = NoEstimate THEN {}
  ELSE {r \in Live \ Expired : now + est[1] + Guard > request[r].deadline}

Swept(est) == Expired \cup Unserviceable(est)
Queue(est) == Live \ Swept(est)

SweptBook(est) ==
  Finish(Finish(Book, All(Expired, "EXPIRED")), All(Unserviceable(est), "UNSERVICEABLE"))

\* when a leader is due: the batching window is over or its slack is
DispatchAt(r, est) ==
  LET windowEnd == request[r].received + Window
      lastCall == request[r].deadline - Guard - Predicted(est)
  IN IF windowEnd <= lastCall THEN windowEnd ELSE lastCall

\* The sweeps every pass starts with, when the pass takes no batch.
SweepOnly(est) ==
  /\ heap' = Queue(est)
  /\ active' = Deactivate(Swept(est))
  /\ pendingOf' = ClearPointers(Swept(est))
  /\ Write(SweptBook(est))
  /\ UNCHANGED <<now, callVars, dispatched, latest, batch, served, lifeVars>>

\* The worker goes on as state, with a timer at time at.
Becomes(w, state, at) ==
  wstate' = [wstate EXCEPT ![w] = state] /\ wake' = [wake EXCEPT ![w] = at]

\* Mutant: the worker stops when the scheduler does, whatever is queued.
WorkerExitAtOnce(w) ==
  /\ Runs(w) /\ ~accepting
  /\ \E est \in Estimates : SweepOnly(est)
  /\ Becomes(w, "done", NoTime)

WorkerExit(w) ==
  /\ Runs(w) /\ ~accepting
  /\ \E est \in Estimates : Queue(est) = {} /\ SweepOnly(est)
  /\ Becomes(w, "done", NoTime)

WorkerIdle(w) ==
  /\ Runs(w) /\ accepting
  /\ \E est \in Estimates : Queue(est) = {} /\ SweepOnly(est)
  /\ Becomes(w, "idle", NoTime)

WorkerHold(w) ==
  /\ Runs(w)
  /\ \E est \in Estimates, lead \in Requests :
       /\ First(lead, Queue(est)) /\ now < DispatchAt(lead, est)
       /\ SweepOnly(est)
       /\ Becomes(w, IF LockYields THEN "settling" ELSE "timed", DispatchAt(lead, est))

\* wait_for gives up on the notification
WakeUp(w) ==
  /\ LoopFree /\ wstate[w] = "timed" /\ wake[w] <= now
  /\ wstate' = [wstate EXCEPT ![w] = Woken(w)]
  /\ UNCHANGED <<now, callVars, lockVars, queueVars, bookVars, wake, batch, served, lifeVars>>

\* The task of wait_for begins to wait, which gives up the lock.
WaitBegins(w) ==
  /\ wstate[w] = "settling" /\ wstate' = [wstate EXCEPT ![w] = "timed"]
  /\ UNCHANGED lockVars

\* It has the lock again, at once or after its turn, and the worker goes on next.
WaitEnds(w) ==
  /\ wstate[w] = "waking" /\ wstate' = [wstate EXCEPT ![w] = "holding"]
  /\ \/ LockFree /\ UNCHANGED lockVars
     \/ HasLock(w) /\ Leaves

\* The worker, or the task of its wait_for, does not get the lock at once.
WorkerQueues(w) ==
  /\ wstate[w] \in {"ready", "waking"} /\ ~LockFree
  /\ \A i \in DOMAIN line : line[i] # w
  /\ Arrives(w)
  /\ UNCHANGED wstate

WaitFor(w) ==
  /\ LockYields /\ LoopFree
  /\ WaitBegins(w) \/ WaitEnds(w) \/ WorkerQueues(w)
  /\ UNCHANGED <<now, callVars, queueVars, bookVars, wake, batch, served, lifeVars>>

BatchLimit ==
  IF MaxBatchSize = 0 \/ BackendMax <= MaxBatchSize THEN BackendMax ELSE MaxBatchSize

\* Mutant: only the newcomer's deadline is looked at.
JoinsByOwnDeadline(e, S, lead, t, est) ==
  /\ Cardinality(S) < BatchLimit
  /\ request[e].key = request[lead].key
  /\ t + est[Cardinality(S) + 1] + Guard <= request[e].deadline

\* May e join the batch S, picked so far, at time t?
Joins(e, S, lead, t, est) ==
  /\ Cardinality(S) < BatchLimit
  /\ request[e].key = request[lead].key
  /\ LET p == est[Cardinality(S) + 1]
     IN p = NoEstimate \/ \A x \in S \cup {e} : t + p + Guard <= request[x].deadline

\* B is what the pops of _take_batch_locked select from Q: the leader, then in
\* queue order every envelope that may join those selected before it.
Selects(B, Q, lead, t, est) ==
  /\ lead \in B
  /\ \A e \in Q \ {lead} : e \in B <=> Joins(e, {b \in B : Before(b, e)}, lead, t, est)

\* Mutant: a batch is executed and stays queued.
TakeAndLeave(w, Q, gone, B) ==
  /\ heap' = Q
  /\ active' = Deactivate(gone)
  /\ pendingOf' = ClearPointers(gone)
  /\ dispatched' = [r \in Requests |-> r \in B \/ dispatched[r]]
  /\ batch' = [batch EXCEPT ![w] = B]
  /\ served' = served + Cardinality(B)

\* B leaves the queue Q, from which the sweeps removed gone, for the backend.
Take(w, Q, gone, B) ==
  /\ heap' = Q \ B
  /\ active' = Deactivate(gone \cup B)
  /\ pendingOf' = ClearPointers(gone \cup B)
  /\ dispatched' = [r \in Requests |-> r \in B \/ dispatched[r]]
  /\ batch' = [batch EXCEPT ![w] = B]
  /\ served' = served + Cardinality(B)

WorkerDispatch(w) ==
  /\ Runs(w)
  /\ \E est \in Estimates, lead \in Requests, t \in now .. (now + PassDelay) :
       /\ First(lead, Queue(est)) /\ DispatchAt(lead, est) <= now
       /\ \A r \in Queue(est) : request[r].key \notin BadKeys
       /\ \E B \in SUBSET Queue(est) :
            /\ Selects(B, Queue(est), lead, t, est)
            /\ Take(w, Queue(est), Swept(est), B)
       /\ Write(SweptBook(est))
       /\ t <= MaxTime /\ now' = t
  /\ Becomes(w, "executing", NoTime)
  /\ UNCHANGED <<callVars, latest, lifeVars>>

\* batch_key raises on the first envelope, in queue order, whose key is bad:
\* what was popped before it is gone from the heap, those that had been
\* selected with their dispatch stamp, and the exception ends the task.
WorkerCrash(w) ==
  /\ Runs(w)
  /\ \E est \in Estimates, lead, bad \in Requests :
       LET Q == Queue(est)
           popped == {r \in Q : r = bad \/ Before(r, bad)}
       IN /\ First(lead, Q) /\ DispatchAt(lead, est) <= now
          /\ First(bad, {r \in Q : request[r].key \in BadKeys})
          /\ \E B \in SUBSET popped :
               /\ IF bad = lead THEN B = {bad}
                  ELSE bad \notin B /\ Selects(B, popped \ {bad}, lead, now, est)
               /\ active' = Deactivate(Swept(est) \cup B)
               /\ pendingOf' = ClearPointers(Swept(est) \cup B)
               /\ dispatched' = [r \in Requests |-> r \in B \/ dispatched[r]]
          /\ heap' = Q \ popped
          /\ Write(SweptBook(est))
  /\ Becomes(w, "failed", NoTime)
  /\ UNCHANGED <<now, callVars, latest, batch, served, lifeVars>>

-----------------------------------------------------------------------------
(* _execute().                                                              *)

BatchDone(w, book) ==
  /\ Write(book)
  /\ batch' = [batch EXCEPT ![w] = {}]
  /\ wstate' = [wstate EXCEPT ![w] = "ready"]
  /\ UNCHANGED <<now, callVars, lockVars, queueVars, wake, served, lifeVars>>

\* Mutant: drop_missed_actions is not looked at.
AnswerLate(r, action) ==
  Result(IF now > request[r].deadline THEN "DEADLINE_MISSED" ELSE "COMPLETED", action, None)

\* what an action that answers r is worth at this moment
Answer(r, action) ==
  IF now > request[r].deadline
    THEN Result("DEADLINE_MISSED", IF DropMissed THEN None ELSE action, None)
    ELSE Result("COMPLETED", action, None)

\* Mutants: no identity check; a check that only skips the action.
RoutedUnchecked(B, action) == Finish(Book, [r \in B |-> Answer(r, action[r])])
RoutedSkipping(B, action) ==
  Finish(Book, [r \in {q \in B : action[q] = q} |-> Answer(r, action[r])])

\* action[r] is the request that the action in r's slot names.  Slots are
\* finished in order until one of them names another request; that fails
\* whatever is not finished yet.
Routed(B, action) ==
  LET good == {r \in B : \A q \in B : (q = r \/ Before(q, r)) => action[q] = q}
      answered == Finish(Book, [r \in good |-> Answer(r, action[r])])
  IN IF good = B THEN answered ELSE Finish(answered, All(B, "FAILED"))

\* infer_batch returns one action per request.
BackendReturns(w) ==
  /\ LoopFree /\ wstate[w] = "executing"
  /\ \E action \in IF BackendFaults THEN [batch[w] -> batch[w] \cup {Alien}]
                                    ELSE {[r \in batch[w] |-> r]} :
       BatchDone(w, Routed(batch[w], action))

\* infer_batch raises, or returns a list of another length.
BackendFails(w) ==
  /\ LoopFree /\ wstate[w] = "executing" /\ BackendFaults
  /\ BatchDone(w, Finish(Book, All(batch[w], "FAILED")))

\* CancelledError is no Exception: nothing catches it and it ends the task.
BackendCancelled(w) ==
  /\ LoopFree /\ wstate[w] = "executing" /\ BackendAborts
  /\ wstate' = [wstate EXCEPT ![w] = "failed"]
  /\ UNCHANGED <<now, callVars, lockVars, queueVars, bookVars, wake, batch, served, lifeVars>>

-----------------------------------------------------------------------------
(* start() and close().                                                     *)

Start ==
  /\ LoopFree
  /\ handle = None
  /\ accepting' = TRUE
  /\ \E w \in Workers :
       /\ wstate[w] = "unborn"
       /\ handle' = w
       /\ wstate' = [wstate EXCEPT ![w] = "ready"]
  /\ UNCHANGED <<now, callVars, lockVars, queueVars, bookVars, wake, batch, served, closer, joined>>

\* close() reads self._worker and heads for the lock.
CloseBegin(c) ==
  /\ LoopFree
  /\ closer[c] = "idle" /\ handle # None
  /\ joined' = [joined EXCEPT ![c] = handle]
  /\ closer' = [closer EXCEPT ![c] = "locking"]
  /\ Arrives(c)
  /\ UNCHANGED <<now, callVars, queueVars, bookVars, taskVars,
                 accepting, handle>>

CloseLocked(c) ==
  /\ HasLock(c) /\ Leaves
  /\ accepting' = FALSE
  /\ \E cancel \in CancelModes :
       IF cancel
         THEN /\ active' = Deactivate(Live)
              /\ Write(Finish(Book, All(Live, "CANCELLED")))
              /\ heap' = {}
              /\ pendingOf' = [s \in Sessions |-> None]
         ELSE UNCHANGED <<active, bookVars, heap, pendingOf>>
  /\ NotifyAll
  /\ closer' = [closer EXCEPT ![c] = "joining"]
  /\ UNCHANGED <<now, callVars, dispatched, latest, wake, batch,
                 served, handle, joined>>

\* The awaited task is over: close() forgets it and returns.
CloseReturn(c) ==
  /\ LoopFree
  /\ closer[c] = "joining" /\ wstate[joined[c]] = "done"
  /\ handle' = None
  /\ closer' = [closer EXCEPT ![c] = "returned"]
  /\ UNCHANGED <<now, callVars, lockVars, queueVars, bookVars, taskVars, accepting, joined>>

\* The awaited task ended with an exception, which close() raises.
CloseRaise(c) ==
  /\ LoopFree
  /\ closer[c] = "joining" /\ wstate[joined[c]] = "failed"
  /\ closer' = [closer EXCEPT ![c] = "raised"]
  /\ UNCHANGED <<now, callVars, lockVars, queueVars, bookVars, taskVars, accepting, handle, joined>>

\* A cancelled close() passes the cancellation on to the task it awaits, which
\* ends; wait_for() loses it once its own task is over.
CloseCancelled(c) ==
  /\ CloseCancels /\ LoopFree
  /\ closer[c] = "joining"
  /\ wstate[joined[c]] \in {"ready", "idle", "settling", "timed", "waking", "executing"}
  /\ \A i \in DOMAIN line : line[i] # joined[c]
  /\ wstate' = [wstate EXCEPT ![joined[c]] = "failed"]
  /\ closer' = [closer EXCEPT ![c] = "raised"]
  /\ UNCHANGED <<now, callVars, lockVars, queueVars, bookVars, wake, batch, served, accepting,
                 handle, joined>>

Tick ==
  /\ now < MaxTime
  /\ now' = now + 1
  /\ UNCHANGED <<callVars, lockVars, queueVars, bookVars, taskVars, lifeVars>>

-----------------------------------------------------------------------------
WorkerPass(w) ==
  WorkerExit(w) \/ WorkerIdle(w) \/ WorkerHold(w) \/ WorkerDispatch(w) \/ WorkerCrash(w)

BackendEnds(w) == BackendReturns(w) \/ BackendFails(w) \/ BackendCancelled(w)

CloseJoins(c) == CloseReturn(c) \/ CloseRaise(c) \/ CloseCancelled(c)

Next ==
  \/ \E r \in Requests : Submit(r) \/ EnqueueLocked(r) \/ Abandon(r)
  \/ \E w \in Workers : WorkerPass(w) \/ WakeUp(w) \/ WaitFor(w) \/ BackendEnds(w)
  \/ Start
  \/ \E c \in Closers : CloseBegin(c) \/ CloseLocked(c) \/ CloseJoins(c)
  \/ Tick

Spec == Init /\ [][Next]_vars

\* The event loop runs every task that can run, timers fire, and the backend
\* answers or fails.  Nothing obliges anybody to submit, abandon or close.
Fairness ==
  /\ WF_vars(Tick)
  /\ \A r \in Requests : WF_vars(EnqueueLocked(r))
  /\ \A w \in Workers :
       WF_vars(WorkerPass(w)) /\ WF_vars(WakeUp(w)) /\ WF_vars(WaitFor(w)) /\ WF_vars(BackendEnds(w))
  /\ \A c \in Closers : WF_vars(CloseLocked(c)) /\ WF_vars(CloseJoins(c))

FairSpec == Spec /\ Fairness
=============================================================================
