---------------------------- MODULE SchedulerProps ----------------------------
(***************************************************************************)
(* What the scheduler of src/actserve/scheduler.py must do, stated over    *)
(* the model in Scheduler.                                                 *)
(***************************************************************************)
EXTENDS Scheduler

Live0 == {w \in Workers : wstate[w] \notin {"unborn", "done", "failed"}}
NoFailure == \A w \in Workers : wstate[w] # "failed"

WorkerStates ==
  {"unborn", "ready", "idle", "timed", "executing", "done", "failed"}
    \cup {"settling", "waking", "holding"}

Outcome == [status : Statuses \cup {"PENDING", "ABANDONED"},
            action : Requests \cup {None}, by : Requests \cup {None}]

\* Every variable has its type.  In particular a future never holds an action
\* that names another request than one of this scheduler's (scheduler.py:272).
TypeOK ==
  /\ now \in Nat /\ created \in Nat
  /\ request \in [Requests -> Request \cup {None}]
  /\ line \in Seq(Requests \cup Closers \cup Workers) /\ parked \in BOOLEAN
  /\ caller \in [Requests -> {"new", "entering", "submitted"}]
  /\ heap \in SUBSET Requests
  /\ active \in [Requests -> BOOLEAN]
  /\ dispatched \in [Requests -> BOOLEAN]
  /\ outcome \in [Requests -> Outcome]
  /\ pendingOf \in [Sessions -> Requests \cup {None}]
  /\ latest \in [Sessions -> SeqNos \cup {NoSeq}]
  /\ accepting \in BOOLEAN
  /\ handle \in Workers \cup {None}
  /\ wstate \in [Workers -> WorkerStates]
  /\ wake \in [Workers -> Int]
  /\ batch \in [Workers -> SUBSET Requests]
  /\ closer \in [Closers -> {"idle", "locking", "joining", "returned", "raised"}]
  /\ joined \in [Closers -> Workers \cup {None}]
  /\ submitted \in Nat /\ served \in Nat
  /\ tally \in [Statuses -> Nat]

-----------------------------------------------------------------------------
(* The queue.                                                               *)

Admitted(r) ==
  caller[r] = "submitted" /\ outcome[r].status \notin {"OUT_OF_ORDER", "OVERLOADED"}

SameSession(a, b) == request[a].session = request[b].session

\* With coalescing, the session pointer finds every queued observation: at most
\* one per session waits, whatever expired, was replaced or was dispatched in
\* between (scheduler.py:117-148, 354-357).
QueuedIsPointed ==
  Coalesce => \A r \in Live : pendingOf[request[r].session] = r

\* A queued observation is the newest its session ever had admitted, so no
\* frame is executed after a newer one of the same robot (scheduler.py:109-116).
QueuedIsNewest ==
  Coalesce /\ Enforce =>
    \A r \in Live, d \in Requests :
      Admitted(d) /\ d # r /\ SameSession(d, r) => request[d].seq < request[r].seq

\* The bound on pending requests holds although a replacement is admitted
\* without asking for room (scheduler.py:125-129).
CapacityRespected ==
  MaxPending # 0 /\ NoFailure => Cardinality(Live) <= MaxPending

\* A queued request is waited for by a worker that will look at it again by
\* itself: no wake-up is lost and no request outlives the last worker
\* (scheduler.py:149, 177-181).
NoSleepOnWork ==
  Live # {} => \E w \in Live0 : wstate[w] # "idle"

\* An admitted request whose future is pending is queued or being executed:
\* none falls between the queue, the batches and the outcomes.
NothingLost ==
  \A r \in Requests :
    Admitted(r) /\ outcome[r].status = "PENDING" =>
      r \in Live \/ \E w \in Workers : wstate[w] = "executing" /\ r \in batch[w]

\* While a worker sleeps in the batching window, it wakes up before the
\* dispatch guard of every queued request, those that arrived during the sleep
\* included (docs/ARCHITECTURE.md:37-39).
SleepEndsBeforeGuard ==
  Policy = "edf" =>
    \A w \in Workers, r \in Live :
      wstate[w] \in {"settling", "timed"} =>
        \E est \in Estimates : wake[w] <= request[r].deadline - Guard - Predicted(est)

-----------------------------------------------------------------------------
(* Steps.                                                                   *)

Dispatches(w) == wstate[w] # "executing" /\ wstate'[w] = "executing"

\* A future is resolved once: failing a batch does not take back the outcomes
\* of its first slots, nor replacing an expired frame (scheduler.py:369-370).
OutcomeFinal ==
  [][\A r \in Requests : outcome[r].status # "PENDING" => outcome'[r] = outcome[r]]_vars

\* No envelope is handed to the backend twice, not even by two workers.
DispatchedOnce ==
  [][\A r \in Requests, w \in Workers :
       dispatched[r] /\ r \notin batch[w] => r \notin batch'[w]]_vars

\* A batch of several requests is expected to finish, with the guard to spare,
\* before the earliest deadline in it (scheduler.py:222-231).
BatchOnTime ==
  [][\A w \in Workers :
       Dispatches(w) /\ Cardinality(batch'[w]) > 1 =>
         \E est \in Estimates :
           LET p == est[Cardinality(batch'[w])]
           IN p = NoEstimate \/ \A r \in batch'[w] : now' + p + Guard <= request[r].deadline]_vars

\* EDF: no dispatch leaves in the queue a request due before all of the batch,
\* nor takes one that had expired when the pass began (scheduler.py:183, 316).
EarliestDispatched ==
  [][\A w \in Workers :
       Dispatches(w) =>
         /\ \A r \in batch'[w] : now < request[r].deadline
         /\ Policy = "edf" => \A q \in heap' : \E r \in batch'[w] :
                                request[r].deadline <= request[q].deadline]_vars

\* The newest sequence number of a session never goes back, not even when its
\* observations are expired, replaced or cancelled.
SequenceMonotonic ==
  [][Enforce => \A s \in Sessions : latest'[s] >= latest[s]]_vars

-----------------------------------------------------------------------------
(* Outcomes and metrics.                                                    *)

\* An action is returned only to the request it names, while the worker that
\* dispatched the request is executing it, and never after its deadline when
\* late actions are dropped.
ActionsAreSafe ==
  [][\A r \in Requests :
       outcome'[r].action # outcome[r].action =>
         /\ outcome'[r].action = r
         /\ dispatched[r]
         /\ \E w \in Workers : wstate[w] = "executing" /\ r \in batch[w]
         /\ DropMissed => now <= request[r].deadline]_vars

\* A replaced observation was replaced by a newer one of its own session that
\* was admitted in its place (scheduler.py:140-147).
ReplacedByNewer ==
  \A r \in Requests :
    outcome[r].status = "REPLACED" =>
      LET q == outcome[r].by
      IN /\ q # None
         /\ Admitted(q) /\ SameSession(q, r) /\ request[r].order < request[q].order
         /\ Enforce => request[r].seq < request[q].seq

\* Every submission is counted once: under its status when it is resolved, as
\* in flight before (src/actserve/metrics.py:93-112).
Unresolved ==
  {r \in Requests : caller[r] = "submitted" /\ outcome[r].status \in {"PENDING", "ABANDONED"}}

MetricsAgree ==
  /\ \A s \in Statuses : tally[s] = Cardinality({r \in Requests : outcome[r].status = s})
  /\ submitted = Cardinality(Unresolved)
                   + Cardinality({r \in Requests : outcome[r].status \in Statuses})
  /\ NoFailure => served = Cardinality({r \in Requests : dispatched[r]})

-----------------------------------------------------------------------------
(* The contract with the callers.                                           *)

Stage(r) ==
  IF caller[r] # "submitted" THEN "new"
  ELSE IF outcome[r].status # "PENDING" THEN outcome[r].status
  ELSE IF dispatched[r] THEN "executing"
  ELSE "queued"

Contract == INSTANCE RequestContract WITH
  KeepsMissed <- ~DropMissed,
  stage <- [r \in Requests |-> Stage(r)],
  answer <- [r \in Requests |-> outcome[r].action]

\* The scheduler keeps the contract of RequestContract, in every configuration
\* and through every failure of the backend and of the lifecycle.
KeepsContract == Contract!Spec

-----------------------------------------------------------------------------
(* What the safety properties rest on: the inductive invariant.             *)

\* the tasks that asked for the lock and do not have it
Asking ==
  {r \in Requests : caller[r] = "entering"}
    \cup {c \in Closers : closer[c] = "locking"}
    \cup {w \in Workers : LockYields /\ wstate[w] \in {"ready", "waking"}}

\* Whoever is in line for the lock is there once, and nowhere else.  Where the
\* lock is never found taken, nobody waits for it and no worker is around it.
LineOK ==
  /\ \A i \in 1 .. Len(line) : line[i] \in Asking
  /\ \A i, j \in 1 .. Len(line) : line[i] = line[j] => i = j
  /\ ~LockYields =>
       ~parked /\ \A w \in Workers : wstate[w] \notin {"settling", "waking", "holding"}

\* A call has a request, and nothing happened to it before it had the lock; a
\* future that is pending holds nothing.
CallsOK ==
  \A r \in Requests :
    /\ caller[r] # "new" => request[r] \in Request
    /\ caller[r] # "submitted" => outcome[r] = Pending /\ ~dispatched[r]
    /\ outcome[r].status = "PENDING" => outcome[r].action = None

\* What is queued was submitted and not dispatched, what a worker executes was
\* dispatched, and a session points to an observation of its own.
QueueOK ==
  /\ \A r \in Live : caller[r] = "submitted" /\ ~dispatched[r]
  /\ \A w \in Workers : \A r \in batch[w] : caller[r] = "submitted" /\ dispatched[r]
  /\ \A s \in Sessions :
       pendingOf[s] # None =>
         caller[pendingOf[s]] = "submitted" /\ request[pendingOf[s]].session = s

\* No admitted sequence number is above the one its session remembers.
LatestOK ==
  Enforce => \A r \in Requests : Admitted(r) => request[r].seq <= latest[request[r].session]

IInv == TypeOK /\ LineOK /\ CallsOK /\ QueueOK /\ LatestOK /\ QueuedIsPointed /\ QueuedIsNewest

-----------------------------------------------------------------------------
(* Lifecycle.                                                               *)

\* A close() that returned left no worker running and nothing queued behind
\* it, so the backend can be closed next (server.py:36-44).
CloseDrains ==
  (\E c \in Closers : closer[c] = "returned") /\ handle = None =>
    Live0 = {} /\ Live = {} /\ \A r \in Requests : Admitted(r) => outcome[r].status # "PENDING"

\* Every request that is submitted is resolved: completed, failed, or shed.
EveryRequestResolved ==
  \A r \in Requests : (caller[r] = "entering") ~> (outcome[r].status # "PENDING")

\* close() comes back.
CloseReturns == \A c \in Closers : (closer[c] = "locking") ~> (closer[c] = "returned")

-----------------------------------------------------------------------------
(* What the documentation, a docstring or a guard says and the code does    *)
(* not always do.                                                           *)

\* docs/ARCHITECTURE.md:64: "The whole backend call fails closed on an
\* identity mismatch": no request of a batch is answered when another fails.
WholeBatchFailsClosed ==
  [][\A w \in Workers :
       wstate[w] = "executing" /\ wstate'[w] = "ready" =>
         ~ \E r, q \in batch[w] : /\ outcome'[r].status = "FAILED"
                                  /\ outcome'[q].status = "COMPLETED"]_vars

\* scheduler.py:298: "backend failures become per-request outcomes": no
\* request is left behind pending by an exception of the backend.
FailuresBecomeOutcomes ==
  \A r \in Requests :
    dispatched[r] /\ outcome[r].status = "PENDING" =>
      \E w \in Workers : wstate[w] = "executing" /\ r \in batch[w]

\* scheduler.py:95: "scheduler is not accepting requests; call start() first": a
\* request that comes too late is refused, and not queued behind the last worker.
LateRequestsRefused == ~accepting /\ Live0 = {} => Live = {}

\* scheduler.py:79: is_accepting tells "Whether the scheduler is running and
\* accepting new requests".
IsAccepting == accepting /\ handle # None /\ wstate[handle] \notin {"done", "failed"}
IsAcceptingIsTrue == IsAccepting <=> accepting /\ Live0 # {}
=============================================================================
