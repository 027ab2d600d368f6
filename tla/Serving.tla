------------------------------- MODULE Serving -------------------------------
(***************************************************************************)
(* ActServe as a service: the HTTP application of src/actserve/server.py,  *)
(* the scheduler behind it and one of the backends behind that: the        *)
(* HttpJsonBackend, the SmolVLABackend or the AdapterBackend.              *)
(*                                                                         *)
(* Of the scheduler this module knows what RequestContract says of every   *)
(* request (module Scheduler is shown to keep it), that one worker executes*)
(* one batch at a time, how batch_key can end that worker, and what close()*)
(* waits for.                                                              *)
(***************************************************************************)
EXTENDS LatencyEstimator, FiniteSets

CONSTANTS
  Requests, None,
  Alien,        \* the identity of no request
  Kinds,        \* the backends to serve with: "http", "smolvla", "adapter"
  Signatures,   \* values of metadata.input_signature
  Routes,       \* of the AdapterBackend: for a model its backbone, adapter and signature
  Models,       \* the models requests may name; Served is the one SmolVLABackend has
  Served,
  Mixed,        \* mixed_adapter_batch
  KeepsMissed,  \* ~drop_missed_actions
  Durations     \* the latencies that may be measured

ASSUME ServingAssumption ==
  /\ None \notin Requests /\ Alien \notin Requests /\ Alien # None
  /\ None \notin [model : Models, signature : Signatures, stackable : BOOLEAN]
  /\ Kinds \subseteq {"http", "smolvla", "adapter"}
  /\ DOMAIN Routes \subseteq Models /\ Served \in Models
  /\ Mixed \in BOOLEAN /\ KeepsMissed \in BOOLEAN /\ Durations \subseteq Nat

VARIABLES
  kind,        \* the backend this service has
  lifespan,    \* where lifespan() of the application is
  accepting, worker, batch,   \* the scheduler
  stage, action,              \* its requests, as in RequestContract
  input,       \* the body of each request
  code, reply, \* its HTTP status (0: none yet) and the action in the answer
  closed,      \* _closed of the backend
  latencies    \* _latencies_ms of the backend

clientVars    == <<input, code, reply>>
schedulerVars == <<accepting, worker, batch, stage, action>>
backendVars   == <<closed, latencies>>
vars == <<kind, lifespan, clientVars, schedulerVars, backendVars>>

Contract == INSTANCE RequestContract WITH answer <- action

\* The ActionRequest of a client; of its observation, whether SmolVLABackend
\* can stack it with others.
Input == [model : Models, signature : Signatures, stackable : BOOLEAN]

FreshBackend == closed = FALSE /\ latencies = [n \in Sizes |-> <<>>]

Init ==
  /\ kind \in Kinds /\ lifespan = "down"
  /\ accepting = FALSE /\ worker = "none" /\ batch = {}
  /\ Contract!Init
  /\ input = [r \in Requests |-> None]
  /\ code = [r \in Requests |-> 0] /\ reply = [r \in Requests |-> None]
  /\ FreshBackend

-----------------------------------------------------------------------------
(* The handler of POST /v1/actions.                                         *)

Waiting(r) == code[r] = 0 /\ input[r] # None
Queued == {r \in Requests : stage[r] = "queued"} \ batch

\* The handler up to its await.  authorize() answers a request without a valid
\* token with a 401 before any of this; submit() raises if the scheduler does not
\* accept, which the application answers with a 500.  (Bounds: only SmolVLABackend,
\* who would notice, is sent what cannot be stacked; deadline_ms is finite: an
\* infinite one makes with_timeout raise, types.py:60, a 500 as well.)
Post(r, body) ==
  /\ lifespan # "down" /\ input[r] = None /\ (kind = "smolvla" \/ body.stackable)
  /\ input' = [input EXCEPT ![r] = body]
  /\ IF accepting
       THEN /\ \E s \in Contract!TurnedAway \cup {"queued"} : stage' = [stage EXCEPT ![r] = s]
            /\ UNCHANGED code
       ELSE code' = [code EXCEPT ![r] = 500] /\ UNCHANGED stage
  /\ UNCHANGED <<kind, lifespan, reply, accepting, worker, batch, action, backendVars>>

\* A newer observation, time or the latency estimate sheds a queued request.
Shed(r) ==
  /\ r \in Queued
  /\ \E s \in {"REPLACED", "EXPIRED", "UNSERVICEABLE"} :
       /\ s = "UNSERVICEABLE" =>
            worker = "idle" /\ (kind = "adapter" \/ Estimate(latencies, 1) # NoEstimate)
       /\ stage' = [stage EXCEPT ![r] = s]
  /\ UNCHANGED <<kind, lifespan, clientVars, accepting, worker, batch, action, backendVars>>

\* An overloaded scheduler is worth a retry; an outcome with an error is a 503,
\* and the others are answered with whatever action they have.
StatusOf(s) ==
  CASE s = "OVERLOADED" -> 429
    [] s \in {"FAILED", "UNSERVICEABLE"} -> 503
    [] OTHER -> 200

Resolved == Contract!TurnedAway \cup Contract!Shed \cup Contract!Executed

Respond(r) ==
  /\ Waiting(r) /\ stage[r] \in Resolved
  /\ code' = [code EXCEPT ![r] = StatusOf(stage[r])]
  /\ reply' = [reply EXCEPT ![r] = IF StatusOf(stage[r]) = 200 THEN action[r] ELSE None]
  /\ UNCHANGED <<kind, lifespan, input, schedulerVars, backendVars>>

-----------------------------------------------------------------------------
(* The worker of the scheduler, and batch_key() and infer_batch() of the    *)
(* backends.                                                                *)

Routed(r) == kind = "adapter" => input[r].model \in DOMAIN Routes

RouteKey(route) == <<route.backbone, route.signature, IF Mixed THEN None ELSE route.adapter>>

\* batch_key()
BatchKey(r) ==
  IF kind = "adapter" THEN RouteKey(Routes[input[r].model])
  ELSE <<input[r].model, input[r].signature>>

\* The worker compares the key of everything queued with that of its leader.
Dispatch(B) ==
  /\ worker = "idle" /\ B # {} /\ B \subseteq Queued /\ Cardinality(B) <= MaxBatchSize
  /\ \A r \in Queued : Routed(r)
  /\ \A r, q \in B : BatchKey(r) = BatchKey(q)
  /\ worker' = "executing" /\ batch' = B
  /\ stage' = [r \in Requests |-> IF r \in B THEN "executing" ELSE stage[r]]
  /\ UNCHANGED <<kind, lifespan, clientVars, accepting, action, backendVars>>

\* ... and dies with what it has popped when a key has no route.
WorkerDies(B) ==
  /\ worker = "idle" /\ B \subseteq Queued
  /\ \E r \in B : ~Routed(r) /\ \A q \in B \ {r} : Routed(q)
  /\ worker' = "failed" /\ batch' = B
  /\ UNCHANGED <<kind, lifespan, clientVars, accepting, stage, action, backendVars>>

Executes == worker = "executing" /\ worker' = "idle" /\ batch' = {}

(* What infer_batch() may return for the requests of a batch: for each the   *)
(* identity that its action names.                                          *)

Identities == Requests \cup {Alien}

\* A policy server is sent all requests and puts any identities in its actions.
HttpChunks == [batch -> Identities]

\* So does a callable that is given the requests with their routes.
AdapterChunks == [batch -> Identities]

\* SmolVLABackend puts the identities itself, if the batch is of its model and
\* can be stacked.
SmolVLAChunks ==
  IF \A r \in batch : input[r].model = Served /\ input[r].stackable THEN {[r \in batch |-> r]}
  ELSE {}

Chunks ==
  CASE kind = "http" -> HttpChunks
    [] kind = "adapter" -> AdapterChunks
    [] kind = "smolvla" -> SmolVLAChunks

\* Mutant: the identities are not looked at.
AnsweredUnchecked(chunks, done) ==
  /\ done = batch
  /\ stage' = [r \in Requests |-> IF r \in done THEN "COMPLETED" ELSE stage[r]]
  /\ action' = [r \in Requests |->
       IF r \in done /\ chunks[r] \in Requests THEN chunks[r] ELSE action[r]]

\* The scheduler answers the slots one after the other until an identity is
\* wrong: then those not answered yet have failed.
Answered(chunks, done) ==
  /\ \A r \in done : chunks[r] = r
  /\ done = batch \/ \E r \in batch \ done : chunks[r] # r
  /\ \E late \in SUBSET done :
       /\ stage' = [r \in Requests |->
            IF r \in late THEN "DEADLINE_MISSED"
            ELSE IF r \in done THEN "COMPLETED"
            ELSE IF r \in batch THEN "FAILED" ELSE stage[r]]
       /\ action' = [r \in Requests |->
            IF r \in done /\ (r \in late => KeepsMissed) THEN chunks[r] ELSE action[r]]

\* infer_batch() returns, and leaves its latency behind.
BackendReturns ==
  /\ Executes /\ ~closed
  /\ \E chunks \in Chunks, done \in SUBSET batch : Answered(chunks, done)
  /\ IF kind = "adapter" THEN UNCHANGED latencies
     ELSE \E d \in Durations :
            latencies' = [latencies EXCEPT ![Cardinality(batch)] = Appended(@, d)]
  /\ UNCHANGED <<kind, lifespan, clientVars, accepting, closed>>

\* It raises: the backend is closed, the server or the policy fails, a reply is
\* malformed or has another number of actions, an observation is refused.
BackendRaises ==
  /\ Executes
  /\ stage' = [r \in Requests |-> IF r \in batch THEN "FAILED" ELSE stage[r]]
  /\ UNCHANGED <<kind, lifespan, clientVars, accepting, action, backendVars>>

WorkerExits ==
  /\ worker = "idle" /\ ~accepting /\ Queued = {}
  /\ worker' = "done"
  /\ UNCHANGED <<kind, lifespan, clientVars, accepting, batch, stage, action, backendVars>>

-----------------------------------------------------------------------------
(* lifespan() of the application.                                           *)

Startup ==
  /\ lifespan = "down" /\ lifespan' = "serving"
  /\ accepting' = TRUE /\ worker' = "idle"
  /\ UNCHANGED <<kind, clientVars, batch, stage, action, backendVars>>

\* Mutant: requests are still accepted during the shutdown.
ShutdownWhileAccepting ==
  /\ lifespan = "serving" /\ lifespan' = "draining"
  /\ stage' = [r \in Requests |-> IF r \in Queued THEN "CANCELLED" ELSE stage[r]]
  /\ UNCHANGED <<kind, clientVars, accepting, worker, batch, action, backendVars>>

\* scheduler.close(cancel_pending=True), up to its wait for the worker
Shutdown ==
  /\ lifespan = "serving" /\ lifespan' = "draining"
  /\ accepting' = FALSE
  /\ stage' = [r \in Requests |-> IF r \in Queued THEN "CANCELLED" ELSE stage[r]]
  /\ UNCHANGED <<kind, clientVars, worker, batch, action, backendVars>>

\* The client of HttpJsonBackend takes its time to close, unless it is the caller's.
HttpCloses == kind = "http" /\ closed' = TRUE /\ lifespan' \in {"closing", "stopped"}

\* SmolVLABackend joins its thread right here, on the event loop.
SmolVLACloses == kind = "smolvla" /\ closed' = TRUE /\ lifespan' = "stopped"

NothingToClose == kind = "adapter" /\ closed' = closed /\ lifespan' = "stopped"

\* aclose() of the backend, if it has one
CloseBackend == HttpCloses \/ SmolVLACloses \/ NothingToClose

\* Mutant: the backend is closed without waiting for the worker.
CloseAtOnce ==
  /\ lifespan = "draining" /\ CloseBackend
  /\ UNCHANGED <<kind, clientVars, schedulerVars, latencies>>

\* The worker is done and the backend can be closed; if it died its exception
\* comes out of close() and the backend stays open.
SchedulerCloses ==
  /\ lifespan = "draining" /\ worker \in {"done", "failed"}
  /\ IF worker = "done" THEN CloseBackend ELSE lifespan' = "raised" /\ UNCHANGED closed
  /\ UNCHANGED <<kind, clientVars, schedulerVars, latencies>>

ClientCloses ==
  /\ lifespan = "closing" /\ lifespan' = "stopped"
  /\ UNCHANGED <<kind, clientVars, schedulerVars, backendVars>>

-----------------------------------------------------------------------------
WorkerStep ==
  \/ \E B \in SUBSET Requests : Dispatch(B) \/ WorkerDies(B)
  \/ BackendReturns \/ BackendRaises \/ WorkerExits

LifespanEnds == SchedulerCloses \/ ClientCloses

Next ==
  \/ \E r \in Requests :
       \/ \E body \in Input : Post(r, body)
       \/ Shed(r) \/ Respond(r)
  \/ WorkerStep
  \/ Startup \/ Shutdown \/ LifespanEnds

Spec == Init /\ [][Next]_vars

\* The service takes its own steps, and infer_batch() ends: the HTTP client has
\* a timeout.  Clients and the operator need not do anything.
Fairness ==
  /\ WF_vars(WorkerStep) /\ WF_vars(LifespanEnds)
  /\ \A r \in Requests : WF_vars(Respond(r))

FairSpec == Spec /\ Fairness
=============================================================================
