---------------------------- MODULE ServingProps ----------------------------
(***************************************************************************)
(* What ActServe must do as a service, stated over the model in Serving.   *)
(***************************************************************************)
EXTENDS Serving

LifespanState == {"down", "serving", "draining", "closing", "stopped", "raised"}
WorkerState == {"none", "idle", "executing", "done", "failed"}
Stages == {"new", "queued", "executing"} \cup Resolved

\* Every variable has its type.
TypeOK ==
  /\ kind \in Kinds /\ lifespan \in LifespanState
  /\ accepting \in BOOLEAN /\ worker \in WorkerState /\ batch \in SUBSET Requests
  /\ stage \in [Requests -> Stages] /\ action \in [Requests -> Requests \cup {None}]
  /\ input \in [Requests -> Input \cup {None}]
  /\ code \in [Requests -> {0, 200, 429, 500, 503}]
  /\ reply \in [Requests -> Requests \cup {None}]
  /\ closed \in BOOLEAN /\ latencies \in [Sizes -> Seq(Durations)]

-----------------------------------------------------------------------------
\* The backend is closed when nobody needs it any more: no batch is executed, so
\* SmolVLABackend's shutdown(wait=True) does not block the event loop, and every
\* request that was admitted has its outcome.  Only the death of the worker
\* makes lifespan() end without closing it (server.py:36-44).
BackendClosedLast ==
  /\ closed => worker = "done" /\ \A r \in Requests : stage[r] \notin {"queued", "executing"}
  /\ lifespan = "raised" => worker = "failed"
  /\ lifespan = "stopped" => closed \/ kind = "adapter"

\* docs/ADAPTER_ROUTING.md: "Requests are never batched across different
\* backbones or input signatures", nor across models or, unless the runtime can
\* mix them, adapters: a request fails by no other model's fault.
BatchesAreHomogeneous ==
  worker = "executing" =>
    \A r, q \in batch :
      IF kind = "adapter"
        THEN LET a == Routes[input[r].model]
                 b == Routes[input[q].model]
             IN  a.backbone = b.backbone /\ a.signature = b.signature
                   /\ (~Mixed => a.adapter = b.adapter)
        ELSE input[r].model = input[q].model /\ input[r].signature = input[q].signature

\* A larger batch is never expected to be done sooner: the scheduler drops by the
\* estimate for one request, and lets another join a batch by that for them all
\* (scheduler.py:222, 334).
LargerNeverCheaper ==
  \A n, b \in Sizes : n <= b => Estimate(latencies, n) <= Estimate(latencies, b)

-----------------------------------------------------------------------------
(* The contract with the clients.                                           *)

Called(r) ==
  CASE Waiting(r) -> "running"
    [] input[r] = None -> "idle"
    [] code[r] = 500 -> "refused"
    [] code[r] = 200 /\ reply[r] # None -> "returned"
    [] OTHER -> "raised"

\* The application as its clients see it
Service == INSTANCE InferenceService WITH
  Calls <- Requests,
  open <- accepting \/ lifespan = "down",
  call <- [r \in Requests |-> Called(r)],
  answer <- reply

\* With any of the backends behind it, whatever their servers answer, a client
\* gets one answer: an action of its own request or none, and a refusal if and
\* only if the service was already shutting down.
KeepsService == Service!Spec

\* Every client is answered and every shutdown ends, unless the worker died, as
\* /readyz then tells (server.py:63-67, 98-103).
EveryoneAnswered ==
  /\ \A r \in Requests : Waiting(r) ~> ~Waiting(r) \/ worker = "failed"
  /\ lifespan = "draining" ~> lifespan \in {"stopped", "raised"}
=============================================================================
