---------------------------- MODULE ServingProofs ----------------------------
(***************************************************************************)
(* The safety of the service, proved for every number of requests, every   *)
(* backend and every table of routes.                                      *)
(***************************************************************************)
EXTENDS ServingProps, DataLemmas

\* The worker, its batch and the life of the application.
WorkerOK ==
  /\ worker = "none" <=> lifespan = "down"
  /\ accepting <=> lifespan = "serving"
  /\ worker \in {"none", "idle", "done"} => batch = {}
  /\ \A r \in Requests : stage[r] = "executing" <=> worker = "executing" /\ r \in batch
  /\ worker = "done" => ~accepting /\ \A r \in Requests : stage[r] # "queued"

\* The backend follows the worker.
ClosedOK ==
  /\ closed => worker = "done"
  /\ lifespan = "raised" => worker = "failed"
  /\ lifespan \in {"closing", "stopped"} => worker = "done" /\ (closed \/ kind = "adapter")

\* A request and what is known of it.
RequestsOK ==
  \A r \in Requests :
    /\ action[r] \in {None, r} /\ reply[r] \in {None, r}
    /\ reply[r] # None => code[r] = 200
    /\ code[r] # 0 => input[r] # None
    /\ input[r] = None => stage[r] = "new"
    /\ lifespan = "down" => input[r] = None

IInv == TypeOK /\ WorkerOK /\ ClosedOK /\ RequestsOK /\ BatchesAreHomogeneous

\* The states a request may have are told apart.
LEMMA StageNames ==
  /\ Resolved = {"OUT_OF_ORDER", "OVERLOADED", "EXPIRED", "UNSERVICEABLE", "REPLACED",
                 "CANCELLED", "COMPLETED", "DEADLINE_MISSED", "FAILED"}
  /\ "new" \in Stages /\ "queued" \in Stages /\ "executing" \in Stages
BY DEF Resolved, Stages, Contract!TurnedAway, Contract!Shed, Contract!Executed

\* A process that was just started satisfies the invariant.
LEMMA InitIInv == Init => IInv
<1> SUFFICES ASSUME Init PROVE IInv
  OBVIOUS
<1> USE DEF Init, FreshBackend, Contract!Init
<1>1. TypeOK
  <2>1. latencies \in [Sizes -> Seq(Durations)]
    BY EmptySeq
  <2>2. stage \in [Requests -> Stages]
    BY StageNames
  <2> QED BY <2>1, <2>2 DEF TypeOK, LifespanState, WorkerState
<1>2. WorkerOK /\ ClosedOK /\ RequestsOK /\ BatchesAreHomogeneous
  BY DEF WorkerOK, ClosedOK, RequestsOK, BatchesAreHomogeneous
<1> QED BY <1>1, <1>2 DEF IInv

-----------------------------------------------------------------------------
(* Types.                                                                   *)

\* A window of latencies is one after another is appended to it.
LEMMA WindowTyped ==
  ASSUME NEW samples \in Seq(Durations), NEW d \in Durations
  PROVE  Appended(samples, d) \in Seq(Durations)
<1>1. Append(samples, d) \in Seq(Durations) /\ Append(samples, d) # <<>>
  BY AppendProperties
<1>2. Tail(Append(samples, d)) \in Seq(Durations)
  BY <1>1, HeadTailProperties
<1> QED BY <1>1, <1>2 DEF Appended

\* What a batch leaves behind.
LEMMA AnsweredTyped ==
  ASSUME TypeOK, NEW chunks \in Chunks, NEW done \in SUBSET batch, Answered(chunks, done)
  PROVE  /\ stage' \in [Requests -> Stages] /\ action' \in [Requests -> Requests \cup {None}]
         /\ \A r \in Requests : r \in batch => stage'[r] \in {"COMPLETED", "DEADLINE_MISSED", "FAILED"}
         /\ \A r \in Requests : r \notin batch => stage'[r] = stage[r]
         /\ \A r \in Requests : action'[r] \in {action[r], r}
<1>1. PICK late \in SUBSET done :
        /\ stage' = [r \in Requests |->
             IF r \in late THEN "DEADLINE_MISSED"
             ELSE IF r \in done THEN "COMPLETED"
             ELSE IF r \in batch THEN "FAILED" ELSE stage[r]]
        /\ action' = [r \in Requests |->
             IF r \in done /\ (r \in late => KeepsMissed) THEN chunks[r] ELSE action[r]]
  BY DEF Answered
<1>2. \A r \in done : chunks[r] = r
  BY DEF Answered
<1>3. \A r \in Requests : action'[r] \in {action[r], r}
  BY <1>1, <1>2
<1>4. batch \in SUBSET Requests /\ stage \in [Requests -> Stages]
        /\ action \in [Requests -> Requests \cup {None}]
  BY DEF TypeOK
<1>5. stage' \in [Requests -> Stages]
  BY <1>1, <1>4, StageNames DEF Stages
<1>6. action' \in [Requests -> Requests \cup {None}]
  BY <1>1, <1>2, <1>4
<1>7. \A r \in Requests : r \in batch => stage'[r] \in {"COMPLETED", "DEADLINE_MISSED", "FAILED"}
  BY <1>1
<1>8. \A r \in Requests : r \notin batch => stage'[r] = stage[r]
  BY <1>1
<1> QED BY <1>3, <1>5, <1>6, <1>7, <1>8

\* Every step keeps the types.
LEMMA TypeKept ==
  ASSUME TypeOK, Next
  PROVE  TypeOK'
<1> USE DEF TypeOK
<1>1. ASSUME NEW r \in Requests, NEW body \in Input, Post(r, body) PROVE TypeOK'
  <2>1. input' \in [Requests -> Input \cup {None}]
    BY <1>1 DEF Post
  <2>2. stage' \in [Requests -> Stages]
    <3>1. Contract!TurnedAway \cup {"queued"} \subseteq Stages
      BY DEF Stages, Resolved
    <3> QED BY <1>1, <3>1 DEF Post
  <2>3. code' \in [Requests -> {0, 200, 429, 500, 503}]
    BY <1>1 DEF Post
  <2> QED BY <1>1, <2>1, <2>2, <2>3 DEF Post, backendVars
<1>2. ASSUME NEW r \in Requests, Shed(r) PROVE TypeOK'
  BY <1>2, StageNames DEF Shed, Stages, clientVars, backendVars
<1>3. ASSUME NEW r \in Requests, Respond(r) PROVE TypeOK'
  <2>1. StatusOf(stage[r]) \in {200, 429, 503}
    BY DEF StatusOf
  <2> QED BY <1>3, <2>1 DEF Respond, schedulerVars, backendVars
<1>4. ASSUME NEW B \in SUBSET Requests, Dispatch(B) PROVE TypeOK'
  BY <1>4, StageNames DEF Dispatch, WorkerState, clientVars, backendVars
<1>5. ASSUME NEW B \in SUBSET Requests, WorkerDies(B) PROVE TypeOK'
  BY <1>5 DEF WorkerDies, WorkerState, clientVars, backendVars
<1>6. ASSUME BackendReturns PROVE TypeOK'
  <2>1. PICK chunks \in Chunks, done \in SUBSET batch : Answered(chunks, done)
    BY <1>6 DEF BackendReturns
  <2>2. stage' \in [Requests -> Stages] /\ action' \in [Requests -> Requests \cup {None}]
    BY <2>1, AnsweredTyped
  <2>3. latencies' \in [Sizes -> Seq(Durations)]
    <3>1. CASE kind = "adapter"
      BY <1>6, <3>1 DEF BackendReturns
    <3>2. CASE kind # "adapter"
      <4>1. PICK d \in Durations :
              latencies' = [latencies EXCEPT ![Cardinality(batch)] = Appended(@, d)]
        BY <1>6, <3>2 DEF BackendReturns
      <4>2. ASSUME NEW n \in Sizes PROVE Appended(latencies[n], d) \in Seq(Durations)
        BY WindowTyped
      <4> QED BY <4>1, <4>2, Zenon
    <3> QED BY <3>1, <3>2
  <2> QED BY <1>6, <2>2, <2>3 DEF BackendReturns, Executes, WorkerState, clientVars
<1>7. ASSUME BackendRaises PROVE TypeOK'
  BY <1>7, StageNames DEF BackendRaises, Executes, WorkerState, Stages, clientVars, backendVars
<1>8. ASSUME WorkerExits PROVE TypeOK'
  BY <1>8 DEF WorkerExits, WorkerState, clientVars, backendVars
<1>9. ASSUME Startup PROVE TypeOK'
  BY <1>9 DEF Startup, LifespanState, WorkerState, clientVars, backendVars
<1>10. ASSUME Shutdown PROVE TypeOK'
  BY <1>10, StageNames DEF Shutdown, LifespanState, Stages, clientVars, backendVars
<1>11. ASSUME SchedulerCloses PROVE TypeOK'
  BY <1>11 DEF SchedulerCloses, CloseBackend, HttpCloses, SmolVLACloses, NothingToClose,
    LifespanState, clientVars, schedulerVars
<1>12. ASSUME ClientCloses PROVE TypeOK'
  BY <1>12 DEF ClientCloses, LifespanState, clientVars, schedulerVars, backendVars
<1> QED
  BY <1>1, <1>2, <1>3, <1>4, <1>5, <1>6, <1>7, <1>8, <1>9, <1>10, <1>11, <1>12
  DEF Next, WorkerStep, LifespanEnds

-----------------------------------------------------------------------------
(* The rest of the invariant, step by step.                                 *)

Rest == WorkerOK /\ ClosedOK /\ RequestsOK /\ BatchesAreHomogeneous

\* A posted request is turned away at once or queued.
LEMMA PostKept ==
  ASSUME IInv, NEW r \in Requests, NEW body \in Input, Post(r, body)
  PROVE  Rest'
<1> USE DEF IInv
<1>1. /\ stage' = stage \/ \E s \in {"OUT_OF_ORDER", "OVERLOADED", "queued"} :
                            accepting /\ stage' = [stage EXCEPT ![r] = s]
      /\ input' = [input EXCEPT ![r] = body] /\ body # None
      /\ code' = code \/ code' = [code EXCEPT ![r] = 500]
      /\ input[r] = None /\ lifespan # "down"
      /\ UNCHANGED <<kind, lifespan, reply, accepting, worker, batch, action, closed, latencies>>
  BY ServingAssumption DEF ServingAssumption, Post, backendVars, Input, Contract!TurnedAway
<1>2. stage[r] = "new" /\ code[r] = 0
  BY <1>1 DEF RequestsOK, TypeOK
<1>3. WorkerOK'
  BY <1>1, <1>2 DEF WorkerOK, TypeOK
<1>4. ClosedOK'
  BY <1>1 DEF ClosedOK
<1>5. RequestsOK'
  BY <1>1, <1>2 DEF RequestsOK, TypeOK
<1>6. BatchesAreHomogeneous'
  <2>1. worker = "executing" => \A q \in batch : q # r
    BY <1>2 DEF WorkerOK, TypeOK
  <2> QED BY <1>1, <2>1 DEF BatchesAreHomogeneous, TypeOK
<1> QED BY <1>3, <1>4, <1>5, <1>6 DEF Rest

\* The scheduler resolves only what is queued.
LEMMA ShedKept ==
  ASSUME IInv, NEW r \in Requests, Shed(r)
  PROVE  Rest'
<1> USE DEF IInv
<1>1. PICK s \in {"REPLACED", "EXPIRED", "UNSERVICEABLE"} : stage' = [stage EXCEPT ![r] = s]
  BY DEF Shed
<1>2. stage[r] = "queued" /\ r \notin batch
      /\ UNCHANGED <<kind, lifespan, clientVars, accepting, worker, batch, action, backendVars>>
  BY DEF Shed, Queued
<1>3. WorkerOK' /\ ClosedOK'
  BY <1>1, <1>2 DEF WorkerOK, ClosedOK, TypeOK, backendVars
<1>4. RequestsOK'
  BY <1>1, <1>2 DEF RequestsOK, TypeOK, clientVars
<1>5. BatchesAreHomogeneous'
  BY <1>2 DEF BatchesAreHomogeneous, clientVars
<1> QED BY <1>3, <1>4, <1>5 DEF Rest

\* A client is told what its request came to.
LEMMA RespondKept ==
  ASSUME IInv, NEW r \in Requests, Respond(r)
  PROVE  Rest'
<1> USE DEF IInv
<1>1. /\ code' = [code EXCEPT ![r] = StatusOf(stage[r])]
      /\ reply' = [reply EXCEPT ![r] = IF StatusOf(stage[r]) = 200 THEN action[r] ELSE None]
      /\ input[r] # None
      /\ UNCHANGED <<kind, lifespan, input, schedulerVars, backendVars>>
  BY DEF Respond, Waiting
<1>2. WorkerOK' /\ ClosedOK' /\ BatchesAreHomogeneous'
  BY <1>1 DEF WorkerOK, ClosedOK, BatchesAreHomogeneous, schedulerVars, backendVars
<1>3. RequestsOK'
  BY <1>1 DEF RequestsOK, TypeOK, schedulerVars
<1> QED BY <1>2, <1>3 DEF Rest

\* A batch takes what is queued, for one backend and one policy.
LEMMA DispatchKept ==
  ASSUME IInv, NEW B \in SUBSET Requests, Dispatch(B)
  PROVE  Rest'
<1> USE DEF IInv
<1>1. /\ worker = "idle" /\ worker' = "executing" /\ batch' = B
      /\ \A r \in B : stage[r] = "queued" /\ Routed(r) /\ input[r] \in Input
      /\ stage' = [r \in Requests |-> IF r \in B THEN "executing" ELSE stage[r]]
      /\ UNCHANGED <<kind, lifespan, clientVars, accepting, action, backendVars>>
  BY DEF Dispatch, Queued, RequestsOK, TypeOK
<1>2. WorkerOK' /\ ClosedOK'
  BY <1>1 DEF WorkerOK, ClosedOK, TypeOK, backendVars
<1>3. RequestsOK'
  BY <1>1 DEF RequestsOK, TypeOK, clientVars
<1>4. BatchesAreHomogeneous'
  <2> SUFFICES ASSUME NEW r \in B, NEW q \in B
               PROVE  IF kind = "adapter"
                        THEN LET a == Routes[input[r].model]
                                 b == Routes[input[q].model]
                             IN  a.backbone = b.backbone /\ a.signature = b.signature
                                   /\ (~Mixed => a.adapter = b.adapter)
                        ELSE input[r].model = input[q].model
                               /\ input[r].signature = input[q].signature
    BY <1>1 DEF BatchesAreHomogeneous, clientVars
  <2>1. BatchKey(r) = BatchKey(q) /\ input[r] \in Input /\ input[q] \in Input
    BY <1>1 DEF Dispatch
  <2>2. CASE kind = "adapter"
    BY <2>1, <2>2 DEF BatchKey, RouteKey
  <2>3. CASE kind # "adapter"
    BY <2>1, <2>3 DEF BatchKey, Input
  <2> QED BY <2>2, <2>3
<1> QED BY <1>2, <1>3, <1>4 DEF Rest

\* An exception in the worker's pass leaves what it popped pending for ever.
LEMMA WorkerDiesKept ==
  ASSUME IInv, NEW B \in SUBSET Requests, WorkerDies(B)
  PROVE  Rest'
<1> USE DEF IInv
<1>1. /\ worker = "idle" /\ worker' = "failed"
      /\ UNCHANGED <<kind, lifespan, clientVars, accepting, stage, action, backendVars>>
  BY DEF WorkerDies
<1>2. WorkerOK' /\ ClosedOK'
  BY <1>1 DEF WorkerOK, ClosedOK, TypeOK, backendVars
<1>3. RequestsOK' /\ BatchesAreHomogeneous'
  BY <1>1 DEF RequestsOK, BatchesAreHomogeneous, clientVars
<1> QED BY <1>2, <1>3 DEF Rest

\* The end of a batch resolves all of it and leaves the worker idle.
LEMMA BatchEndKept ==
  ASSUME IInv, BackendReturns \/ BackendRaises
  PROVE  Rest'
<1> USE DEF IInv
<1>1. /\ worker = "executing" /\ worker' = "idle" /\ batch' = {}
      /\ UNCHANGED <<kind, lifespan, clientVars, accepting, closed>>
  BY DEF BackendReturns, BackendRaises, Executes, backendVars
<1>2. /\ stage' \in [Requests -> Stages]
      /\ \A r \in Requests : r \in batch => stage'[r] \in {"COMPLETED", "DEADLINE_MISSED", "FAILED"}
      /\ \A r \in Requests : r \notin batch => stage'[r] = stage[r]
      /\ \A r \in Requests : action'[r] \in {action[r], r}
  <2>1. CASE BackendReturns
    BY <2>1, AnsweredTyped DEF BackendReturns
  <2>2. CASE BackendRaises
    BY <2>2, StageNames DEF BackendRaises, TypeOK, Stages
  <2> QED BY <2>1, <2>2
<1>3. WorkerOK' /\ ClosedOK'
  BY <1>1, <1>2 DEF WorkerOK, ClosedOK, TypeOK
<1>4. RequestsOK'
  BY <1>1, <1>2 DEF RequestsOK, WorkerOK, TypeOK, clientVars
<1>5. BatchesAreHomogeneous'
  BY <1>1 DEF BatchesAreHomogeneous
<1> QED BY <1>3, <1>4, <1>5 DEF Rest

\* Starting and closing leave the requests alone, but for those close() cancels.
LEMMA LifeKept ==
  ASSUME IInv, WorkerExits \/ Startup \/ Shutdown \/ SchedulerCloses \/ ClientCloses
  PROVE  Rest'
<1> USE DEF IInv
<1>1. CASE WorkerExits
  BY <1>1 DEF WorkerExits, Queued, Rest, WorkerOK, ClosedOK, RequestsOK, BatchesAreHomogeneous,
              TypeOK, clientVars, backendVars
<1>2. CASE Startup
  BY <1>2 DEF Startup, Rest, WorkerOK, ClosedOK, RequestsOK, BatchesAreHomogeneous,
              TypeOK, clientVars, backendVars
<1>3. CASE Shutdown
  BY <1>3 DEF Shutdown, Queued, Rest, WorkerOK, ClosedOK, RequestsOK, BatchesAreHomogeneous,
              TypeOK, clientVars, backendVars
<1>4. CASE SchedulerCloses
  <2>1. lifespan = "draining" /\ UNCHANGED <<kind, clientVars, schedulerVars, latencies>>
    BY <1>4 DEF SchedulerCloses
  <2>2. lifespan' \in {"closing", "stopped", "raised"}
    BY <1>4 DEF SchedulerCloses, CloseBackend, HttpCloses, SmolVLACloses, NothingToClose
  <2>3. WorkerOK' /\ RequestsOK' /\ BatchesAreHomogeneous'
    BY <2>1, <2>2 DEF WorkerOK, RequestsOK, BatchesAreHomogeneous, clientVars, schedulerVars
  <2>4. ClosedOK'
    <3>1. CASE worker = "done"
      BY <1>4, <2>1, <3>1 DEF SchedulerCloses, CloseBackend, HttpCloses, SmolVLACloses,
                              NothingToClose, ClosedOK, schedulerVars
    <3>2. CASE worker = "failed"
      BY <1>4, <2>1, <3>2 DEF SchedulerCloses, ClosedOK, schedulerVars
    <3> QED BY <1>4, <3>1, <3>2 DEF SchedulerCloses
  <2> QED BY <2>3, <2>4 DEF Rest
<1>5. CASE ClientCloses
  BY <1>5 DEF ClientCloses, Rest, WorkerOK, ClosedOK, RequestsOK, BatchesAreHomogeneous,
              TypeOK, clientVars, schedulerVars, backendVars
<1> QED BY <1>1, <1>2, <1>3, <1>4, <1>5

\* So does a step that changes nothing.
LEMMA StutterKept ==
  ASSUME IInv, UNCHANGED vars
  PROVE  IInv'
BY DEF IInv, TypeOK, WorkerOK, ClosedOK, RequestsOK, BatchesAreHomogeneous, vars, clientVars,
       schedulerVars, backendVars

\* The invariant that the theorems follow from
THEOREM Invariant == Spec => []IInv
<1>1. ASSUME IInv, Next PROVE IInv'
  <2>1. TypeOK'
    BY <1>1, TypeKept DEF IInv
  <2>2. Rest'
    BY <1>1, PostKept, ShedKept, RespondKept, DispatchKept, WorkerDiesKept, BatchEndKept, LifeKept
    DEF Next, WorkerStep, LifespanEnds
  <2> QED BY <2>1, <2>2 DEF IInv, Rest
<1> QED BY <1>1, InitIInv, StutterKept, PTL DEF Spec
-----------------------------------------------------------------------------
\* The backend outlives the worker, and only the worker's death keeps it open
\* (lifespan() of server.py).
THEOREM ClosesLast == Spec => []BackendClosedLast
<1>1. IInv => BackendClosedLast
  BY DEF IInv, WorkerOK, ClosedOK, BackendClosedLast
<1> QED BY <1>1, Invariant, PTL

\* No batch mixes what must not be mixed (batch_key() of the backends).
THEOREM Homogeneous == Spec => []BatchesAreHomogeneous
<1>1. IInv => BatchesAreHomogeneous
  BY DEF IInv
<1> QED BY <1>1, Invariant, PTL

-----------------------------------------------------------------------------
(* The estimate of the latency of a batch.                                  *)

\* The quantile of latencies is a number.
LEMMA P90Type ==
  ASSUME NEW s \in Seq(Nat), s # <<>>
  PROVE  P90(s) \in Nat
<1> DEFINE ordered == Ascending(s)
           position == (Len(ordered) - 1) * 90
           weight == position % 100
<1>1. ordered \in Seq(Nat) /\ Len(ordered) = Len(s)
  BY AscendingFacts
<1>2. Len(s) \in Nat \ {0}
  BY EmptySeq
<1> HIDE DEF ordered
<1>3. position \in Nat /\ weight \in 0 .. 99
  <2>1. \A m \in Nat : m * 90 \in Nat
    OBVIOUS
  <2>2. \A m \in Nat : m % 100 \in 0 .. 99
    OBVIOUS
  <2>3. Len(ordered) - 1 \in Nat
    BY <1>1, <1>2
  <2> QED BY <2>1, <2>2, <2>3
<1>4. /\ 1 + (position \div 100) \in 1 .. Len(ordered)
      /\ 1 + ((position + 99) \div 100) \in 1 .. Len(ordered)
  <2>1. \A m \in Nat : (m * 90) \div 100 \in 0 .. m /\ (m * 90 + 99) \div 100 \in 0 .. m
    OBVIOUS
  <2>2. Len(ordered) - 1 \in Nat
    BY <1>1, <1>2
  <2>3. /\ position \div 100 \in 0 .. Len(ordered) - 1
        /\ (position + 99) \div 100 \in 0 .. Len(ordered) - 1
    BY <2>1, <2>2
  <2> HIDE DEF position
  <2> QED BY <2>2, <2>3
<1>5. ordered[1 + (position \div 100)] \in Nat /\ ordered[1 + ((position + 99) \div 100)] \in Nat
  BY <1>1, <1>4, ElementOfSeq
<1>6. \A m, n \in Nat : \A w \in 0 .. 99 : m * (100 - w) + n * w \in Nat
  <2>1. \A n \in Nat : \A w \in 0 .. 100 : n * w \in Nat
    BY Multiplied
  <2>2. \A w \in 0 .. 99 : 100 - w \in 0 .. 100 /\ w \in 0 .. 100
    OBVIOUS
  <2>3. \A m, n \in Nat : m + n \in Nat
    OBVIOUS
  <2> QED BY <2>1, <2>2, <2>3
<1>7. P90(s) = ordered[1 + (position \div 100)] * (100 - weight)
                 + ordered[1 + ((position + 99) \div 100)] * weight
  BY DEF P90, Percentile, ordered
<1> DEFINE low == ordered[1 + (position \div 100)]
           high == ordered[1 + ((position + 99) \div 100)]
<1>8. low \in Nat /\ high \in Nat /\ P90(s) = low * (100 - weight) + high * weight
  BY <1>5, <1>7
<1> HIDE DEF low, high, weight
<1> QED BY <1>3, <1>6, <1>8

\* What one window says of a batch grows with the batch.
LEMMA ScaledGrows ==
  ASSUME NEW observed \in Nat, NEW size \in Nat \ {0}, NEW b \in Nat, NEW c \in Nat, b <= c
  PROVE  Scaled(observed, size, b) <= Scaled(observed, size, c) /\ Scaled(observed, size, b) \in Nat
<1>1. observed * b <= observed * c /\ observed * b \in Nat /\ observed * c \in Nat
  BY Multiplied
<1>2. (observed * b) \div size <= (observed * c) \div size /\ (observed * b) \div size \in Nat
  BY <1>1, Divided
<1>3. CASE b <= size /\ c > size
  <2>1. size * observed <= c * observed /\ size * observed \in Nat
    BY <1>3, Multiplied
  <2>2. size * observed = observed * size /\ c * observed = observed * c
    OBVIOUS
  <2>3. (observed * size) \div size <= (observed * c) \div size
    BY <1>1, <2>1, <2>2, Divided
  <2>4. (observed * size) \div size = observed
    OBVIOUS
  <2> QED BY <1>3, <2>3, <2>4 DEF Scaled
<1>4. CASE c <= size
  BY <1>4 DEF Scaled
<1>5. CASE b > size
  BY <1>2, <1>5 DEF Scaled
<1> QED BY <1>3, <1>4, <1>5

\* What is said of a batch, for a state of the windows
LEMMA CandidatesFacts ==
  ASSUME NEW l \in [Sizes -> Seq(Nat)], NEW b \in Sizes
  PROVE  /\ IsFiniteSet(Candidates(l, b)) /\ \A x \in Candidates(l, b) : x \in Nat
         /\ \A c \in Sizes : b <= c =>
              \A x \in Candidates(l, b) : \E y \in Candidates(l, c) : x <= y
<1> DEFINE Filled == {n \in Sizes : l[n] # <<>>}
           Says(n, c) == (Scaled(P90(l[n]), n, c) * SafetyPercent) \div 100
           said == [n \in Filled |-> Says(n, b)]
<1>1. /\ SafetyPercent \in Nat /\ Initial \subseteq Nat /\ \A x, y \in Initial : x = y
      /\ MaxBatchSize \in Nat
  BY EstimatorAssumption DEF EstimatorAssumption
<1>2. IsFiniteSet(Filled) /\ \A n \in Sizes : n \in Nat \ {0}
  BY <1>1, FS_Interval, FS_Subset DEF Sizes
<1>3. ASSUME NEW n \in Filled, NEW c \in Sizes, b <= c
      PROVE  Says(n, b) \in Nat /\ Says(n, b) <= Says(n, c)
  <2>1. P90(l[n]) \in Nat
    BY P90Type
  <2>2. /\ Scaled(P90(l[n]), n, b) <= Scaled(P90(l[n]), n, c)
        /\ Scaled(P90(l[n]), n, b) \in Nat /\ Scaled(P90(l[n]), n, c) \in Nat
    <3>1. n \in Nat \ {0} /\ b \in Nat /\ c \in Nat /\ c <= c
      BY <1>2
    <3> QED BY <1>3, <2>1, <3>1, ScaledGrows
  <2>3. /\ Scaled(P90(l[n]), n, b) * SafetyPercent <= Scaled(P90(l[n]), n, c) * SafetyPercent
        /\ Scaled(P90(l[n]), n, b) * SafetyPercent \in Nat
        /\ Scaled(P90(l[n]), n, c) * SafetyPercent \in Nat
    BY <1>1, <2>2, Multiplied
  <2> QED BY <2>3, Divided
<1>4. \A c : Candidates(l, c) = {Says(n, c) : n \in Filled} \cup Initial
  BY DEF Candidates
<1>5. IsFiniteSet({Says(n, b) : n \in Filled})
  <2>1. said \in Surjection(Filled, {Says(n, b) : n \in Filled})
    BY DEF Surjection
  <2> QED BY <1>2, <2>1, FS_Surjection
<1>6. IsFiniteSet(Initial)
  <2>1. CASE Initial = {}
    BY <2>1, FS_EmptySet
  <2>2. ASSUME NEW x \in Initial PROVE IsFiniteSet(Initial)
    <3>1. Initial = {x}
      BY <1>1
    <3> QED BY <3>1, FS_Singleton
  <2> QED BY <2>1, <2>2
<1>7. IsFiniteSet(Candidates(l, b))
  <2> HIDE DEF Says, Filled
  <2> QED BY <1>4, <1>5, <1>6, FS_Union
<1>8. b \in Nat
  BY <1>2
<1> HIDE DEF Says, Filled
<1>9. \A x \in Candidates(l, b) : x \in Nat
  <2>1. \A n \in Filled : Says(n, b) \in Nat
    BY <1>3, <1>8
  <2>2. {Says(n, b) : n \in Filled} \subseteq Nat
    BY <2>1
  <2> QED BY <1>1, <1>4, <2>2
<1>10. ASSUME NEW c \in Sizes, b <= c, NEW x \in Candidates(l, b)
       PROVE  \E y \in Candidates(l, c) : x <= y
  <2>1. CASE x \in Initial
    BY <1>1, <1>4, <2>1
  <2>2. ASSUME NEW n \in Filled, x = Says(n, b) PROVE \E y \in Candidates(l, c) : x <= y
    BY <1>3, <1>4, <1>10, <2>2
  <2> QED BY <1>4, <2>1, <2>2
<1> QED BY <1>7, <1>9, <1>10

\* A larger batch is never expected to be done sooner, whatever was measured
\* (estimate_batch_latency_ms() of both backends).
THEOREM EstimateGrows == Spec => []LargerNeverCheaper
<1>1. IInv => LargerNeverCheaper
  <2> SUFFICES ASSUME IInv, NEW n \in Sizes, NEW b \in Sizes, n <= b
               PROVE  Estimate(latencies, n) <= Estimate(latencies, b)
    BY DEF LargerNeverCheaper
  <2>1. latencies \in [Sizes -> Seq(Nat)]
    <3>1. latencies \in [Sizes -> Seq(Durations)] /\ Durations \subseteq Nat
      BY ServingAssumption DEF ServingAssumption, IInv, TypeOK
    <3>2. \A m \in Sizes : latencies[m] \in Seq(Nat)
      BY <3>1, SeqMonotonic
    <3> QED BY <3>1, <3>2
  <2> DEFINE C(m) == Candidates(latencies, m)
  <2>2. C(n) # {} => C(b) # {}
    <3>1. \A x \in C(n) : \E y \in C(b) : x <= y
      BY <2>1, CandidatesFacts
    <3> QED BY <3>1
  <2>3. CASE C(n) = {}
    <3>1. IsFiniteSet(C(b)) /\ \A x \in C(b) : x \in Nat
      BY <2>1, CandidatesFacts
    <3>2. Estimate(latencies, n) = -1 /\ Estimate(latencies, b) = IF C(b) = {} THEN -1 ELSE Max(C(b))
      BY <2>3 DEF Estimate, NoEstimate
    <3> HIDE DEF C
    <3>3. C(b) # {} => Max(C(b)) \in Nat
      BY <3>1, MaxFacts
    <3> QED BY <3>2, <3>3
  <2>4. CASE C(n) # {}
    <3>1. \A m \in {n, b} : IsFiniteSet(C(m)) /\ \A x \in C(m) : x \in Int
      BY <2>1, CandidatesFacts
    <3>2. \A x \in C(n) : \E y \in C(b) : x <= y
      BY <2>1, CandidatesFacts
    <3> HIDE DEF C
    <3>3. Max(C(n)) \in C(n) /\ \A y \in C(b) : Max(C(b)) >= y
      BY <2>2, <2>4, <3>1, MaxFacts
    <3>4. Max(C(b)) \in C(b)
      BY <2>2, <2>4, <3>1, MaxFacts
    <3>5. Max(C(n)) <= Max(C(b))
      <4>1. PICK y \in C(b) : Max(C(n)) <= y
        BY <3>2, <3>3
      <4>2. Max(C(n)) \in Int /\ Max(C(b)) \in Int /\ y \in Int
        BY <3>1, <3>3, <3>4
      <4> QED BY <3>3, <4>1, <4>2
    <3>6. Estimate(latencies, n) = Max(C(n)) /\ Estimate(latencies, b) = Max(C(b))
      BY <2>2, <2>4 DEF Estimate, C
    <3> QED BY <3>5, <3>6
  <2> QED BY <2>3, <2>4
<1> QED BY <1>1, Invariant, PTL

-----------------------------------------------------------------------------
(* The service as its clients see it.                                       *)

\* The abstract service starts with no call made.
LEMMA ServiceInit == Init => Service!Init
<1> SUFFICES ASSUME Init PROVE Service!Init
  OBVIOUS
<1>1. \A r \in Requests : Called(r) = "idle"
  BY DEF Init, Called, Waiting
<1> QED BY <1>1 DEF Init, Service!Init

\* A step that leaves a client's answer alone is none for that client.
LEMMA CalledKept ==
  ASSUME NEW r \in Requests, input'[r] = input[r], code'[r] = code[r], reply'[r] = reply[r]
  PROVE  Called(r)' = Called(r)
BY DEF Called, Waiting

\* What the clients do not see is no step of the service.
LEMMA QuietStep ==
  ASSUME UNCHANGED clientVars, (accepting \/ lifespan = "down")' = (accepting \/ lifespan = "down")
  PROVE  UNCHANGED Service!serviceVars
<1>1. \A r \in Requests : Called(r)' = Called(r)
  BY CalledKept DEF clientVars
<1> QED BY <1>1 DEF Service!serviceVars, clientVars

\* What each request is to its client, without CASE
LEMMA CalledIs ==
  ASSUME IInv, NEW r \in Requests
  PROVE  /\ input[r] = None => Called(r) = "idle"
         /\ Waiting(r) => Called(r) = "running"
         /\ code[r] = 500 => Called(r) = "refused"
         /\ code[r] = 200 /\ reply[r] # None => Called(r) = "returned"
         /\ code[r] \notin {0, 500} /\ reply[r] = None => Called(r) = "raised"
BY DEF IInv, TypeOK, RequestsOK, Called, Waiting

\* Posting a request is accepting a call.
LEMMA PostIs ==
  ASSUME IInv, IInv', NEW r \in Requests, NEW body \in Input, Post(r, body)
  PROVE  Service!Accept(r)
<1>1. /\ input[r] = None /\ input' = [input EXCEPT ![r] = body] /\ body # None
      /\ UNCHANGED <<lifespan, reply, accepting>> /\ lifespan # "down"
      /\ code' = IF accepting THEN code ELSE [code EXCEPT ![r] = 500]
  BY ServingAssumption DEF ServingAssumption, Post, Input
<1>2. code[r] = 0 /\ reply[r] = None
  BY <1>1 DEF IInv, RequestsOK, TypeOK
<1>3. Called(r) = "idle"
  BY <1>1, CalledIs
<1>4. Called(r)' = IF accepting THEN "running" ELSE "refused"
  <2>1. input'[r] # None /\ code'[r] = IF accepting THEN 0 ELSE 500
    BY <1>1, <1>2 DEF IInv, TypeOK
  <2> QED BY <2>1 DEF Called, Waiting
<1>5. \A q \in Requests \ {r} : Called(q)' = Called(q)
  BY <1>1, CalledKept DEF IInv, TypeOK
<1>6. reply' = [reply EXCEPT ![r] = None]
  BY <1>1, <1>2 DEF IInv, TypeOK
<1>7. [q \in Requests |-> Called(q)]' =
        [[q \in Requests |-> Called(q)] EXCEPT ![r] = IF accepting THEN "running" ELSE "refused"]
  BY <1>4, <1>5
<1> QED BY <1>1, <1>3, <1>6, <1>7 DEF Service!Accept, Service!Moves

\* Responding is ending it.
LEMMA RespondIs ==
  ASSUME IInv, NEW r \in Requests, Respond(r)
  PROVE  Service!End(r)
<1>1. /\ Waiting(r) /\ UNCHANGED <<lifespan, input, accepting>>
      /\ code' = [code EXCEPT ![r] = StatusOf(stage[r])]
      /\ reply' = [reply EXCEPT ![r] = IF StatusOf(stage[r]) = 200 THEN action[r] ELSE None]
  BY DEF Respond, schedulerVars
<1>2. StatusOf(stage[r]) \in {200, 429, 503} /\ action[r] \in {None, r} /\ input[r] # None
  BY <1>1 DEF StatusOf, IInv, RequestsOK, Waiting
<1>3. Called(r) = "running"
  BY <1>1, CalledIs
<1>4. /\ code'[r] = StatusOf(stage[r]) /\ input'[r] # None
      /\ reply'[r] = IF StatusOf(stage[r]) = 200 THEN action[r] ELSE None
  BY <1>1, <1>2 DEF IInv, TypeOK
<1>5. Called(r)' = IF reply'[r] # None THEN "returned" ELSE "raised"
  BY <1>2, <1>4 DEF Called, Waiting
<1>6. \A q \in Requests \ {r} : Called(q)' = Called(q)
  BY <1>1, CalledKept DEF IInv, TypeOK
<1>7. [q \in Requests |-> Called(q)]' =
        [[q \in Requests |-> Called(q)] EXCEPT ![r] = Called(r)']
  BY <1>6
<1>8. reply' = [reply EXCEPT ![r] = IF Called(r)' = "returned" THEN r ELSE None]
  <2>1. reply'[r] = IF Called(r)' = "returned" THEN r ELSE None
    BY <1>2, <1>4, <1>5
  <2>2. reply' = [reply EXCEPT ![r] = reply'[r]]
    BY <1>1, <1>4
  <2> QED BY <2>1, <2>2
<1>9. Called(r)' \in Service!Ended \ {"refused"}
  BY <1>5 DEF Service!Ended
<1> QED BY <1>1, <1>3, <1>7, <1>8, <1>9 DEF Service!End, Service!Moves

\* Shutting down is closing the service.
LEMMA ShutdownIs ==
  ASSUME IInv, Shutdown
  PROVE  Service!Close
<1>1. accepting /\ ~accepting' /\ lifespan' # "down" /\ UNCHANGED clientVars
  BY DEF Shutdown, IInv, WorkerOK
<1>2. \A r \in Requests : Called(r)' = Called(r)
  BY <1>1, CalledKept DEF clientVars
<1> QED BY <1>1, <1>2 DEF Service!Close, clientVars

\* Every step is one of the service, or none that the clients see.
LEMMA ServiceStep ==
  ASSUME IInv, IInv', [Next]_vars
  PROVE  [Service!Next]_(Service!serviceVars)
<1>1. ASSUME NEW r \in Requests, NEW body \in Input, Post(r, body) PROVE Service!Next
  BY <1>1, PostIs DEF Service!Next
<1>2. ASSUME NEW r \in Requests, Respond(r) PROVE Service!Next
  BY <1>2, RespondIs DEF Service!Next
<1>3. CASE Shutdown
  BY <1>3, ShutdownIs DEF Service!Next
<1>4. ASSUME \/ \E r \in Requests : Shed(r)
             \/ WorkerStep \/ Startup \/ LifespanEnds \/ UNCHANGED vars
      PROVE  UNCHANGED Service!serviceVars
  <2>1. UNCHANGED clientVars
    BY <1>4 DEF Shed, WorkerStep, Dispatch, WorkerDies, BackendReturns, BackendRaises, WorkerExits,
         Startup, LifespanEnds, SchedulerCloses, ClientCloses, vars
  <2>2. (accepting \/ lifespan = "down")' = (accepting \/ lifespan = "down")
    BY <1>4 DEF Shed, WorkerStep, Dispatch, WorkerDies, BackendReturns, BackendRaises, WorkerExits,
         Startup, LifespanEnds, SchedulerCloses, CloseBackend, HttpCloses, SmolVLACloses,
         NothingToClose, ClientCloses, vars, schedulerVars,
         IInv, WorkerOK
  <2> QED BY <2>1, <2>2, QuietStep
<1> QED BY <1>1, <1>2, <1>3, <1>4 DEF Next

\* With any backend behind it the service gives every client one answer of its
\* own, and refuses if and only if it was shutting down (actions() of server.py).
THEOREM ServesItsClients == Spec => KeepsService
<1> QED BY ServiceInit, ServiceStep, Invariant, PTL DEF Spec, KeepsService, Service!Spec
=============================================================================
