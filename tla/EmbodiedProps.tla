---------------------------- MODULE EmbodiedProps ----------------------------
(***************************************************************************)
(* What EmbodiedCppVlaBackend must do, stated over the model in            *)
(* EmbodiedBackend.                                                        *)
(***************************************************************************)
EXTENDS EmbodiedBackend, FiniteSets

CallState == {"idle", "running", "refused", "returned", "raised", "cancelled"}
CloserState == {"idle", "closing", "closed", "skipped", "cancelled"}

\* Every variable has its type.
TypeOK ==
  /\ closed \in BOOLEAN /\ executor \in {"open", "shut"}
  /\ latencies \in Seq(Durations) /\ Len(latencies) <= LatencyWindow
  /\ call \in [Calls -> CallState] /\ answer \in [Calls -> Calls \cup {None}]
  /\ closer \in [Closers -> CloserState]
  /\ jobs \in Seq(Jobs) /\ thread \in Jobs \cup {None} /\ awaiting \in BOOLEAN
  /\ result \in [Jobs -> Calls \cup {Failed, Released, None}]
  /\ connected \in BOOLEAN /\ opened \in Nat /\ sent \in BOOLEAN
  /\ wire \subseteq [socket : Nat, of : Calls]
  /\ inbox \in Reply \cup {None}

-----------------------------------------------------------------------------
\* One failed request does not poison the backend: the socket can send
\* whenever the thread is not waiting for a reply (embodied_cpp.py:43-50).
NotPoisoned == sent => awaiting

\* When aclose() shuts the executor down, nothing runs or is queued, so the
\* event loop is not blocked by shutdown(wait=True), and the socket is closed
\* and never opened again (embodied_cpp.py:155-161).
Quiet == jobs = <<>> /\ thread = None /\ ~connected
CleanShutdown == (\E k \in Closers : result[k] # None) => Quiet

\* The thread starts nothing for a caller that gave up before its turn.
NoWorkForTheGone ==
  [][\A c \in Calls : thread' = c /\ thread # c => call[c] = "running"]_vars

\* Every call that is accepted ends, even if the server never answers, and so
\* does every aclose().
CallsEnd ==
  /\ \A c \in Calls : call[c] = "running" ~> call[c] # "running"
  /\ \A k \in Closers : closer[k] = "closing" ~> closer[k] # "closing"

\* A backend as the scheduler sees it
Service == INSTANCE InferenceService WITH open <- ~closed

\* Whatever the thread, the socket and the server do, a call ends once, with an
\* action of its own request or an exception (embodied_cpp.py:140-174).
KeepsService == Service!Spec

-----------------------------------------------------------------------------
(* The inductive invariant behind NoWorkForTheGone, CleanShutdown and       *)
(* KeepsService.                                                            *)

\* A job is queued once.  A queued call still waits for it; once a closer is
\* queued, nothing follows it.
JobsOK ==
  /\ \A i \in 1 .. Len(jobs) :
       /\ jobs[i] \in Calls =>
            call[jobs[i]] = "running" /\ result[jobs[i]] = None /\ thread # jobs[i]
       /\ jobs[i] \in Closers => closed /\ i = Len(jobs)
  /\ \A i, j \in 1 .. Len(jobs) : jobs[i] = jobs[j] => i = j

\* What the thread is at has no result yet, and the closer is the last job.
ThreadOK ==
  /\ thread \in Calls => call[thread] # "idle" /\ result[thread] = None
  /\ thread \in Closers => closed /\ jobs = <<>>
  /\ awaiting => thread \in Calls

\* A result is of the call itself, and so is the action it returns.
ResultsOK ==
  \A c \in Calls :
    /\ result[c] \in {None, Failed, c}
    /\ call[c] = "idle" => result[c] = None
    /\ answer[c] = IF call[c] = "returned" THEN c ELSE None

\* The thread has run a closer only if the backend is closed for good.
ClosedOK == \A k \in Closers : result[k] # None => closed /\ Quiet

IInv == TypeOK /\ NotPoisoned /\ JobsOK /\ ThreadOK /\ ResultsOK /\ ClosedOK
=============================================================================
