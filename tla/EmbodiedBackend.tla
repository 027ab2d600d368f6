--------------------------- MODULE EmbodiedBackend ---------------------------
(***************************************************************************)
(* EmbodiedCppVlaBackend of src/actserve/integrations/embodied_cpp.py: the *)
(* event loop hands every inference to one thread, which asks a C++ server *)
(* over a ZeroMQ REQ socket and replaces the socket after any failure.     *)
(*                                                                         *)
(* The loop, the thread, the server and the network take their steps in    *)
(* any order.  A call is infer_batch() with one request, and stands for    *)
(* that request and for its wire id (no two ids collide).                  *)
(***************************************************************************)
EXTENDS Integers, Sequences, SequencesExt

CONSTANTS
  Calls,         \* of infer_batch()
  Closers,       \* calls of aclose()
  None,
  Failed,        \* an exception
  Released,      \* what the thread reports when the transport is closed
  Alien,         \* the id of no request
  Durations,     \* the latencies that may be measured
  LatencyWindow  \* maxlen of the deque of latencies

ASSUME EmbodiedAssumption ==
  /\ LatencyWindow \in Nat \ {0}
  /\ Calls \cap Closers = {}
  /\ {None, Failed, Released, Alien} \cap (Calls \cup Closers) = {}
  /\ None \notin {Failed, Released, Alien} /\ Failed \notin {Released, Alien}
  /\ Released # Alien

Jobs == Calls \cup Closers

VARIABLES
  closed, executor, latencies,   \* _closed, _executor, _latencies_ms
  call,        \* where each infer_batch() is
  answer,      \* the request that the action it returned names
  closer,      \* where each aclose() is
  jobs,        \* the queue of the executor
  thread,      \* the job its only thread is at
  awaiting,    \* the thread is in recv()
  result,      \* what the thread reported of a job
  connected,   \* _transport is there; its socket is the last one opened
  opened,      \* how many sockets there have been
  sent,        \* the socket has sent, and has to receive before it sends again
  wire,        \* requests on their way to the server, or in its hands
  inbox        \* the reply that waits in the socket

loopVars   == <<closed, executor, latencies, call, answer, closer>>
threadVars == <<jobs, thread, awaiting, result>>
socketVars == <<connected, opened, sent, wire, inbox>>
vars == <<loopVars, threadVars, socketVars>>

\* good: parses, reports no error and has the shape of an action
Reply == [id : Calls \cup {Alien}, good : BOOLEAN]

Init ==
  /\ closed = FALSE /\ executor = "open" /\ latencies = <<>>
  /\ call = [c \in Calls |-> "idle"] /\ answer = [c \in Calls |-> None]
  /\ closer = [k \in Closers |-> "idle"]
  /\ jobs = <<>> /\ thread = None /\ awaiting = FALSE /\ result = [j \in Jobs |-> None]
  /\ connected = FALSE /\ opened = 0 /\ sent = FALSE /\ wire = {} /\ inbox = None

-----------------------------------------------------------------------------
(* The event loop.                                                          *)

\* Mutant: a closed backend still takes work.
InferAlways(c) ==
  /\ call[c] = "idle"
  /\ call' = [call EXCEPT ![c] = "running"] /\ jobs' = Append(jobs, c)
  /\ UNCHANGED <<closed, executor, latencies, answer, closer, thread, awaiting, result, socketVars>>

\* infer_batch() up to its await
Infer(c) ==
  /\ call[c] = "idle"
  /\ IF closed
       THEN call' = [call EXCEPT ![c] = "refused"] /\ UNCHANGED jobs
       ELSE call' = [call EXCEPT ![c] = "running"] /\ jobs' = Append(jobs, c)
  /\ UNCHANGED <<closed, executor, latencies, answer, closer, thread, awaiting, result, socketVars>>

\* the deque keeps the last latencies only
Windowed(samples) ==
  IF Len(samples) > LatencyWindow THEN Tail(samples) ELSE samples

\* ... and from there on; failed calls leave no latency.
Resume(c) ==
  /\ call[c] = "running" /\ result[c] # None
  /\ IF result[c] = Failed
       THEN call' = [call EXCEPT ![c] = "raised"] /\ UNCHANGED <<answer, latencies>>
       ELSE /\ call' = [call EXCEPT ![c] = "returned"]
            /\ answer' = [answer EXCEPT ![c] = result[c]]
            /\ \E d \in Durations : latencies' = Windowed(Append(latencies, d))
  /\ UNCHANGED <<closed, executor, closer, threadVars, socketVars>>

\* Future.cancel(): a job that has not started never will.
Withdraw(job) ==
  \/ \E i \in 1 .. Len(jobs) : jobs[i] = job /\ jobs' = RemoveAt(jobs, i)
  \/ (\A i \in 1 .. Len(jobs) : jobs[i] # job) /\ jobs' = jobs

\* Mutant: the job stays in the executor.
CancelCallOnly(c) ==
  /\ call[c] = "running"
  /\ call' = [call EXCEPT ![c] = "cancelled"]
  /\ UNCHANGED <<closed, executor, latencies, answer, closer, threadVars, socketVars>>

\* The caller is cancelled; a job that runs goes on, its result is dropped.
CancelCall(c) ==
  /\ call[c] = "running"
  /\ call' = [call EXCEPT ![c] = "cancelled"]
  /\ Withdraw(c)
  /\ UNCHANGED <<closed, executor, latencies, answer, closer, thread, awaiting, result, socketVars>>

\* aclose() up to its await
Aclose(k) ==
  /\ closer[k] = "idle"
  /\ IF closed
       THEN closer' = [closer EXCEPT ![k] = "skipped"] /\ UNCHANGED <<closed, jobs>>
       ELSE /\ closer' = [closer EXCEPT ![k] = "closing"]
            /\ closed' = TRUE /\ jobs' = Append(jobs, k)
  /\ UNCHANGED <<executor, latencies, call, answer, thread, awaiting, result, socketVars>>

\* ... and from there on
AcloseResumes(k) ==
  /\ closer[k] = "closing" /\ result[k] # None
  /\ closer' = [closer EXCEPT ![k] = "closed"] /\ executor' = "shut"
  /\ UNCHANGED <<closed, latencies, call, answer, threadVars, socketVars>>

CancelAclose(k) ==
  /\ closer[k] = "closing"
  /\ closer' = [closer EXCEPT ![k] = "cancelled"] /\ Withdraw(k)
  /\ UNCHANGED <<closed, executor, latencies, call, answer, thread, awaiting, result, socketVars>>

-----------------------------------------------------------------------------
(* The thread.                                                              *)

TakeJob ==
  /\ thread = None /\ jobs # <<>>
  /\ thread' = Head(jobs) /\ jobs' = Tail(jobs)
  /\ UNCHANGED <<loopVars, awaiting, result, socketVars>>

Reports(outcome) ==
  /\ result' = [result EXCEPT ![thread] = outcome]
  /\ thread' = None /\ awaiting' = FALSE
  /\ UNCHANGED <<loopVars, jobs>>

\* the socket of the transport, which the first request makes
Socket == IF connected THEN opened ELSE opened + 1

\* Mutant: the socket is kept.
KeepSocket == connected' = TRUE /\ opened' = Socket /\ UNCHANGED <<sent, inbox, wire>>

\* A new socket takes the place of one that failed; what was sent on the old
\* one may still be on its way.
Reconnect ==
  /\ connected' = TRUE /\ opened' = Socket + 1
  /\ sent' = FALSE /\ inbox' = None
  /\ UNCHANGED wire

\* request_builder or transport_factory raises.
BuildFails(c) == thread = c /\ ~awaiting /\ Reports(Failed) /\ UNCHANGED socketVars

Send(c) ==
  /\ thread = c /\ ~awaiting /\ ~sent
  /\ connected' = TRUE /\ opened' = Socket /\ sent' = TRUE
  /\ wire' = wire \cup {[socket |-> Socket, of |-> c]}
  /\ awaiting' = TRUE
  /\ UNCHANGED <<loopVars, jobs, thread, result, inbox>>

\* send() times out, or raises, as it must on a socket that has to receive.
SendFails(c) == thread = c /\ ~awaiting /\ Reconnect /\ Reports(Failed)

\* Mutant: the identity of the reply is not looked at.
ParsedBlindly(c, reply) == IF reply.good THEN reply.id ELSE Failed

\* the rest of _infer_one(): an action of this request, or an exception
Parsed(c, reply) == IF reply.id = c /\ reply.good THEN reply.id ELSE Failed

Receive(c) ==
  /\ thread = c /\ awaiting /\ inbox # None
  /\ Reports(Parsed(c, inbox))
  /\ sent' = FALSE /\ inbox' = None
  /\ UNCHANGED <<connected, opened, wire>>

\* Mutant: recv() waits for ever.
ReceiveNever(c) == FALSE /\ UNCHANGED vars

\* recv() times out, or raises.
ReceiveFails(c) == thread = c /\ awaiting /\ inbox = None /\ Reconnect /\ Reports(Failed)

\* _close_transport()
CloseTransport(k) ==
  /\ thread = k
  /\ connected' = FALSE /\ sent' = FALSE /\ inbox' = None
  /\ Reports(Released)
  /\ UNCHANGED <<opened, wire>>

-----------------------------------------------------------------------------
\* The server answers a request, or another one; the answer reaches the socket
\* that asked if it is still there.
ServerReplies ==
  \E m \in wire, reply \in Reply :
    /\ wire' = wire \ {m}
    /\ inbox' = IF connected /\ m.socket = opened THEN reply ELSE inbox
    /\ UNCHANGED <<loopVars, threadVars, connected, opened, sent>>

ThreadStep ==
  \/ TakeJob
  \/ \E c \in Calls :
       BuildFails(c) \/ Send(c) \/ SendFails(c) \/ Receive(c) \/ ReceiveFails(c)
  \/ \E k \in Closers : CloseTransport(k)

Next ==
  \/ \E c \in Calls : Infer(c) \/ Resume(c) \/ CancelCall(c)
  \/ \E k \in Closers : Aclose(k) \/ AcloseResumes(k) \/ CancelAclose(k)
  \/ ThreadStep
  \/ ServerReplies

Spec == Init /\ [][Next]_vars

\* The thread and the loop go on; the server need not.
Fairness ==
  /\ WF_vars(ThreadStep)
  /\ \A c \in Calls : WF_vars(Resume(c))
  /\ \A k \in Closers : WF_vars(AcloseResumes(k))

FairSpec == Spec /\ Fairness
=============================================================================
