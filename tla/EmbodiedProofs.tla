---------------------------- MODULE EmbodiedProofs ----------------------------
(***************************************************************************)
(* The safety of the Embodied.cpp backend, proved for every number of      *)
(* calls and closers and any behaviour of the server.                      *)
(***************************************************************************)
EXTENDS EmbodiedProps, TLAPS, SequenceTheorems

\* Calls, closers and the other values are told apart.
LEMMA Distinct ==
  /\ Calls \cap Closers = {} /\ None \notin Jobs /\ Failed \notin Jobs /\ Released \notin Jobs
  /\ Alien \notin Jobs /\ None # Failed /\ None # Released /\ Failed # Released
BY EmbodiedAssumption DEF EmbodiedAssumption, Jobs

\* A queue without one of its jobs: the others, in their order.
LEMMA Removed ==
  ASSUME NEW S, NEW s \in Seq(S), NEW i \in 1 .. Len(s)
  PROVE  /\ RemoveAt(s, i) \in Seq(S) /\ Len(RemoveAt(s, i)) = Len(s) - 1
         /\ \A j \in 1 .. Len(s) - 1 :
              RemoveAt(s, i)[j] = IF j < i THEN s[j] ELSE s[j + 1]
<1> DEFINE front == SubSeq(s, 1, i - 1)
           back == SubSeq(s, i + 1, Len(s))
<1>1. Len(s) \in Nat /\ i \in Int /\ \A j \in 1 .. Len(s) : s[j] \in S
  BY ElementOfSeq
<1>2. /\ front \in Seq(S) /\ Len(front) = i - 1
      /\ \A j \in 1 .. i - 1 : front[j] = s[j]
  BY <1>1, SubSeqProperties
<1>3. /\ back \in Seq(S) /\ Len(back) = Len(s) - i
      /\ \A j \in 1 .. Len(s) - i : back[j] = s[i + j]
  BY <1>1, SubSeqProperties
<1> HIDE DEF front, back
<1>4. /\ front \o back \in Seq(S) /\ Len(front \o back) = Len(s) - 1
      /\ \A j \in 1 .. Len(s) - 1 :
           (front \o back)[j] = IF j <= i - 1 THEN front[j] ELSE back[j - (i - 1)]
  <2>1. Len(front) + Len(back) = Len(s) - 1
    BY <1>1, <1>2, <1>3
  <2>2. /\ front \o back \in Seq(S) /\ Len(front \o back) = Len(front) + Len(back)
        /\ \A j \in 1 .. Len(front) + Len(back) :
             (front \o back)[j] = IF j <= Len(front) THEN front[j] ELSE back[j - Len(front)]
    BY <1>2, <1>3, ConcatProperties, Zenon
  <2>3. Len(front) = i - 1
    BY <1>2
  <2> QED BY <2>1, <2>2, <2>3
<1>5. ASSUME NEW j \in 1 .. Len(s) - 1
      PROVE  (front \o back)[j] = IF j < i THEN s[j] ELSE s[j + 1]
  <2>1. CASE j < i
    BY <1>1, <1>2, <1>4, <2>1
  <2>2. CASE ~(j < i)
    <3>1. j - (i - 1) \in 1 .. Len(s) - i /\ i + (j - (i - 1)) = j + 1
      BY <1>1, <2>2
    <3> QED BY <1>1, <1>3, <1>4, <2>2, <3>1
  <2> QED BY <2>1, <2>2
<1> QED BY <1>4, <1>5 DEF RemoveAt, front, back

\* A job that is withdrawn leaves the queue, and nothing else does.
LEMMA Withdrawn ==
  ASSUME jobs \in Seq(Jobs), NEW job \in Jobs, Withdraw(job), JobsOK
  PROVE  /\ jobs' \in Seq(Jobs)
         /\ \A i \in 1 .. Len(jobs') : jobs'[i] # job
         /\ \A i \in 1 .. Len(jobs') : \E k \in 1 .. Len(jobs) :
              jobs'[i] = jobs[k] /\ (k = Len(jobs) => i = Len(jobs'))
         /\ \A i, j \in 1 .. Len(jobs') : jobs'[i] = jobs'[j] => i = j
         /\ jobs = <<>> => jobs' = <<>>
<1>1. Len(jobs) \in Nat
  OBVIOUS
<1>2. CASE \A i \in 1 .. Len(jobs) : jobs[i] # job
  <2>1. jobs' = jobs
    BY <1>2 DEF Withdraw
  <2> QED BY <1>1, <1>2, <2>1 DEF JobsOK
<1>3. CASE \E i \in 1 .. Len(jobs) : jobs[i] = job
  <2>1. PICK n \in 1 .. Len(jobs) : jobs[n] = job /\ jobs' = RemoveAt(jobs, n)
    BY <1>3 DEF Withdraw
  <2> DEFINE from(i) == IF i < n THEN i ELSE i + 1
  <2>2. /\ jobs' \in Seq(Jobs) /\ Len(jobs') = Len(jobs) - 1
        /\ \A i \in 1 .. Len(jobs') : jobs'[i] = jobs[from(i)]
    BY <2>1, Removed
  <2>3. \A i \in 1 .. Len(jobs') :
          from(i) \in 1 .. Len(jobs) /\ from(i) # n /\ (from(i) = Len(jobs) => i = Len(jobs'))
    BY <1>1, <2>1, <2>2
  <2>4. \A i, j \in 1 .. Len(jobs') : from(i) = from(j) => i = j
    BY <1>1, <2>1, <2>2
  <2> HIDE DEF from
  <2>5. \A i \in 1 .. Len(jobs') : jobs'[i] # job
    BY <2>1, <2>2, <2>3 DEF JobsOK
  <2>6. \A i, j \in 1 .. Len(jobs') : jobs'[i] = jobs'[j] => i = j
    BY <2>2, <2>3, <2>4 DEF JobsOK
  <2>7. jobs # <<>>
    BY <2>1
  <2> QED BY <2>2, <2>3, <2>5, <2>6, <2>7
<1> QED BY <1>2, <1>3

\* Taking the first job leaves the others, in their order.
LEMMA Taken ==
  ASSUME jobs \in Seq(Jobs), TakeJob
  PROVE  /\ 1 \in 1 .. Len(jobs) /\ thread' = jobs[1] /\ thread' \in Jobs
         /\ jobs' \in Seq(Jobs) /\ Len(jobs') = Len(jobs) - 1
         /\ \A i \in 1 .. Len(jobs') : i + 1 \in 1 .. Len(jobs) /\ jobs'[i] = jobs[i + 1]
<1>1. /\ jobs # <<>> /\ thread' = Head(jobs) /\ jobs' = Tail(jobs)
  BY DEF TakeJob
<1>2. Len(jobs) \in Nat \ {0}
  BY <1>1, EmptySeq
<1>3. Head(jobs) = jobs[1] /\ Head(jobs) \in Jobs
  BY <1>1, <1>2, ElementOfSeq
<1>4. /\ Tail(jobs) \in Seq(Jobs) /\ Len(Tail(jobs)) = Len(jobs) - 1
      /\ \A i \in 1 .. Len(Tail(jobs)) : Tail(jobs)[i] = jobs[i + 1]
  BY <1>1, <1>2, HeadTailProperties
<1> QED BY <1>1, <1>2, <1>3, <1>4

\* A job that joins the queue comes last.
LEMMA Joined ==
  ASSUME jobs \in Seq(Jobs), NEW job \in Jobs, jobs' = Append(jobs, job)
  PROVE  /\ jobs' \in Seq(Jobs) /\ Len(jobs') = Len(jobs) + 1
         /\ \A i \in 1 .. Len(jobs') :
              \/ i \in 1 .. Len(jobs) /\ jobs'[i] = jobs[i]
              \/ i = Len(jobs') /\ jobs'[i] = job
<1>1. Len(jobs) \in Nat
  OBVIOUS
<1> QED BY <1>1

-----------------------------------------------------------------------------
(* The inductive invariant.                                                 *)

\* The thread reports and is idle then; the other results stay.
LEMMA Reported ==
  ASSUME TypeOK, thread \in Jobs, NEW outcome \in Calls \cup {Failed, Released}, Reports(outcome)
  PROVE  /\ thread' = None /\ awaiting' = FALSE /\ jobs' = jobs
         /\ UNCHANGED loopVars
         /\ result' \in [Jobs -> Calls \cup {Failed, Released, None}]
         /\ result' = [result EXCEPT ![thread] = outcome]
         /\ result'[thread] = outcome
         /\ \A j \in Jobs : j # thread => result'[j] = result[j]
BY DEF Reports, TypeOK

\* What the thread reports of a call, and what becomes of the socket then.
LEMMA CallReported ==
  ASSUME TypeOK, NEW c \in Calls,
         BuildFails(c) \/ SendFails(c) \/ Receive(c) \/ ReceiveFails(c)
  PROVE  /\ thread = c /\ \E outcome \in {c, Failed} : Reports(outcome)
         /\ (sent' = sent /\ awaiting = FALSE) \/ sent' = FALSE
         /\ connected' \in BOOLEAN /\ opened' \in Nat /\ inbox' \in Reply \cup {None}
         /\ sent' \in BOOLEAN /\ wire' = wire
<1>1. Socket \in Nat
  BY DEF TypeOK, Socket
<1>2. CASE BuildFails(c)
  BY <1>2 DEF BuildFails, TypeOK, socketVars
<1>3. CASE SendFails(c)
  <2>1. thread = c /\ Reports(Failed) /\ Reconnect
    BY <1>3 DEF SendFails
  <2>2. opened' \in Nat /\ connected' \in BOOLEAN /\ sent' = FALSE /\ inbox' = None /\ wire' = wire
    BY <1>1, <2>1 DEF Reconnect
  <2> QED BY <2>1, <2>2
<1>4. CASE Receive(c)
  <2>1. Parsed(c, inbox) \in {c, Failed}
    BY DEF Parsed
  <2> QED BY <1>4, <2>1 DEF Receive, TypeOK
<1>5. CASE ReceiveFails(c)
  <2>1. thread = c /\ Reports(Failed) /\ Reconnect
    BY <1>5 DEF ReceiveFails
  <2>2. opened' \in Nat /\ connected' \in BOOLEAN /\ sent' = FALSE /\ inbox' = None /\ wire' = wire
    BY <1>1, <2>1 DEF Reconnect
  <2> QED BY <2>1, <2>2
<1> QED BY <1>2, <1>3, <1>4, <1>5

\* Every step keeps the types.
LEMMA TypeStep == TypeOK /\ JobsOK /\ ResultsOK /\ [Next]_vars => TypeOK'
<1> SUFFICES ASSUME TypeOK, JobsOK, ResultsOK, [Next]_vars PROVE TypeOK'
  OBVIOUS
<1> USE DEF loopVars, threadVars, socketVars, vars
<1>1. ASSUME NEW c \in Calls, Infer(c) PROVE TypeOK'
  <2>1. call' \in [Calls -> CallState]
    BY <1>1 DEF Infer, TypeOK, CallState
  <2>2. jobs' \in Seq(Jobs)
    <3>1. jobs' = jobs \/ jobs' = Append(jobs, c)
      BY <1>1 DEF Infer
    <3>2. c \in Jobs /\ jobs \in Seq(Jobs)
      BY DEF Jobs, TypeOK
    <3> QED BY <3>1, <3>2, Joined
  <2> QED BY <1>1, <2>1, <2>2 DEF Infer, TypeOK
<1>2. ASSUME NEW c \in Calls, Resume(c) PROVE TypeOK'
  <2>1. call' \in [Calls -> CallState]
    BY <1>2 DEF Resume, TypeOK, CallState
  <2>2. result[c] \in Calls \cup {Failed, Released, None}
    BY DEF TypeOK, Jobs
  <2>3. latencies' \in Seq(Durations) /\ Len(latencies') <= LatencyWindow
    <3>1. latencies \in Seq(Durations) /\ Len(latencies) <= LatencyWindow
      BY DEF TypeOK
    <3>2. CASE latencies' = latencies
      BY <3>1, <3>2
    <3>3. ASSUME NEW d \in Durations, latencies' = Windowed(Append(latencies, d))
          PROVE  latencies' \in Seq(Durations) /\ Len(latencies') <= LatencyWindow
      BY <3>1, <3>3, EmbodiedAssumption DEF Windowed, EmbodiedAssumption
    <3> QED BY <1>2, <3>2, <3>3 DEF Resume
  <2>4. answer' \in [Calls -> Calls \cup {None}]
    <3>1. result[c] \in {None, Failed, c}
      BY DEF ResultsOK
    <3>2. answer' = answer \/ answer' = [answer EXCEPT ![c] = c]
      BY <1>2, <3>1 DEF Resume
    <3> QED BY <3>2 DEF TypeOK
  <2> QED BY <1>2, <2>1, <2>3, <2>4 DEF Resume, TypeOK
<1>3. ASSUME NEW c \in Calls, CancelCall(c) PROVE TypeOK'
  <2>1. call' \in [Calls -> CallState]
    BY <1>3 DEF CancelCall, TypeOK, CallState
  <2>2. jobs' \in Seq(Jobs)
    BY <1>3, Withdrawn DEF CancelCall, TypeOK, Jobs
  <2> QED BY <1>3, <2>1, <2>2 DEF CancelCall, TypeOK
<1>4. ASSUME NEW k \in Closers, Aclose(k) PROVE TypeOK'
  <2>1. closer' \in [Closers -> CloserState] /\ closed' \in BOOLEAN
    BY <1>4 DEF Aclose, TypeOK, CloserState
  <2>2. jobs' \in Seq(Jobs)
    <3>1. jobs' = jobs \/ jobs' = Append(jobs, k)
      BY <1>4 DEF Aclose
    <3>2. k \in Jobs /\ jobs \in Seq(Jobs)
      BY DEF Jobs, TypeOK
    <3> QED BY <3>1, <3>2, Joined
  <2> QED BY <1>4, <2>1, <2>2 DEF Aclose, TypeOK
<1>5. ASSUME NEW k \in Closers, AcloseResumes(k) PROVE TypeOK'
  BY <1>5 DEF AcloseResumes, TypeOK, CloserState
<1>6. ASSUME NEW k \in Closers, CancelAclose(k) PROVE TypeOK'
  <2>1. closer' \in [Closers -> CloserState]
    BY <1>6 DEF CancelAclose, TypeOK, CloserState
  <2>2. jobs' \in Seq(Jobs)
    BY <1>6, Withdrawn DEF CancelAclose, TypeOK, Jobs
  <2> QED BY <1>6, <2>1, <2>2 DEF CancelAclose, TypeOK
<1>7. ASSUME TakeJob PROVE TypeOK'
  BY <1>7, Taken DEF TakeJob, TypeOK
<1>8. ASSUME NEW c \in Calls,
             BuildFails(c) \/ SendFails(c) \/ Receive(c) \/ ReceiveFails(c)
      PROVE  TypeOK'
  <2>1. PICK outcome \in {c, Failed} : Reports(outcome)
    BY <1>8, CallReported
  <2>2. thread \in Jobs
    BY <1>8, CallReported DEF Jobs
  <2> QED BY <1>8, <2>1, <2>2, CallReported, Reported DEF TypeOK
<1>9. ASSUME NEW c \in Calls, Send(c) PROVE TypeOK'
  <2>1. Socket \in Nat
    BY DEF TypeOK, Socket
  <2>2. wire' \subseteq [socket : Nat, of : Calls]
    BY <1>9, <2>1 DEF Send, TypeOK
  <2> QED BY <1>9, <2>1, <2>2 DEF Send, TypeOK
<1>10. ASSUME NEW k \in Closers, CloseTransport(k) PROVE TypeOK'
  <2>1. thread \in Jobs /\ Reports(Released)
    BY <1>10 DEF CloseTransport, Jobs
  <2> QED BY <1>10, <2>1, Reported DEF CloseTransport, TypeOK
<1>11. ASSUME ServerReplies PROVE TypeOK'
  BY <1>11 DEF ServerReplies, TypeOK
<1>12. CASE UNCHANGED vars
  BY <1>12 DEF TypeOK
<1> QED BY <1>1, <1>2, <1>3, <1>4, <1>5, <1>6, <1>7, <1>8, <1>9, <1>10, <1>11, <1>12
        DEF Next, ThreadStep

\* Every step keeps each job queued once, for a call that waits for it.
LEMMA JobsStep == TypeOK /\ JobsOK /\ ThreadOK /\ ResultsOK /\ [Next]_vars => JobsOK'
<1> SUFFICES ASSUME TypeOK, JobsOK, ThreadOK, ResultsOK, [Next]_vars PROVE JobsOK'
  OBVIOUS
<1> USE DEF loopVars, threadVars, socketVars, vars
<1>0. jobs \in Seq(Jobs) /\ Len(jobs) \in Nat /\ \A i \in 1 .. Len(jobs) : jobs[i] \in Jobs
  BY ElementOfSeq DEF TypeOK
<1>1. ASSUME NEW c \in Calls, Infer(c) PROVE JobsOK'
  <2>1. /\ call[c] = "idle" /\ result[c] = None /\ thread # c /\ c \in Jobs /\ c \notin Closers
        /\ \A i \in 1 .. Len(jobs) : jobs[i] # c
    BY <1>1, Distinct DEF Infer, ResultsOK, ThreadOK, JobsOK, Jobs
  <2>2. \A d \in Calls : d # c => call'[d] = call[d]
    BY <1>1 DEF Infer, TypeOK
  <2>3. CASE closed
    <3>1. UNCHANGED <<jobs, result, thread, closed>>
      BY <1>1, <2>3 DEF Infer
    <3> QED BY <2>1, <2>2, <3>1 DEF JobsOK
  <2>4. CASE ~closed
    <3>1. jobs' = Append(jobs, c) /\ call'[c] = "running" /\ UNCHANGED <<result, thread, closed>>
      BY <1>1, <2>4 DEF Infer, TypeOK
    <3>2. \A i \in 1 .. Len(jobs) : jobs[i] \notin Closers
      BY <2>4 DEF JobsOK
    <3>3. /\ Len(jobs') = Len(jobs) + 1
          /\ \A i \in 1 .. Len(jobs') :
               \/ i \in 1 .. Len(jobs) /\ jobs'[i] = jobs[i]
               \/ i = Len(jobs') /\ jobs'[i] = c
      BY <1>0, <2>1, <3>1, Joined
    <3> QED BY <1>0, <2>1, <2>2, <3>1, <3>2, <3>3 DEF JobsOK
  <2> QED BY <2>3, <2>4
<1>2. ASSUME NEW c \in Calls, Resume(c) PROVE JobsOK'
  <2>1. \A i \in 1 .. Len(jobs) : jobs[i] # c
    BY <1>2 DEF Resume, JobsOK
  <2>2. \A d \in Calls : d # c => call'[d] = call[d]
    BY <1>2 DEF Resume, TypeOK
  <2>3. UNCHANGED <<jobs, result, thread, closed>>
    BY <1>2 DEF Resume
  <2> QED BY <2>1, <2>2, <2>3 DEF JobsOK
<1>3. ASSUME NEW job \in Jobs, Withdraw(job), UNCHANGED <<result, thread, closed>>,
             \A d \in Calls : d # job => call'[d] = call[d]
      PROVE  JobsOK'
  BY <1>0, <1>3, Withdrawn DEF JobsOK
<1>4. ASSUME NEW c \in Calls, CancelCall(c) PROVE JobsOK'
  <2>1. c \in Jobs /\ Withdraw(c) /\ UNCHANGED <<result, thread, closed>>
    BY <1>4 DEF CancelCall, Jobs
  <2>2. \A d \in Calls : d # c => call'[d] = call[d]
    BY <1>4 DEF CancelCall, TypeOK
  <2> QED BY <1>3, <2>1, <2>2
<1>5. ASSUME NEW k \in Closers, Aclose(k) PROVE JobsOK'
  <2>1. CASE closed
    BY <1>5, <2>1 DEF Aclose, JobsOK
  <2>2. CASE ~closed
    <3>1. /\ jobs' = Append(jobs, k) /\ closed' /\ UNCHANGED <<call, result, thread>>
          /\ k \in Jobs /\ k \notin Calls
      BY <1>5, <2>2, Distinct DEF Aclose, Jobs
    <3>2. \A i \in 1 .. Len(jobs) : jobs[i] \notin Closers
      BY <2>2 DEF JobsOK
    <3>3. /\ Len(jobs') = Len(jobs) + 1
          /\ \A i \in 1 .. Len(jobs') :
               \/ i \in 1 .. Len(jobs) /\ jobs'[i] = jobs[i]
               \/ i = Len(jobs') /\ jobs'[i] = k
      BY <1>0, <3>1, Joined
    <3> QED BY <1>0, <3>1, <3>2, <3>3 DEF JobsOK
  <2> QED BY <2>1, <2>2
<1>6. ASSUME NEW k \in Closers, AcloseResumes(k) PROVE JobsOK'
  BY <1>6 DEF AcloseResumes, JobsOK
<1>7. ASSUME NEW k \in Closers, CancelAclose(k) PROVE JobsOK'
  <2>1. k \in Jobs /\ Withdraw(k) /\ UNCHANGED <<result, thread, closed, call>>
    BY <1>7 DEF CancelAclose, Jobs
  <2> QED BY <1>3, <2>1
<1>8. ASSUME TakeJob PROVE JobsOK'
  <2>1. UNCHANGED <<call, result, closed>>
    BY <1>8 DEF TakeJob
  <2>2. /\ 1 \in 1 .. Len(jobs) /\ thread' = jobs[1] /\ Len(jobs') = Len(jobs) - 1
        /\ \A i \in 1 .. Len(jobs') : i + 1 \in 1 .. Len(jobs) /\ jobs'[i] = jobs[i + 1]
    BY <1>0, <1>8, Taken
  <2>3. \A i \in 1 .. Len(jobs') : jobs'[i] # thread'
    BY <1>0, <2>2 DEF JobsOK
  <2>4. \A i \in 1 .. Len(jobs') : i = Len(jobs') <=> i + 1 = Len(jobs)
    BY <1>0, <2>2
  <2> QED BY <1>0, <2>1, <2>2, <2>3, <2>4 DEF JobsOK
<1>9. ASSUME thread \in Jobs, NEW outcome \in Calls \cup {Failed, Released}, Reports(outcome)
      PROVE  JobsOK'
  <2>1. /\ thread' = None /\ jobs' = jobs /\ UNCHANGED <<call, closed>>
        /\ \A j \in Jobs : j # thread => result'[j] = result[j]
    BY <1>9, Reported
  <2>2. \A i \in 1 .. Len(jobs) : jobs[i] \in Calls => jobs[i] # thread
    BY DEF JobsOK
  <2>3. None \notin Jobs
    BY Distinct
  <2> QED BY <1>0, <2>1, <2>2, <2>3 DEF JobsOK, Jobs
<1>10. ASSUME NEW c \in Calls,
              BuildFails(c) \/ SendFails(c) \/ Receive(c) \/ ReceiveFails(c)
       PROVE  JobsOK'
  BY <1>9, <1>10, CallReported DEF Jobs
<1>11. ASSUME NEW k \in Closers, CloseTransport(k) PROVE JobsOK'
  BY <1>9, <1>11 DEF CloseTransport, Jobs
<1>12. ASSUME UNCHANGED <<jobs, call, result, thread, closed>> PROVE JobsOK'
  BY <1>12 DEF JobsOK
<1> QED BY <1>1, <1>2, <1>4, <1>5, <1>6, <1>7, <1>8, <1>10, <1>11, <1>12
        DEF Next, ThreadStep, Send, ServerReplies

\* What the thread is at has no result before it ends, and a closer comes last.
LEMMA ThreadKept == TypeOK /\ JobsOK /\ ThreadOK /\ ResultsOK /\ [Next]_vars => ThreadOK'
<1> SUFFICES ASSUME TypeOK, JobsOK, ThreadOK, ResultsOK, [Next]_vars PROVE ThreadOK'
  OBVIOUS
<1> USE DEF loopVars, threadVars, socketVars, vars
<1>0. /\ jobs \in Seq(Jobs) /\ Len(jobs) \in Nat /\ Len(<<>>) = 0
      /\ jobs = <<>> <=> Len(jobs) = 0
  BY EmptySeq DEF TypeOK
<1>1. ASSUME NEW c \in Calls, Infer(c) PROVE ThreadOK'
  <2>1. thread \in Calls => call'[thread] # "idle"
    BY <1>1 DEF Infer, ThreadOK, TypeOK
  <2>2. closed => jobs' = jobs
    BY <1>1 DEF Infer
  <2> QED BY <1>1, <2>1, <2>2 DEF Infer, ThreadOK
<1>2. ASSUME NEW c \in Calls, Resume(c) PROVE ThreadOK'
  <2>1. thread \in Calls => call'[thread] # "idle"
    BY <1>2 DEF Resume, ThreadOK, TypeOK
  <2> QED BY <1>2, <2>1 DEF Resume, ThreadOK
<1>3. ASSUME NEW c \in Calls, CancelCall(c) PROVE ThreadOK'
  <2>1. thread \in Calls => call'[thread] # "idle"
    BY <1>3 DEF CancelCall, ThreadOK, TypeOK
  <2>2. jobs = <<>> => jobs' = <<>>
    BY <1>0, <1>3, Withdrawn DEF CancelCall, Jobs
  <2> QED BY <1>3, <2>1, <2>2 DEF CancelCall, ThreadOK
<1>4. ASSUME NEW k \in Closers, Aclose(k) PROVE ThreadOK'
  BY <1>4 DEF Aclose, ThreadOK
<1>5. ASSUME NEW k \in Closers, AcloseResumes(k) PROVE ThreadOK'
  BY <1>5 DEF AcloseResumes, ThreadOK
<1>6. ASSUME NEW k \in Closers, CancelAclose(k) PROVE ThreadOK'
  <2>1. jobs = <<>> => jobs' = <<>>
    BY <1>0, <1>6, Withdrawn DEF CancelAclose, Jobs
  <2> QED BY <1>6, <2>1 DEF CancelAclose, ThreadOK
<1>7. ASSUME TakeJob PROVE ThreadOK'
  <2>1. /\ 1 \in 1 .. Len(jobs) /\ thread' = jobs[1] /\ Len(jobs') = Len(jobs) - 1
        /\ jobs' \in Seq(Jobs)
    BY <1>0, <1>7, Taken
  <2>2. UNCHANGED <<call, result, closed, awaiting>> /\ thread = None
    BY <1>7 DEF TakeJob
  <2>3. ~awaiting
    BY <2>2, Distinct DEF ThreadOK, Jobs
  <2>4. ASSUME thread' \in Calls PROVE call'[thread'] # "idle" /\ result'[thread'] = None
    BY <2>1, <2>2, <2>4 DEF JobsOK
  <2>5. ASSUME thread' \in Closers PROVE closed' /\ jobs' = <<>>
    <3>1. closed /\ Len(jobs) = 1
      BY <2>1, <2>5 DEF JobsOK
    <3>2. Len(jobs') = 0
      BY <2>1, <3>1
    <3> QED BY <2>1, <2>2, <3>1, <3>2, EmptySeq
  <2> QED BY <2>2, <2>3, <2>4, <2>5 DEF ThreadOK
<1>8. ASSUME NEW outcome, Reports(outcome) PROVE ThreadOK'
  BY <1>8, Distinct DEF Reports, ThreadOK, Jobs
<1>9. ASSUME NEW c \in Calls,
             BuildFails(c) \/ SendFails(c) \/ Receive(c) \/ ReceiveFails(c)
      PROVE  ThreadOK'
  BY <1>8, <1>9, CallReported
<1>10. ASSUME NEW k \in Closers, CloseTransport(k) PROVE ThreadOK'
  BY <1>8, <1>10 DEF CloseTransport
<1>11. ASSUME NEW c \in Calls, Send(c) PROVE ThreadOK'
  BY <1>11 DEF Send, ThreadOK
<1>12. ASSUME UNCHANGED <<jobs, call, result, thread, closed, awaiting>> PROVE ThreadOK'
  BY <1>12 DEF ThreadOK
<1> QED BY <1>1, <1>2, <1>3, <1>4, <1>5, <1>6, <1>7, <1>9, <1>10, <1>11, <1>12
        DEF Next, ThreadStep, ServerReplies

\* A result is of the call itself, whatever the server answers.
LEMMA ResultsKept == TypeOK /\ ThreadOK /\ ResultsOK /\ [Next]_vars => ResultsOK'
<1> SUFFICES ASSUME TypeOK, ThreadOK, ResultsOK, [Next]_vars, NEW d \in Calls
             PROVE  /\ result'[d] \in {None, Failed, d}
                    /\ call'[d] = "idle" => result'[d] = None
                    /\ answer'[d] = IF call'[d] = "returned" THEN d ELSE None
  BY DEF ResultsOK
<1> DEFINE Good == /\ result'[d] \in {None, Failed, d}
                   /\ call'[d] = "idle" => result'[d] = None
                   /\ answer'[d] = IF call'[d] = "returned" THEN d ELSE None
<1> USE DEF loopVars, threadVars, socketVars, vars
<1>0. /\ result[d] \in {None, Failed, d}
      /\ call[d] = "idle" => result[d] = None
      /\ answer[d] = IF call[d] = "returned" THEN d ELSE None
  BY DEF ResultsOK
<1>1. ASSUME NEW c \in Calls, Infer(c) PROVE Good
  BY <1>0, <1>1 DEF Infer, TypeOK
<1>2. ASSUME NEW c \in Calls, Resume(c) PROVE Good
  <2>1. CASE c = d
    BY <1>0, <1>2, <2>1 DEF Resume, TypeOK
  <2>2. CASE c # d
    BY <1>0, <1>2, <2>2 DEF Resume, TypeOK
  <2> QED BY <2>1, <2>2
<1>3. ASSUME NEW c \in Calls, CancelCall(c) PROVE Good
  BY <1>0, <1>3 DEF CancelCall, TypeOK
<1>4. ASSUME NEW c \in Calls, thread = c, NEW outcome \in {c, Failed}, Reports(outcome) PROVE Good
  <2>1. /\ c \in Jobs /\ d \in Jobs /\ result'[c] = outcome /\ UNCHANGED loopVars
        /\ \A j \in Jobs : j # c => result'[j] = result[j]
    BY <1>4, Reported DEF Jobs
  <2>2. c = d => call[d] # "idle"
    BY <1>4 DEF ThreadOK
  <2> QED BY <1>0, <2>1, <2>2
<1>5. ASSUME NEW c \in Calls,
             BuildFails(c) \/ SendFails(c) \/ Receive(c) \/ ReceiveFails(c)
      PROVE  Good
  BY <1>4, <1>5, CallReported
<1>6. ASSUME NEW k \in Closers, CloseTransport(k) PROVE Good
  <2>1. thread = k /\ k \in Jobs /\ Reports(Released)
    BY <1>6 DEF CloseTransport, Jobs
  <2>2. d # k /\ d \in Jobs
    BY Distinct DEF Jobs
  <2>3. result'[d] = result[d] /\ UNCHANGED loopVars
    BY <2>1, <2>2, Reported
  <2> QED BY <1>0, <2>3
<1>7. ASSUME UNCHANGED <<call, result, answer>> PROVE Good
  BY <1>0, <1>7
<1> QED BY <1>1, <1>2, <1>3, <1>5, <1>6, <1>7
        DEF Next, ThreadStep, ServerReplies, Aclose, AcloseResumes, CancelAclose, TakeJob, Send

\* Once a closer has run, the thread has nothing to do for ever.
LEMMA ClosedKept == TypeOK /\ JobsOK /\ ThreadOK /\ ClosedOK /\ [Next]_vars => ClosedOK'
<1> SUFFICES ASSUME TypeOK, JobsOK, ThreadOK, ClosedOK, [Next]_vars,
                    NEW k \in Closers, result'[k] # None
             PROVE  (closed /\ Quiet)'
  BY DEF ClosedOK
<1> USE DEF loopVars, threadVars, socketVars, vars
<1>0. k \in Jobs /\ k \notin Calls /\ jobs \in Seq(Jobs) /\ Len(<<>>) = 0
  BY Distinct DEF Jobs, TypeOK
<1>1. result[k] # None => closed /\ jobs = <<>> /\ thread = None /\ ~connected
  BY DEF ClosedOK, Quiet
<1>2. ASSUME NEW c \in Calls, Infer(c) PROVE (closed /\ Quiet)'
  BY <1>1, <1>2 DEF Infer, Quiet
<1>3. ASSUME NEW c \in Calls, Resume(c) PROVE (closed /\ Quiet)'
  BY <1>1, <1>3 DEF Resume, Quiet
<1>4. ASSUME NEW c \in Calls, CancelCall(c) PROVE (closed /\ Quiet)'
  BY <1>0, <1>1, <1>4, Withdrawn DEF CancelCall, Quiet, Jobs
<1>5. ASSUME NEW l \in Closers, Aclose(l) PROVE (closed /\ Quiet)'
  BY <1>1, <1>5 DEF Aclose, Quiet
<1>6. ASSUME NEW l \in Closers, AcloseResumes(l) PROVE (closed /\ Quiet)'
  BY <1>1, <1>6 DEF AcloseResumes, Quiet
<1>7. ASSUME NEW l \in Closers, CancelAclose(l) PROVE (closed /\ Quiet)'
  BY <1>0, <1>1, <1>7, Withdrawn DEF CancelAclose, Quiet, Jobs
<1>8. ASSUME TakeJob PROVE (closed /\ Quiet)'
  BY <1>1, <1>8 DEF TakeJob
<1>9. ASSUME NEW c \in Calls, thread = c, NEW outcome \in {c, Failed}, Reports(outcome) PROVE FALSE
  <2>1. thread \in Jobs /\ k # thread /\ thread # None
    BY <1>0, <1>9, Distinct DEF Jobs
  <2>2. result'[k] = result[k]
    BY <1>0, <1>9, <2>1, Reported
  <2> QED BY <1>1, <2>1, <2>2
<1>10. ASSUME NEW c \in Calls,
             BuildFails(c) \/ SendFails(c) \/ Receive(c) \/ ReceiveFails(c)
      PROVE  (closed /\ Quiet)'
  BY <1>9, <1>10, CallReported
<1>11. ASSUME NEW c \in Calls, Send(c) PROVE (closed /\ Quiet)'
  BY <1>1, <1>11, Distinct DEF Send, Jobs
<1>12. ASSUME NEW l \in Closers, CloseTransport(l) PROVE (closed /\ Quiet)'
  BY <1>12 DEF CloseTransport, Reports, ThreadOK, Quiet
<1>13. ASSUME ServerReplies PROVE (closed /\ Quiet)'
  BY <1>1, <1>13 DEF ServerReplies, Quiet
<1>14. CASE UNCHANGED vars
  BY <1>1, <1>14 DEF Quiet
<1> QED BY <1>2, <1>3, <1>4, <1>5, <1>6, <1>7, <1>8, <1>10, <1>11, <1>12, <1>13, <1>14
        DEF Next, ThreadStep

\* The socket is never left in between a request and its reply.
LEMMA NotPoisonedKept == TypeOK /\ ThreadOK /\ NotPoisoned /\ [Next]_vars => NotPoisoned'
<1> SUFFICES ASSUME TypeOK, ThreadOK, NotPoisoned, [Next]_vars PROVE NotPoisoned'
  OBVIOUS
<1> USE DEF loopVars, threadVars, socketVars, vars
<1>1. ASSUME NEW c \in Calls,
             BuildFails(c) \/ SendFails(c) \/ Receive(c) \/ ReceiveFails(c)
      PROVE  NotPoisoned'
  BY <1>1, CallReported DEF NotPoisoned
<1>2. ASSUME NEW c \in Calls, Send(c) PROVE NotPoisoned'
  BY <1>2 DEF Send, NotPoisoned
<1>3. ASSUME NEW k \in Closers, CloseTransport(k) PROVE NotPoisoned'
  BY <1>3 DEF CloseTransport, NotPoisoned
<1>4. ASSUME UNCHANGED <<sent, awaiting>> PROVE NotPoisoned'
  BY <1>4 DEF NotPoisoned
<1> QED BY <1>1, <1>2, <1>3, <1>4
        DEF Next, ThreadStep, ServerReplies, Infer, Resume, CancelCall, Aclose, AcloseResumes,
            CancelAclose, TakeJob

\* Init establishes the inductive invariant.
LEMMA InitIInv == Init => IInv
<1> SUFFICES ASSUME Init PROVE IInv
  OBVIOUS
<1>1. jobs = <<>> /\ Len(jobs) = 0 /\ thread = None /\ thread \notin Jobs
  BY Distinct DEF Init
<1>2. LatencyWindow \in Nat
  BY EmbodiedAssumption DEF EmbodiedAssumption
<1>3. TypeOK
  <2>1. /\ latencies = <<>> /\ Len(latencies) = 0 /\ latencies \in Seq(Durations)
        /\ jobs \in Seq(Jobs)
    BY <1>1 DEF Init
  <2>2. call \in [Calls -> CallState] /\ closer \in [Closers -> CloserState]
    BY DEF Init, CallState, CloserState
  <2>3. /\ result \in [Jobs -> Calls \cup {Failed, Released, None}]
        /\ answer \in [Calls -> Calls \cup {None}]
    BY DEF Init
  <2>4. /\ connected \in BOOLEAN /\ opened \in Nat /\ sent \in BOOLEAN
        /\ wire \subseteq [socket : Nat, of : Calls] /\ inbox \in Reply \cup {None}
    BY DEF Init
  <2>5. /\ closed \in BOOLEAN /\ executor \in {"open", "shut"}
        /\ thread \in Jobs \cup {None} /\ awaiting \in BOOLEAN
    BY DEF Init
  <2>6. latencies \in Seq(Durations) /\ Len(latencies) <= LatencyWindow
    BY <1>2, <2>1
  <2> QED BY <2>1, <2>2, <2>3, <2>4, <2>5, <2>6 DEF TypeOK
<1>4. NotPoisoned /\ JobsOK /\ ThreadOK
  BY <1>1 DEF Init, NotPoisoned, JobsOK, ThreadOK, Jobs
<1>5. ResultsOK /\ ClosedOK
  BY <1>1 DEF Init, ResultsOK, ClosedOK, Jobs
<1> QED BY <1>3, <1>4, <1>5 DEF IInv

\* The inductive invariant holds in every reachable state.
THEOREM Invariant == Spec => []IInv
<1>1. IInv /\ [Next]_vars => IInv'
  BY TypeStep, JobsStep, ThreadKept, ResultsKept, ClosedKept, NotPoisonedKept DEF IInv
<1> QED BY <1>1, InitIInv, PTL DEF Spec

\* Every variable has its type.
THEOREM TypeCorrect == Spec => []TypeOK
<1>1. IInv => TypeOK
  BY DEF IInv
<1> QED BY <1>1, Invariant, PTL

\* A failed request leaves a socket that can send the next one
\* (_ZmqRequestTransport.request()).
THEOREM SocketRecovers == Spec => []NotPoisoned
<1>1. IInv => NotPoisoned
  BY DEF IInv
<1> QED BY <1>1, Invariant, PTL

\* When aclose() resumes, its shutdown(wait=True) has nothing to wait for and
\* the socket is gone (aclose()).
THEOREM ShutdownNeverBlocks == Spec => []CleanShutdown
<1>1. IInv => CleanShutdown
  BY DEF IInv, ClosedOK, CleanShutdown
<1> QED BY <1>1, Invariant, PTL

\* Nothing is started for a caller that has given up (infer_batch()).
THEOREM GoneIsGone == Spec => NoWorkForTheGone
<1>1. IInv /\ [Next]_vars =>
        [\A c \in Calls : thread' = c /\ thread # c => call[c] = "running"]_vars
  <2> SUFFICES ASSUME IInv, [Next]_vars, NEW c \in Calls, thread' = c, thread # c
               PROVE  call[c] = "running"
    OBVIOUS
  <2>1. TypeOK /\ JobsOK
    BY DEF IInv
  <2>2. c # None
    BY Distinct DEF Jobs
  <2>3. TakeJob
    BY <2>2 DEF Next, ThreadStep, Infer, Resume, CancelCall, Aclose, AcloseResumes, CancelAclose,
         BuildFails, Send, SendFails, Receive, ReceiveFails, CloseTransport, Reports,
         ServerReplies, loopVars, threadVars, vars
  <2>4. 1 \in 1 .. Len(jobs) /\ thread' = jobs[1]
    BY <2>1, <2>3, Taken DEF TypeOK
  <2> QED BY <2>1, <2>4 DEF JobsOK
<1> QED BY <1>1, Invariant, PTL DEF Spec, NoWorkForTheGone

-----------------------------------------------------------------------------
(* The contract of a backend.                                               *)

\* The contract begins where the backend does.
LEMMA ServiceInit == Init => Service!Init
BY DEF Init, Service!Init

\* A step of the backend is a step of the contract or a stutter.
LEMMA ServiceStep == IInv /\ [Next]_vars => [Service!Next]_(Service!serviceVars)
<1> SUFFICES ASSUME IInv, [Next]_vars PROVE [Service!Next]_(Service!serviceVars)
  OBVIOUS
<1> USE DEF loopVars, threadVars, socketVars, vars, Service!serviceVars
<1>0. TypeOK /\ ResultsOK
  BY DEF IInv
<1>1. ASSUME NEW c \in Calls, Infer(c) PROVE Service!Accept(c)
  <2>1. answer[c] = None /\ answer' = answer /\ answer \in [Calls -> Calls \cup {None}]
    BY <1>0, <1>1 DEF Infer, ResultsOK, TypeOK
  <2>2. answer' = [answer EXCEPT ![c] = None]
    BY <2>1
  <2>3. call[c] = "idle" /\ closed' = closed
        /\ call' = [call EXCEPT ![c] = IF ~closed THEN "running" ELSE "refused"]
    BY <1>1 DEF Infer
  <2> QED BY <2>2, <2>3 DEF Service!Accept, Service!Moves
<1>2. ASSUME NEW c \in Calls, Resume(c) PROVE Service!End(c)
  <2>1. result[c] \in {Failed, c} /\ c # Failed /\ call[c] = "running" /\ closed' = closed
    BY <1>0, <1>2, Distinct DEF Resume, ResultsOK, Jobs
  <2>2. CASE result[c] = Failed
    <3>1. answer[c] = None /\ answer' = answer /\ answer \in [Calls -> Calls \cup {None}]
      BY <1>0, <1>2, <2>1, <2>2 DEF Resume, ResultsOK, TypeOK
    <3>2. answer' = [answer EXCEPT ![c] = None] /\ call' = [call EXCEPT ![c] = "raised"]
      BY <1>2, <2>2, <3>1 DEF Resume
    <3>3. Service!Moves(c, "raised")
      BY <2>1, <3>2 DEF Service!Moves
    <3> QED BY <2>1, <3>3 DEF Service!End, Service!Ended
  <2>3. CASE result[c] = c
    <3>1. Service!Moves(c, "returned")
      BY <1>2, <2>1, <2>3 DEF Resume, Service!Moves
    <3> QED BY <2>1, <3>1 DEF Service!End, Service!Ended
  <2> QED BY <2>1, <2>2, <2>3
<1>3. ASSUME NEW c \in Calls, CancelCall(c) PROVE Service!End(c)
  <2>1. answer[c] = None /\ answer' = answer /\ answer \in [Calls -> Calls \cup {None}]
    BY <1>0, <1>3 DEF CancelCall, ResultsOK, TypeOK
  <2>2. answer' = [answer EXCEPT ![c] = None]
    BY <2>1
  <2>3. Service!Moves(c, "cancelled") /\ call[c] = "running"
    BY <1>3, <2>2 DEF CancelCall, Service!Moves
  <2> QED BY <2>3 DEF Service!End, Service!Ended
<1>4. ASSUME NEW k \in Closers, Aclose(k)
      PROVE  Service!Close \/ UNCHANGED <<closed, call, answer>>
  BY <1>0, <1>4 DEF Aclose, Service!Close, TypeOK
<1>5. ASSUME UNCHANGED <<closed, call, answer>> PROVE [Service!Next]_(Service!serviceVars)
  BY <1>5
<1> QED BY <1>1, <1>2, <1>3, <1>4, <1>5
        DEF Next, ThreadStep, AcloseResumes, CancelAclose, TakeJob, BuildFails, Send, SendFails,
            Receive, ReceiveFails, CloseTransport, Reports, ServerReplies, Service!Next

\* The backend implements what the scheduler relies on: a call ends once, with
\* an action of its own request or without one (infer_batch(), _infer_one()).
THEOREM Implements == Spec => KeepsService
<1> QED BY ServiceInit, ServiceStep, Invariant, PTL DEF Spec, KeepsService, Service!Spec
=============================================================================
