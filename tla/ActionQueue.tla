----------------------------- MODULE ActionQueue -----------------------------
(***************************************************************************)
(* AsyncActionQueue of src/actserve/action_queue.py: a control loop takes  *)
(* actions out of a buffer, and one producer at a time refills it when it  *)
(* runs low.  No critical section of the queue's lock awaits anything but  *)
(* the condition itself, so a task finds the lock free and an action below *)
(* is all it does until it awaits or returns.  A getter or producer of the *)
(* model makes one call (a producer: one refill, or one put).              *)
(***************************************************************************)
EXTENDS Integers, Sequences

CONSTANTS
  Getters,       \* calls of get() and get_nowait()
  Producers,     \* calls of put(), and refills: acquire_refill(), finish_refill()
  None,          \* Python's None where an object is expected
  SeqNos, Sizes, \* sequence numbers and lengths of the chunks that are offered
  Configs        \* the configurations to look at

NoSeq == -1

ASSUME QueueAssumption ==
  /\ SeqNos \subseteq Nat /\ Sizes \subseteq Nat
  /\ Configs \subseteq [low_watermark : Nat, handoff_policy : {"replace", "append"}]
  /\ Getters \cap Producers = {}
  /\ None \notin [seq : Nat, index : Nat]

VARIABLES
  config,                      \* self.config; never changes
  actions,                     \* self._actions
  latest,                      \* self._latest_sequence_no
  refill_inflight, closed,
  accepted, rejected, served, replaced, underruns,   \* the counters
  getter,                      \* where each getter is
  timed,                       \* does it have a timeout?
  got,                         \* the action it returned
  producer,                    \* where each producer is
  sent                         \* the chunk the queue took from it

queueVars == <<actions, latest, refill_inflight, closed>>
countVars == <<accepted, rejected, served, replaced, underruns>>
getVars   == <<getter, timed, got>>
putVars   == <<producer, sent>>
vars == <<config, queueVars, countVars, getVars, putVars>>

\* "ready": the task will run on; "waiting": it awaits the condition
Stopped == {"got", "empty", "closed", "cancelled"}
GetterState == {"idle", "ready", "waiting", "late"} \cup Stopped

Settled == {"accepted", "rejected", "raised", "released", "refused", "cancelled"}
\* "lost" and "stuck" producers end with the refill slot in their hands
ProducerState == {"idle", "ready", "waiting", "holding", "lost", "stuck"} \cup Settled

Action == [seq : Nat, index : Nat]

\* own: the chunk is of the queue's session and model
Chunk == [own : BOOLEAN, seq : SeqNos, size : Sizes]

Init ==
  /\ config \in Configs
  /\ actions = <<>> /\ latest = NoSeq /\ refill_inflight = FALSE /\ closed = FALSE
  /\ accepted = 0 /\ rejected = 0 /\ served = 0 /\ replaced = 0 /\ underruns = 0
  /\ getter = [g \in Getters |-> "idle"]
  /\ timed = [g \in Getters |-> FALSE]
  /\ got = [g \in Getters |-> None]
  /\ producer = [p \in Producers |-> "idle"]
  /\ sent = [p \in Producers |-> None]

Replaces == config.handoff_policy = "replace"

needs_refill == ~closed /\ ~refill_inflight /\ Len(actions) <= config.low_watermark

\* condition.notify_all(), for the calls of one kind
Woken(state) == [x \in DOMAIN state |-> IF state[x] = "waiting" THEN "ready" ELSE state[x]]

-----------------------------------------------------------------------------
(* _put_locked().                                                           *)

\* Mutant: a sequence number may come back.
AcceptsAgain(chunk) == chunk.own /\ chunk.seq >= latest /\ chunk.size > 0

Accepts(chunk) ==
  /\ chunk.own
  /\ latest = NoSeq \/ chunk.seq > latest
  /\ chunk.size > 0

ActionsOf(chunk) ==
  [i \in 1 .. chunk.size |-> [seq |-> chunk.seq, index |-> i - 1]]

\* Mutant: the queue is emptied whatever the policy says.
KeptNever == <<>>

\* what is left of the queue when a newer chunk comes in
Kept == IF Replaces THEN <<>> ELSE actions

Publish(p, chunk) ==
  IF Accepts(chunk)
    THEN /\ sent' = [sent EXCEPT ![p] = chunk]
         /\ actions' = Kept \o ActionsOf(chunk)
         /\ replaced' = replaced + IF Replaces THEN Len(actions) ELSE 0
         /\ latest' = chunk.seq
         /\ accepted' = accepted + 1
         /\ UNCHANGED rejected
    ELSE /\ rejected' = rejected + 1
         /\ UNCHANGED <<sent, actions, replaced, latest, accepted>>

Verdict(chunk) == IF Accepts(chunk) THEN "accepted" ELSE "rejected"

\* The producer p is done and everybody is notified.
Settles(p, state) ==
  /\ getter' = Woken(getter)
  /\ producer' = [Woken(producer) EXCEPT ![p] = state]

-----------------------------------------------------------------------------
(* Producers.                                                               *)

Put(p) ==
  /\ producer[p] = "idle"
  /\ \E chunk \in Chunk :
       IF closed
         THEN /\ producer' = [producer EXCEPT ![p] = "raised"]
              /\ UNCHANGED <<actions, latest, accepted, rejected, replaced, getter, sent>>
         ELSE Publish(p, chunk) /\ Settles(p, Verdict(chunk))
  /\ UNCHANGED <<config, refill_inflight, closed, served, underruns, timed, got>>

\* acquire_refill() is called.
Acquire(p) ==
  /\ producer[p] = "idle"
  /\ producer' = [producer EXCEPT ![p] = "ready"]
  /\ UNCHANGED <<config, queueVars, countVars, getVars, sent>>

\* Mutant: one test before the wait is enough.
ClaimAwake(p) ==
  /\ producer[p] = "ready"
  /\ ~closed
  /\ refill_inflight' = TRUE
  /\ producer' = [producer EXCEPT ![p] = "holding"]
  /\ UNCHANGED <<config, actions, latest, closed, countVars, getVars, sent>>

\* Its loop: the slot is claimed, refused for good, or waited for.
Claim(p) ==
  /\ producer[p] = "ready"
  /\ needs_refill
  /\ refill_inflight' = TRUE
  /\ producer' = [producer EXCEPT ![p] = "holding"]
  /\ UNCHANGED <<config, actions, latest, closed, countVars, getVars, sent>>

AwaitRefill(p) ==
  /\ producer[p] = "ready"
  /\ ~needs_refill
  /\ producer' = [producer EXCEPT ![p] = IF closed THEN "refused" ELSE "waiting"]
  /\ UNCHANGED <<config, queueVars, countVars, getVars, sent>>

\* finish_refill() with a chunk; on a closed queue it raises at once.
FinishRefill(p) ==
  /\ producer[p] = "holding"
  /\ \E chunk \in Chunk :
       IF closed
         THEN /\ producer' = [producer EXCEPT ![p] = "stuck"]
              /\ UNCHANGED <<actions, latest, accepted, rejected, replaced, getter, sent,
                             refill_inflight>>
         ELSE /\ Publish(p, chunk) /\ Settles(p, Verdict(chunk))
              /\ refill_inflight' = FALSE
  /\ UNCHANGED <<config, closed, served, underruns, timed, got>>

\* Mutant: the slot comes back, but nobody is told.
ReleaseQuietly(p) ==
  /\ producer[p] = "holding"
  /\ refill_inflight' = FALSE
  /\ producer' = [producer EXCEPT ![p] = "released"]
  /\ UNCHANGED <<config, actions, latest, closed, countVars, getVars, sent>>

\* finish_refill() without a chunk
Release(p) ==
  /\ producer[p] = "holding"
  /\ refill_inflight' = FALSE
  /\ Settles(p, "released")
  /\ UNCHANGED <<config, actions, latest, closed, countVars, timed, got, sent>>

\* The producer is cancelled while it awaits: before its turn it leaves the
\* queue alone, afterwards the slot stays taken.
ProducerCancelled(p) ==
  /\ producer[p] \in {"ready", "waiting", "holding"}
  /\ producer' = [producer EXCEPT ![p] = IF @ = "holding" THEN "lost" ELSE "cancelled"]
  /\ UNCHANGED <<config, queueVars, countVars, getVars, sent>>

-----------------------------------------------------------------------------
(* Consumers.                                                               *)

\* _pop_locked() and notify_all()
Pop(g) ==
  /\ actions # <<>>
  /\ got' = [got EXCEPT ![g] = Head(actions)]
  /\ actions' = Tail(actions)
  /\ served' = served + 1
  /\ getter' = [Woken(getter) EXCEPT ![g] = "got"]
  /\ producer' = Woken(producer)
  /\ UNCHANGED <<config, latest, refill_inflight, closed, accepted, rejected, replaced,
                 underruns, timed, sent>>

\* _record_underrun_locked(), and ActionQueueEmpty
Underrun(g) ==
  /\ underruns' = underruns + 1
  /\ getter' = [getter EXCEPT ![g] = "empty"]
  /\ UNCHANGED <<config, queueVars, accepted, rejected, served, replaced, timed, got,
                 putVars>>

\* The getter goes on, or stops, and leaves the queue alone.
Turns(g, state) ==
  /\ getter' = [getter EXCEPT ![g] = state]
  /\ UNCHANGED <<config, queueVars, countVars, timed, got, putVars>>

GetNowait(g) ==
  /\ getter[g] = "idle"
  /\ \/ Pop(g)
     \/ actions = <<>> /\ closed /\ Turns(g, "closed")
     \/ actions = <<>> /\ ~closed /\ Underrun(g)

\* get() is called, with or without a timeout.
Get(g) ==
  /\ getter[g] = "idle"
  /\ getter' = [getter EXCEPT ![g] = "ready"]
  /\ \E t \in BOOLEAN : timed' = [timed EXCEPT ![g] = t]
  /\ UNCHANGED <<config, queueVars, countVars, got, putVars>>

\* the loop of wait_for_action()
TryGet(g) ==
  /\ getter[g] = "ready"
  /\ \/ Pop(g)
     \/ actions = <<>> /\ Turns(g, IF closed THEN "closed" ELSE "waiting")

\* Mutant: the timeout covers the wait only until it is notified.
TimeoutReady(g) == timed[g] /\ getter[g] = "ready" /\ Turns(g, "late")

\* wait_for() gives up, even on a task that has been notified but did not run.
Timeout(g) == timed[g] /\ getter[g] \in {"ready", "waiting"} /\ Turns(g, "late")

\* Mutant: the timeout is not recorded.
TimedOutQuietly(g) == getter[g] = "late" /\ Turns(g, "empty")

\* the handler of the timeout, under the lock
TimedOut(g) == getter[g] = "late" /\ Underrun(g)

GetCancelled(g) == getter[g] \in {"ready", "waiting", "late"} /\ Turns(g, "cancelled")

-----------------------------------------------------------------------------
\* Mutants: close() that notifies nobody; close() that drops what is queued.
CloseQuietly ==
  /\ ~closed
  /\ closed' = TRUE
  /\ UNCHANGED <<config, actions, latest, refill_inflight, countVars, getVars, putVars>>

CloseAndClear ==
  /\ ~closed
  /\ closed' = TRUE /\ actions' = <<>>
  /\ getter' = Woken(getter) /\ producer' = Woken(producer)
  /\ UNCHANGED <<config, latest, refill_inflight, countVars, timed, got, sent>>

Close ==
  /\ ~closed
  /\ closed' = TRUE
  /\ getter' = Woken(getter) /\ producer' = Woken(producer)
  /\ UNCHANGED <<config, actions, latest, refill_inflight, countVars, timed, got, sent>>

Next ==
  \/ \E p \in Producers :
       \/ Put(p) \/ Acquire(p) \/ Claim(p) \/ AwaitRefill(p)
       \/ FinishRefill(p) \/ Release(p) \/ ProducerCancelled(p)
  \/ \E g \in Getters :
       \/ GetNowait(g) \/ Get(g) \/ TryGet(g)
       \/ Timeout(g) \/ TimedOut(g) \/ GetCancelled(g)
  \/ Close

Spec == Init /\ [][Next]_vars

\* The event loop runs every task that can run, and timers fire.  Nobody has
\* to call, to publish or to close.
Fairness ==
  /\ \A p \in Producers : WF_vars(Claim(p) \/ AwaitRefill(p))
  /\ \A g \in Getters : WF_vars(TryGet(g)) /\ WF_vars(Timeout(g)) /\ WF_vars(TimedOut(g))

FairSpec == Spec /\ Fairness
=============================================================================
