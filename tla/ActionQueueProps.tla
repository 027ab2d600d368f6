--------------------------- MODULE ActionQueueProps ---------------------------
(***************************************************************************)
(* What the action queue of src/actserve/action_queue.py must do, stated   *)
(* over the model in ActionQueue.                                          *)
(***************************************************************************)
EXTENDS ActionQueue, FiniteSets

\* Every variable has its type.
TypeOK ==
  /\ config \in Configs
  /\ actions \in Seq(Action)
  /\ latest \in SeqNos \cup {NoSeq}
  /\ refill_inflight \in BOOLEAN /\ closed \in BOOLEAN
  /\ {accepted, rejected, served, replaced, underruns} \subseteq Nat
  /\ getter \in [Getters -> GetterState]
  /\ timed \in [Getters -> BOOLEAN]
  /\ got \in [Getters -> Action \cup {None}]
  /\ producer \in [Producers -> ProducerState]
  /\ sent \in [Producers -> Chunk \cup {None}]

-----------------------------------------------------------------------------
(* The refill slot and the condition variable.                              *)

Holders == {p \in Producers : producer[p] \in {"holding", "lost", "stuck"}}

\* The refill slot is taken exactly while one producer has it; a producer that
\* dies with it, or whose queue is closed before it can return it, keeps it
\* (action_queue.py:126-149).
OneRefill ==
  /\ \A p, q \in Holders : p = q
  /\ refill_inflight <=> Holders # {}

\* No wake-up is lost: whoever still waits has nothing to do, so no getter
\* sleeps next to an action, no producer next to a refill that is needed, and
\* nobody on a closed queue (action_queue.py:144-169).
NobodySleepsOnWork ==
  /\ \A g \in Getters : getter[g] = "waiting" => actions = <<>> /\ ~closed
  /\ \A p \in Producers : producer[p] = "waiting" => ~needs_refill /\ ~closed

-----------------------------------------------------------------------------
(* The stream of actions.                                                   *)

Precedes(a, b) == a.seq < b.seq \/ (a.seq = b.seq /\ a.index < b.index)

Serves(g) == got[g] = None /\ got'[g] # None

Accepted == {p \in Producers : producer[p] = "accepted"}
Published == UNION {{ActionsOf(sent[p])[i] : i \in 1 .. sent[p].size} : p \in Accepted}
Given == {got[g] : g \in Getters} \ {None}
Queued == {actions[i] : i \in 1 .. Len(actions)}

\* The robot never executes an action twice nor goes back: whatever is served
\* comes after everything served before, to whichever caller.
ServedInOrder ==
  [][\A g, h \in Getters : Serves(g) /\ got[h] # None => Precedes(got[h], got'[g])]_vars

\* The handoff policy is kept (docs/ASYNC_ACTIONS.md:26-28): with "replace"
\* every served action is of the newest chunk, with "append" no published
\* action is passed over.
HandoffKept ==
  [][\A g \in Getters : Serves(g) =>
       IF Replaces THEN got'[g].seq = latest
       ELSE \A a \in Published : Precedes(a, got'[g]) => a \in Given]_vars

\* Every published action was served or replaced or is still queued, and
\* close() takes none away (action_queue.py:195-198, 214-258).
ActionsConserved ==
  /\ served + replaced + Len(actions) = Cardinality(Published)
  /\ Given \cup Queued \subseteq Published
  /\ Cardinality(Queued) = Len(actions) /\ Given \cap Queued = {}

\* The counters of snapshot() agree with what the callers were told.
CountersAgree ==
  /\ accepted = Cardinality(Accepted)
  /\ rejected = Cardinality({p \in Producers : producer[p] = "rejected"})
  /\ served = Cardinality({g \in Getters : getter[g] = "got"})
  /\ underruns = Cardinality({g \in Getters : getter[g] = "empty"})

-----------------------------------------------------------------------------
(* What the safety properties rest on: the inductive invariant.             *)

\* The queue is in order, behind what was served, and nothing in either is newer
\* than the newest chunk.
InOrder ==
  /\ \A i, j \in 1 .. Len(actions) : i < j => Precedes(actions[i], actions[j])
  /\ \A i \in 1 .. Len(actions) : actions[i].seq <= latest
  /\ \A g \in Getters : got[g] # None =>
       /\ got[g].seq <= latest
       /\ \A i \in 1 .. Len(actions) : Precedes(got[g], actions[i])

\* With "replace" only the newest chunk is queued; with "append" whatever was
\* published was served or is queued.
HandoffOK ==
  IF Replaces THEN \A i \in 1 .. Len(actions) : actions[i].seq = latest
  ELSE Published \subseteq Given \cup Queued

\* A getter that has its action is done.
Answered == \A g \in Getters : got[g] # None => getter[g] = "got"

IInv == TypeOK /\ OneRefill /\ NobodySleepsOnWork /\ InOrder /\ HandoffOK /\ Answered

-----------------------------------------------------------------------------
(* Liveness.                                                                *)

\* close() ends every call that waits.
CloseReleasesAll ==
  /\ \A g \in Getters : closed /\ getter[g] \in {"ready", "waiting"} ~> getter[g] \in Stopped
  /\ \A p \in Producers : closed /\ producer[p] \in {"ready", "waiting"} ~> producer[p] \in Settled

\* A get() with a timeout returns or raises, whatever the producers do.
TimedGetReturns == \A g \in Getters : timed[g] ~> getter[g] \in Stopped
=============================================================================
