-------------------------- MODULE ActionQueueProofs --------------------------
(***************************************************************************)
(* The safety of the action queue, proved for every number of callers,     *)
(* every chunk length, watermark and handoff policy.                       *)
(***************************************************************************)
EXTENDS ActionQueueProps, TLAPS, SequenceTheorems, FiniteSetTheorems

USE DEF NoSeq

\* Waking the waiters keeps the states of a kind of call well typed.
LEMMA WokenTyped ==
  ASSUME NEW S, NEW T, NEW state \in [S -> T], "ready" \in T
  PROVE  /\ Woken(state) \in [S -> T]
         /\ \A x \in S : Woken(state)[x] = IF state[x] = "waiting" THEN "ready" ELSE state[x]
BY DEF Woken

\* An accepted chunk is newer than whatever was queued or served.
LEMMA Newer ==
  ASSUME TypeOK, NEW chunk \in Chunk, Accepts(chunk)
  PROVE  /\ chunk.seq \in Nat /\ chunk.size \in Nat \ {0} /\ chunk.seq \in SeqNos
         /\ latest \in Int /\ latest < chunk.seq
<1>1. chunk.seq \in SeqNos /\ chunk.size \in Sizes
  BY DEF Chunk
<1>2. SeqNos \subseteq Nat /\ Sizes \subseteq Nat
  BY QueueAssumption DEF QueueAssumption
<1>3. latest \in SeqNos \/ latest = -1
  BY DEF TypeOK
<1>4. chunk.seq \in Nat /\ chunk.size \in Nat /\ (latest \in Nat \/ latest = -1)
  BY <1>1, <1>2, <1>3
<1>5. chunk.size > 0 /\ (latest = -1 \/ chunk.seq > latest)
  BY DEF Accepts
<1> QED BY <1>1, <1>4, <1>5

\* The queue after an accepted chunk: what is kept, then the chunk.
LEMMA PublishedQueue ==
  ASSUME TypeOK, NEW chunk \in Chunk, Accepts(chunk), actions' = Kept \o ActionsOf(chunk)
  PROVE  /\ Kept \in Seq(Action) /\ Len(Kept) <= Len(actions)
         /\ \A i \in 1 .. Len(Kept) : Kept[i] = actions[i]
         /\ actions' \in Seq(Action) /\ Len(actions') = Len(Kept) + chunk.size
         /\ \A i \in 1 .. Len(actions') :
              \/ i <= Len(Kept) /\ actions'[i] = actions[i]
              \/ i > Len(Kept) /\ actions'[i] = [seq |-> chunk.seq, index |-> i - Len(Kept) - 1]
<1>1. chunk.seq \in Nat /\ chunk.size \in Nat
  BY Newer
<1>2. ActionsOf(chunk) \in Seq(Action) /\ Len(ActionsOf(chunk)) = chunk.size
  <2>1. \A i \in 1 .. chunk.size : [seq |-> chunk.seq, index |-> i - 1] \in Action
    BY <1>1 DEF Action
  <2>2. ActionsOf(chunk) \in [1 .. chunk.size -> Action]
    BY <2>1 DEF ActionsOf
  <2>3. ActionsOf(chunk) \in Seq(Action)
    BY <1>1, <2>2, SeqDef
  <2>4. DOMAIN ActionsOf(chunk) = 1 .. chunk.size
    BY DEF ActionsOf
  <2>5. Len(ActionsOf(chunk)) = chunk.size
    BY <1>1, <2>3, <2>4
  <2> QED BY <2>3, <2>5
<1>3. /\ Kept \in Seq(Action) /\ Len(Kept) <= Len(actions)
      /\ \A i \in 1 .. Len(Kept) : Kept[i] = actions[i]
  BY DEF Kept, TypeOK
<1>4. actions' \in Seq(Action) /\ Len(actions') = Len(Kept) + chunk.size
  BY <1>2, <1>3
<1>5. ASSUME NEW i \in 1 .. Len(actions')
      PROVE  \/ i <= Len(Kept) /\ actions'[i] = actions[i]
             \/ i > Len(Kept) /\ actions'[i] = [seq |-> chunk.seq, index |-> i - Len(Kept) - 1]
  <2>1. CASE i <= Len(Kept)
    BY <1>2, <1>3, <2>1
  <2>2. CASE i > Len(Kept)
    <3>1. i - Len(Kept) \in 1 .. chunk.size
      BY <1>1, <1>3, <1>4, <2>2
    <3>2. actions'[i] = ActionsOf(chunk)[i - Len(Kept)]
      BY <1>2, <1>3, <1>4, <2>2
    <3> QED BY <2>2, <3>1, <3>2 DEF ActionsOf
  <2> QED BY <1>3, <1>4, <2>1, <2>2
<1> QED BY <1>3, <1>4, <1>5

\* Init establishes the inductive invariant.
LEMMA InitIInv == Init => IInv
<1> SUFFICES ASSUME Init PROVE IInv
  OBVIOUS
<1>1. actions = <<>> /\ Len(actions) = 0 /\ actions \in Seq(Action)
  BY DEF Init
<1>2. TypeOK
  <2>1. /\ config \in Configs /\ latest \in SeqNos \cup {NoSeq}
        /\ refill_inflight \in BOOLEAN /\ closed \in BOOLEAN
    BY DEF Init
  <2>3. {accepted, rejected, served, replaced, underruns} \subseteq Nat
    BY DEF Init
  <2>2. /\ getter \in [Getters -> GetterState] /\ timed \in [Getters -> BOOLEAN]
        /\ got \in [Getters -> Action \cup {None}]
        /\ producer \in [Producers -> ProducerState]
        /\ sent \in [Producers -> Chunk \cup {None}]
    BY DEF Init, GetterState, ProducerState
  <2> QED BY <1>1, <2>1, <2>2, <2>3 DEF TypeOK
<1>3. OneRefill /\ NobodySleepsOnWork
  BY <1>1 DEF Init, OneRefill, NobodySleepsOnWork, Holders
<1>4. InOrder /\ HandoffOK /\ Answered
  BY <1>1 DEF Init, InOrder, HandoffOK, Published, Accepted, Answered
<1> QED BY <1>2, <1>3, <1>4 DEF IInv

-----------------------------------------------------------------------------
(* The types.                                                               *)

\* Publishing keeps the types of what it writes.
LEMMA PublishTyped ==
  ASSUME TypeOK, NEW p \in Producers, NEW chunk \in Chunk, Publish(p, chunk)
  PROVE  /\ actions' \in Seq(Action) /\ latest' \in SeqNos \cup {NoSeq}
         /\ {accepted', rejected', replaced'} \subseteq Nat
         /\ sent' \in [Producers -> Chunk \cup {None}]
         /\ Verdict(chunk) \in {"accepted", "rejected"}
<1>1. Len(actions) \in Nat
  BY DEF TypeOK
<1>2. CASE Accepts(chunk)
  <2>1. actions' \in Seq(Action) /\ chunk.seq \in SeqNos
    BY <1>2, PublishedQueue, Newer DEF Publish
  <2>2. accepted \in Nat /\ rejected \in Nat /\ replaced \in Nat
    BY DEF TypeOK
  <2>3. accepted' \in Nat /\ rejected' \in Nat /\ replaced' \in Nat
    BY <1>1, <1>2, <2>2 DEF Publish
  <2>4. latest' = chunk.seq /\ sent' = [sent EXCEPT ![p] = chunk]
    BY <1>2 DEF Publish
  <2> QED BY <1>2, <2>1, <2>3, <2>4 DEF Verdict, TypeOK
<1>3. CASE ~Accepts(chunk)
  BY <1>3 DEF Publish, Verdict, TypeOK
<1> QED BY <1>2, <1>3

\* Every step keeps the types.
LEMMA TypeStep == TypeOK /\ [Next]_vars => TypeOK'
<1> SUFFICES ASSUME TypeOK, [Next]_vars PROVE TypeOK'
  OBVIOUS
<1> USE DEF queueVars, countVars, getVars, putVars
<1>1. /\ Woken(getter) \in [Getters -> GetterState]
      /\ Woken(producer) \in [Producers -> ProducerState]
  BY WokenTyped DEF TypeOK, GetterState, ProducerState
<1>2. ASSUME NEW p \in Producers, Put(p) PROVE TypeOK'
  <2>1. PICK chunk \in Chunk :
          IF closed THEN /\ producer' = [producer EXCEPT ![p] = "raised"]
                         /\ UNCHANGED <<actions, latest, accepted, rejected, replaced,
                                        getter, sent>>
                    ELSE Publish(p, chunk) /\ Settles(p, Verdict(chunk))
    BY <1>2 DEF Put
  <2>2. UNCHANGED <<config, refill_inflight, closed, served, underruns, timed, got>>
    BY <1>2 DEF Put
  <2>3. CASE closed
    BY <2>1, <2>2, <2>3 DEF TypeOK, ProducerState, Settled
  <2>4. CASE ~closed
    <3>1. Publish(p, chunk) /\ Settles(p, Verdict(chunk))
      BY <2>1, <2>4
    <3>2. /\ actions' \in Seq(Action) /\ latest' \in SeqNos \cup {NoSeq}
          /\ {accepted', rejected', replaced'} \subseteq Nat
          /\ sent' \in [Producers -> Chunk \cup {None}]
          /\ Verdict(chunk) \in {"accepted", "rejected"}
      BY <3>1, PublishTyped
    <3>3. getter' \in [Getters -> GetterState] /\ producer' \in [Producers -> ProducerState]
      BY <1>1, <3>1, <3>2 DEF Settles, ProducerState, Settled
    <3> QED BY <2>2, <3>2, <3>3 DEF TypeOK
  <2> QED BY <2>3, <2>4
<1>3. ASSUME NEW p \in Producers, FinishRefill(p) PROVE TypeOK'
  <2>1. PICK chunk \in Chunk :
          IF closed THEN /\ producer' = [producer EXCEPT ![p] = "stuck"]
                         /\ UNCHANGED <<actions, latest, accepted, rejected, replaced,
                                        getter, sent, refill_inflight>>
                    ELSE /\ Publish(p, chunk) /\ Settles(p, Verdict(chunk))
                         /\ refill_inflight' = FALSE
    BY <1>3 DEF FinishRefill
  <2>2. UNCHANGED <<config, closed, served, underruns, timed, got>>
    BY <1>3 DEF FinishRefill
  <2>3. CASE closed
    BY <2>1, <2>2, <2>3 DEF TypeOK, ProducerState
  <2>4. CASE ~closed
    <3>1. Publish(p, chunk) /\ Settles(p, Verdict(chunk)) /\ refill_inflight' = FALSE
      BY <2>1, <2>4
    <3>2. /\ actions' \in Seq(Action) /\ latest' \in SeqNos \cup {NoSeq}
          /\ {accepted', rejected', replaced'} \subseteq Nat
          /\ sent' \in [Producers -> Chunk \cup {None}]
          /\ Verdict(chunk) \in {"accepted", "rejected"}
      BY <3>1, PublishTyped
    <3>3. getter' \in [Getters -> GetterState] /\ producer' \in [Producers -> ProducerState]
      BY <1>1, <3>1, <3>2 DEF Settles, ProducerState, Settled
    <3> QED BY <2>2, <3>1, <3>2, <3>3 DEF TypeOK
  <2> QED BY <2>3, <2>4
<1>4. ASSUME NEW p \in Producers,
             Acquire(p) \/ Claim(p) \/ AwaitRefill(p) \/ ProducerCancelled(p)
      PROVE  TypeOK'
  BY <1>4 DEF Acquire, Claim, AwaitRefill, ProducerCancelled, TypeOK, ProducerState, Settled
<1>5. ASSUME NEW p \in Producers, Release(p) PROVE TypeOK'
  BY <1>1, <1>5 DEF Release, Settles, TypeOK, ProducerState, Settled
<1>6. ASSUME NEW g \in Getters, Pop(g) PROVE TypeOK'
  <2>1. Head(actions) \in Action /\ Tail(actions) \in Seq(Action)
    BY <1>6 DEF Pop, TypeOK
  <2> QED BY <1>1, <1>6, <2>1 DEF Pop, TypeOK, GetterState, Stopped
<1>7. ASSUME NEW g \in Getters, Underrun(g) PROVE TypeOK'
  BY <1>7 DEF Underrun, TypeOK, GetterState, Stopped
<1>8. ASSUME NEW g \in Getters, NEW state \in GetterState, Turns(g, state) PROVE TypeOK'
  BY <1>8 DEF Turns, TypeOK
<1>9. ASSUME NEW g \in Getters, Get(g) PROVE TypeOK'
  BY <1>9 DEF Get, TypeOK, GetterState
<1>10. ASSUME NEW g \in Getters,
              GetNowait(g) \/ TryGet(g) \/ Timeout(g) \/ TimedOut(g) \/ GetCancelled(g)
       PROVE  \/ Pop(g) \/ Underrun(g)
              \/ \E state \in GetterState : Turns(g, state)
  BY <1>10 DEF GetNowait, TryGet, Timeout, TimedOut, GetCancelled, GetterState, Stopped
<1>11. ASSUME Close PROVE TypeOK'
  BY <1>1, <1>11 DEF Close, TypeOK
<1>12. ASSUME UNCHANGED vars PROVE TypeOK'
  BY <1>12 DEF vars, TypeOK
<1> QED BY <1>2, <1>3, <1>4, <1>5, <1>6, <1>7, <1>8, <1>9, <1>10, <1>11, <1>12 DEF Next

-----------------------------------------------------------------------------
(* The refill slot.                                                         *)

\* A step that only wakes producers, or moves one that has no slot to a state
\* without one, changes nothing about the slot.
LEMMA SameHolders ==
  ASSUME TypeOK, OneRefill, Holders' = Holders, refill_inflight' = refill_inflight
  PROVE  OneRefill'
BY DEF OneRefill

\* The slot is claimed when it is free, and given up by the producer that has it.
LEMMA OneRefillStep == TypeOK /\ OneRefill /\ [Next]_vars => OneRefill'
<1> SUFFICES ASSUME TypeOK, OneRefill, [Next]_vars PROVE OneRefill'
  OBVIOUS
<1> USE DEF queueVars, countVars, getVars, putVars
<1>1. /\ Woken(producer) \in [Producers -> ProducerState]
      /\ \A p \in Producers :
           Woken(producer)[p] = IF producer[p] = "waiting" THEN "ready" ELSE producer[p]
  <2>1. "ready" \in ProducerState /\ producer \in [Producers -> ProducerState]
    BY DEF ProducerState, TypeOK
  <2> QED BY <2>1, WokenTyped
<1>2. ASSUME NEW p \in Producers, producer[p] \notin {"holding", "lost", "stuck"},
             NEW state, state \notin {"holding", "lost", "stuck"},
             \/ producer' = [producer EXCEPT ![p] = state]
             \/ producer' = [Woken(producer) EXCEPT ![p] = state],
             refill_inflight' = refill_inflight
      PROVE  OneRefill'
  <2>1. Holders' = Holders
    BY <1>1, <1>2 DEF Holders, TypeOK
  <2> QED BY <1>2, <2>1, SameHolders
<1>3. ASSUME producer' = producer \/ producer' = Woken(producer),
             refill_inflight' = refill_inflight
      PROVE  OneRefill'
  <2>1. Holders' = Holders
    BY <1>1, <1>3 DEF Holders, TypeOK
  <2> QED BY <1>3, <2>1, SameHolders
<1>4. ASSUME NEW p \in Producers, producer[p] = "holding", NEW state,
             state \notin {"holding", "lost", "stuck"},
             producer' = [Woken(producer) EXCEPT ![p] = state], refill_inflight' = FALSE
      PROVE  OneRefill'
  <2>1. \A q \in Holders : q = p
    BY <1>4 DEF OneRefill, Holders
  <2>2. Holders' = {}
    BY <1>1, <1>4, <2>1 DEF Holders, TypeOK
  <2> QED BY <1>4, <2>2 DEF OneRefill
<1>5. ASSUME NEW p \in Producers, producer[p] = "holding", NEW state,
             state \in {"lost", "stuck"}, producer' = [producer EXCEPT ![p] = state],
             refill_inflight' = refill_inflight
      PROVE  OneRefill'
  <2>1. Holders' = Holders
    BY <1>5 DEF Holders, TypeOK
  <2> QED BY <1>5, <2>1, SameHolders
<1>6. ASSUME NEW p \in Producers, Put(p) PROVE OneRefill'
  <2>1. PICK chunk \in Chunk :
          \/ producer' = [producer EXCEPT ![p] = "raised"]
          \/ producer' = [Woken(producer) EXCEPT ![p] = Verdict(chunk)]
    BY <1>6 DEF Put, Settles
  <2>2. Verdict(chunk) \in {"accepted", "rejected"}
    BY DEF Verdict
  <2> QED BY <1>2, <1>6, <2>1, <2>2 DEF Put
<1>7. ASSUME NEW p \in Producers, FinishRefill(p) PROVE OneRefill'
  <2>1. PICK chunk \in Chunk :
          \/ /\ producer' = [producer EXCEPT ![p] = "stuck"]
             /\ refill_inflight' = refill_inflight
          \/ /\ producer' = [Woken(producer) EXCEPT ![p] = Verdict(chunk)]
             /\ refill_inflight' = FALSE
    BY <1>7 DEF FinishRefill, Settles
  <2>2. Verdict(chunk) \in {"accepted", "rejected"} /\ producer[p] = "holding"
    BY <1>7 DEF Verdict, FinishRefill
  <2> QED BY <1>4, <1>5, <2>1, <2>2
<1>8. ASSUME NEW p \in Producers, Claim(p) PROVE OneRefill'
  <2>1. Holders = {}
    BY <1>8 DEF Claim, needs_refill, OneRefill
  <2>2. Holders' = {p} /\ refill_inflight' = TRUE
    BY <1>8, <2>1 DEF Claim, Holders, TypeOK
  <2> QED BY <2>2 DEF OneRefill
<1>9. ASSUME NEW p \in Producers, Acquire(p) \/ AwaitRefill(p) PROVE OneRefill'
  BY <1>2, <1>9 DEF Acquire, AwaitRefill
<1>10. ASSUME NEW p \in Producers, Release(p) PROVE OneRefill'
  BY <1>4, <1>10 DEF Release, Settles
<1>11. ASSUME NEW p \in Producers, ProducerCancelled(p) PROVE OneRefill'
  <2>1. CASE producer[p] = "holding"
    BY <1>5, <1>11, <2>1 DEF ProducerCancelled
  <2>2. CASE producer[p] \in {"ready", "waiting"}
    <3>1. producer' = [producer EXCEPT ![p] = "cancelled"] /\ refill_inflight' = refill_inflight
      BY <1>11, <2>2 DEF ProducerCancelled
    <3> QED BY <1>2, <2>2, <3>1
  <2> QED BY <1>11, <2>1, <2>2 DEF ProducerCancelled
<1>12. ASSUME NEW g \in Getters,
              GetNowait(g) \/ Get(g) \/ TryGet(g) \/ Timeout(g) \/ TimedOut(g) \/ GetCancelled(g)
       PROVE  OneRefill'
  BY <1>3, <1>12 DEF GetNowait, Get, TryGet, Timeout, TimedOut, GetCancelled, Pop, Underrun, Turns
<1>13. ASSUME Close \/ UNCHANGED vars PROVE OneRefill'
  BY <1>3, <1>13 DEF Close, vars
<1> QED BY <1>6, <1>7, <1>8, <1>9, <1>10, <1>11, <1>12, <1>13 DEF Next

-----------------------------------------------------------------------------
(* The condition variable.                                                  *)

\* A step leaves the queue as it is, and lets a waiter wait only if it found
\* nothing to do, or it wakes everybody.
LEMMA SleepStep == TypeOK /\ NobodySleepsOnWork /\ [Next]_vars => NobodySleepsOnWork'
<1> SUFFICES ASSUME TypeOK, NobodySleepsOnWork, [Next]_vars PROVE NobodySleepsOnWork'
  OBVIOUS
<1> USE DEF queueVars, countVars, getVars, putVars
<1>1. /\ \A p \in Producers : Woken(producer)[p] # "waiting"
      /\ \A g \in Getters : Woken(getter)[g] # "waiting"
      /\ Woken(getter) \in [Getters -> GetterState]
      /\ Woken(producer) \in [Producers -> ProducerState]
  <2>1. "ready" \in GetterState /\ "ready" \in ProducerState
    BY DEF GetterState, ProducerState
  <2>2. getter \in [Getters -> GetterState] /\ producer \in [Producers -> ProducerState]
    BY DEF TypeOK
  <2> QED BY <2>1, <2>2, WokenTyped
<1>2. ASSUME NEW p \in Producers, NEW state, state # "waiting",
             getter' = Woken(getter), producer' = [Woken(producer) EXCEPT ![p] = state]
      PROVE  NobodySleepsOnWork'
  BY <1>1, <1>2 DEF NobodySleepsOnWork
<1>3. ASSUME NEW p \in Producers, NEW state, producer' = [producer EXCEPT ![p] = state],
             state = "waiting" => ~needs_refill /\ ~closed,
             UNCHANGED <<config, actions, refill_inflight, closed, getter>>
      PROVE  NobodySleepsOnWork'
  BY <1>3 DEF NobodySleepsOnWork, needs_refill, TypeOK
<1>4. ASSUME NEW g \in Getters, NEW state, Turns(g, state),
             state = "waiting" => actions = <<>> /\ ~closed
      PROVE  NobodySleepsOnWork'
  BY <1>4 DEF Turns, NobodySleepsOnWork, needs_refill, TypeOK
<1>5. ASSUME NEW p \in Producers, Put(p) PROVE NobodySleepsOnWork'
  <2>1. CASE closed
    BY <1>3, <1>5, <2>1 DEF Put
  <2>2. CASE ~closed
    <3>1. PICK chunk \in Chunk : Settles(p, Verdict(chunk))
      BY <1>5, <2>2 DEF Put
    <3>2. Verdict(chunk) # "waiting"
      BY DEF Verdict
    <3> QED BY <1>2, <3>1, <3>2 DEF Settles
  <2> QED BY <2>1, <2>2
<1>6. ASSUME NEW p \in Producers, FinishRefill(p) PROVE NobodySleepsOnWork'
  <2>1. CASE closed
    BY <1>3, <1>6, <2>1 DEF FinishRefill
  <2>2. CASE ~closed
    <3>1. PICK chunk \in Chunk : Settles(p, Verdict(chunk))
      BY <1>6, <2>2 DEF FinishRefill
    <3>2. Verdict(chunk) # "waiting"
      BY DEF Verdict
    <3> QED BY <1>2, <3>1, <3>2 DEF Settles
  <2> QED BY <2>1, <2>2
<1>7. ASSUME NEW p \in Producers, Release(p) PROVE NobodySleepsOnWork'
  BY <1>2, <1>7 DEF Release, Settles
<1>8. ASSUME NEW p \in Producers, Claim(p) PROVE NobodySleepsOnWork'
  BY <1>8 DEF Claim, NobodySleepsOnWork, needs_refill, TypeOK
<1>9. ASSUME NEW p \in Producers, Acquire(p) \/ AwaitRefill(p) \/ ProducerCancelled(p)
      PROVE  NobodySleepsOnWork'
  BY <1>3, <1>9 DEF Acquire, AwaitRefill, ProducerCancelled
<1>10. ASSUME NEW g \in Getters, Pop(g) PROVE NobodySleepsOnWork'
  BY <1>1, <1>10 DEF Pop, NobodySleepsOnWork
<1>11. ASSUME NEW g \in Getters, Underrun(g) \/ Get(g) PROVE NobodySleepsOnWork'
  BY <1>11 DEF Underrun, Get, NobodySleepsOnWork, needs_refill, TypeOK
<1>12. ASSUME NEW g \in Getters,
              GetNowait(g) \/ TryGet(g) \/ Timeout(g) \/ TimedOut(g) \/ GetCancelled(g)
       PROVE  NobodySleepsOnWork'
  BY <1>4, <1>10, <1>11, <1>12 DEF GetNowait, TryGet, Timeout, TimedOut, GetCancelled
<1>13. ASSUME Close PROVE NobodySleepsOnWork'
  BY <1>1, <1>13 DEF Close, NobodySleepsOnWork
<1>14. ASSUME UNCHANGED vars PROVE NobodySleepsOnWork'
  BY <1>14 DEF vars, NobodySleepsOnWork, needs_refill
<1> QED BY <1>5, <1>6, <1>7, <1>8, <1>9, <1>11, <1>12, <1>13, <1>14 DEF Next

-----------------------------------------------------------------------------
(* The stream of actions.                                                   *)

\* an accepted chunk enters the queue
Enters(p, chunk) ==
  /\ Accepts(chunk)
  /\ actions' = Kept \o ActionsOf(chunk) /\ latest' = chunk.seq /\ got' = got
  /\ sent' = [sent EXCEPT ![p] = chunk]
  /\ p \notin Accepted /\ Accepted' = Accepted \cup {p}
  /\ served' = served /\ replaced' = replaced + IF Replaces THEN Len(actions) ELSE 0

\* an action leaves it
Leaves(g) ==
  /\ actions # <<>> /\ got[g] = None /\ got' = [got EXCEPT ![g] = Head(actions)]
  /\ actions' = Tail(actions) /\ UNCHANGED <<latest, sent>> /\ Accepted' = Accepted
  /\ served' = served + 1 /\ replaced' = replaced

\* A step publishes a chunk, serves an action, or leaves the stream alone.
LEMMA StreamStep ==
  ASSUME TypeOK, Answered, [Next]_vars
  PROVE  /\ config' = config
         /\ \/ \E p \in Producers, chunk \in Chunk : Enters(p, chunk)
            \/ \E g \in Getters : Leaves(g)
            \/ UNCHANGED <<actions, latest, got, sent, served, replaced>> /\ Accepted' = Accepted
<1> USE DEF queueVars, countVars, getVars, putVars
<1>0. config' = config
  BY DEF Next, vars, Put, Acquire, Claim, AwaitRefill, FinishRefill, Release, ProducerCancelled,
     GetNowait, Get, TryGet, Timeout, TimedOut, GetCancelled, Pop, Underrun, Turns, Close
<1>1. /\ Woken(producer) \in [Producers -> ProducerState]
      /\ \A p \in Producers :
           Woken(producer)[p] = IF producer[p] = "waiting" THEN "ready" ELSE producer[p]
  <2>1. "ready" \in ProducerState /\ producer \in [Producers -> ProducerState]
    BY DEF ProducerState, TypeOK
  <2> QED BY <2>1, WokenTyped
<1> DEFINE Stays == UNCHANGED <<actions, latest, got, sent, served, replaced>> /\ Accepted' = Accepted
           Moves == \E p \in Producers, chunk \in Chunk : Enters(p, chunk)
<1>2. ASSUME NEW p \in Producers, producer[p] # "accepted", NEW state, state # "accepted",
             \/ producer' = [producer EXCEPT ![p] = state]
             \/ producer' = [Woken(producer) EXCEPT ![p] = state],
             UNCHANGED <<actions, latest, got, sent, served, replaced>>
      PROVE  Stays
  BY <1>1, <1>2 DEF Accepted, TypeOK
<1>3. ASSUME producer' = producer \/ producer' = Woken(producer) PROVE Accepted' = Accepted
  BY <1>1, <1>3 DEF Accepted, TypeOK
<1>4. ASSUME NEW p \in Producers, producer[p] # "accepted", NEW chunk \in Chunk,
             Publish(p, chunk), Settles(p, Verdict(chunk)), got' = got, served' = served
      PROVE  Stays \/ Moves
  <2>1. CASE Accepts(chunk)
    <3>1. producer' = [Woken(producer) EXCEPT ![p] = "accepted"]
      BY <1>4, <2>1 DEF Settles, Verdict
    <3>2. p \notin Accepted /\ Accepted' = Accepted \cup {p}
      BY <1>1, <1>4, <3>1 DEF Accepted, TypeOK
    <3>3. Enters(p, chunk)
      BY <1>4, <2>1, <3>2 DEF Enters, Publish
    <3> QED BY <3>3
  <2>2. CASE ~Accepts(chunk)
    <3>1. producer' = [Woken(producer) EXCEPT ![p] = "rejected"]
      BY <1>4, <2>2 DEF Settles, Verdict
    <3> QED BY <1>2, <1>4, <2>2, <3>1 DEF Publish
  <2> QED BY <2>1, <2>2
<1>5. ASSUME NEW p \in Producers, Put(p) PROVE Stays \/ Moves
  <2>1. CASE closed
    BY <1>2, <1>5, <2>1 DEF Put
  <2>2. CASE ~closed
    BY <1>4, <1>5, <2>2 DEF Put
  <2> QED BY <2>1, <2>2
<1>6. ASSUME NEW p \in Producers, FinishRefill(p) PROVE Stays \/ Moves
  <2>1. CASE closed
    BY <1>2, <1>6, <2>1 DEF FinishRefill
  <2>2. CASE ~closed
    BY <1>4, <1>6, <2>2 DEF FinishRefill
  <2> QED BY <2>1, <2>2
<1>7. ASSUME NEW p \in Producers, Acquire(p) \/ Claim(p) \/ AwaitRefill(p) \/ ProducerCancelled(p)
      PROVE  Stays
  <2>1. PICK state \in ProducerState :
          state # "accepted" /\ producer' = [producer EXCEPT ![p] = state]
    BY <1>7 DEF Acquire, Claim, AwaitRefill, ProducerCancelled, ProducerState, Settled
  <2>2. producer[p] # "accepted" /\ UNCHANGED <<actions, latest, got, sent, served, replaced>>
    BY <1>7 DEF Acquire, Claim, AwaitRefill, ProducerCancelled
  <2> QED BY <1>2, <2>1, <2>2
<1>8. ASSUME NEW p \in Producers, Release(p) PROVE Stays
  BY <1>2, <1>8 DEF Release, Settles
<1>9. ASSUME NEW g \in Getters, getter[g] # "got", Pop(g) PROVE Leaves(g)
  <2>1. got[g] = None
    BY <1>9 DEF Answered
  <2> QED BY <1>3, <1>9, <2>1 DEF Pop, Leaves
<1>10. ASSUME NEW g \in Getters, Underrun(g) \/ Get(g) \/ \E state : Turns(g, state) PROVE Stays
  BY <1>3, <1>10 DEF Underrun, Get, Turns
<1>11. ASSUME NEW g \in Getters,
              GetNowait(g) \/ TryGet(g) \/ Timeout(g) \/ TimedOut(g) \/ GetCancelled(g)
       PROVE  (getter[g] # "got" /\ Pop(g)) \/ Underrun(g) \/ \E state : Turns(g, state)
  BY <1>11 DEF GetNowait, TryGet, Timeout, TimedOut, GetCancelled
<1>12. ASSUME Close \/ UNCHANGED vars PROVE Stays
  BY <1>3, <1>12 DEF Close, vars
<1> QED BY <1>0, <1>5, <1>6, <1>7, <1>8, <1>9, <1>10, <1>11, <1>12 DEF Next

\* Serving takes the first action of the queue, and shifts the others.
LEMMA LeavesQueue ==
  ASSUME TypeOK, NEW g \in Getters, Leaves(g)
  PROVE  /\ Len(actions) \in Nat /\ Len(actions) >= 1 /\ Len(actions') = Len(actions) - 1
         /\ \A i \in 1 .. Len(actions') : actions'[i] = actions[i + 1]
         /\ got'[g] = actions[1] /\ actions[1] \in Action
         /\ \A h \in Getters \ {g} : got'[h] = got[h]
<1>1. actions \in Seq(Action) /\ actions # <<>>
  BY DEF Leaves, TypeOK
<1>2. Len(actions) \in Nat /\ Len(actions) >= 1
  BY <1>1
<1>3. /\ Tail(actions) \in Seq(Action) /\ Len(Tail(actions)) = Len(actions) - 1
      /\ \A i \in 1 .. Len(Tail(actions)) : Tail(actions)[i] = actions[i + 1]
  BY <1>1, <1>2
<1>4. got'[g] = actions[1] /\ actions[1] \in Action /\ \A h \in Getters \ {g} : got'[h] = got[h]
  BY <1>1, <1>2 DEF Leaves, TypeOK
<1> QED BY <1>2, <1>3, <1>4 DEF Leaves

\* Precedes is transitive, and irreflexive.
LEMMA PrecedesOrder ==
  /\ \A a, b, c \in Action : Precedes(a, b) /\ Precedes(b, c) => Precedes(a, c)
  /\ \A a \in Action : ~Precedes(a, a)
BY DEF Precedes, Action

\* Every step keeps the queue in order and ahead of what was served.
LEMMA InOrderStep == TypeOK /\ InOrder /\ Answered /\ [Next]_vars => InOrder'
<1> SUFFICES ASSUME TypeOK, InOrder, Answered, [Next]_vars PROVE InOrder'
  OBVIOUS
<1>1. /\ Len(actions) \in Nat /\ latest \in Int
      /\ \A i \in 1 .. Len(actions) : actions[i] \in Action
      /\ \A g \in Getters : got[g] # None => got[g] \in Action
  <2>1. SeqNos \subseteq Int
    BY QueueAssumption DEF QueueAssumption
  <2> QED BY <2>1 DEF TypeOK
<1>2. ASSUME NEW p \in Producers, NEW chunk \in Chunk, Enters(p, chunk) PROVE InOrder'
  <2>1. /\ chunk.seq \in Nat /\ latest < chunk.seq
        /\ latest' = chunk.seq /\ got' = got
    BY <1>2, Newer DEF Enters
  <2>2. /\ Len(Kept) \in Nat /\ Len(Kept) <= Len(actions) /\ Len(actions') \in Nat
        /\ \A i \in 1 .. Len(actions') :
             \/ i <= Len(Kept) /\ actions'[i] = actions[i]
             \/ i > Len(Kept) /\ actions'[i] = [seq |-> chunk.seq, index |-> i - Len(Kept) - 1]
    BY <1>2, PublishedQueue DEF Enters
  <2>3. \A i \in 1 .. Len(actions') :
          \/ i <= Len(Kept) /\ i \in 1 .. Len(actions) /\ actions'[i] = actions[i]
             /\ actions'[i].seq < chunk.seq
          \/ i > Len(Kept) /\ actions'[i].seq = chunk.seq
             /\ actions'[i].index = i - Len(Kept) - 1
    <3> SUFFICES ASSUME NEW i \in 1 .. Len(actions')
                 PROVE  \/ i <= Len(Kept) /\ i \in 1 .. Len(actions) /\ actions'[i] = actions[i]
                           /\ actions'[i].seq < chunk.seq
                        \/ i > Len(Kept) /\ actions'[i].seq = chunk.seq
                           /\ actions'[i].index = i - Len(Kept) - 1
      OBVIOUS
    <3>1. CASE i <= Len(Kept)
      <4>1. i \in 1 .. Len(actions) /\ actions'[i] = actions[i]
        <5>1. i \in Int /\ i >= 1 /\ i <= Len(actions)
          BY <1>1, <2>2, <3>1
        <5>2. i \in 1 .. Len(actions)
          BY <1>1, <5>1
        <5>3. ~(i > Len(Kept))
          BY <2>2, <3>1, <5>1
        <5> QED BY <2>2, <5>2, <5>3
      <4>2. actions[i].seq \in Int /\ actions[i].seq <= latest
        BY <1>1, <4>1 DEF InOrder, Action
      <4> QED BY <1>1, <2>1, <3>1, <4>1, <4>2
    <3>2. CASE i > Len(Kept)
      <4>1. ~(i <= Len(Kept))
        BY <2>2, <3>2
      <4>2. actions'[i] = [seq |-> chunk.seq, index |-> i - Len(Kept) - 1]
        BY <2>2, <4>1
      <4> QED BY <3>2, <4>2
    <3> QED BY <2>2, <3>1, <3>2
  <2>4. \A i, j \in 1 .. Len(actions') : i < j => Precedes(actions'[i], actions'[j])
    <3> SUFFICES ASSUME NEW i \in 1 .. Len(actions'), NEW j \in 1 .. Len(actions'), i < j
                 PROVE  Precedes(actions'[i], actions'[j])
      OBVIOUS
    <3>1. CASE j <= Len(Kept)
      <4>1. i <= Len(Kept) /\ i \in 1 .. Len(actions) /\ j \in 1 .. Len(actions)
        BY <1>1, <2>2, <3>1
      <4>2. actions'[i] = actions[i] /\ actions'[j] = actions[j]
        BY <2>2, <2>3, <3>1, <4>1
      <4> QED BY <4>1, <4>2 DEF InOrder
    <3>2. CASE i <= Len(Kept) /\ j > Len(Kept)
      BY <2>2, <2>3, <3>2 DEF Precedes
    <3>3. CASE i > Len(Kept)
      <4>1. actions'[i].seq = chunk.seq /\ actions'[i].index = i - Len(Kept) - 1
        BY <2>2, <2>3, <3>3
      <4>2. actions'[j].seq = chunk.seq /\ actions'[j].index = j - Len(Kept) - 1
        BY <2>2, <2>3, <3>3
      <4> QED BY <2>2, <4>1, <4>2 DEF Precedes
    <3> QED BY <2>2, <3>1, <3>2, <3>3
  <2>5. \A i \in 1 .. Len(actions') : actions'[i].seq <= latest'
    <3> SUFFICES ASSUME NEW i \in 1 .. Len(actions') PROVE actions'[i].seq <= chunk.seq
      BY <2>1
    <3>1. CASE i <= Len(Kept) /\ i \in 1 .. Len(actions) /\ actions'[i] = actions[i]
               /\ actions'[i].seq < chunk.seq
      <4>1. actions'[i].seq \in Int
        BY <1>1, <3>1 DEF Action
      <4> QED BY <2>1, <3>1, <4>1
    <3>2. CASE actions'[i].seq = chunk.seq
      BY <2>1, <3>2
    <3> QED BY <2>3, <3>1, <3>2
  <2>6. ASSUME NEW g \in Getters, got'[g] # None
        PROVE  got'[g].seq <= latest' /\ \A i \in 1 .. Len(actions') : Precedes(got'[g], actions'[i])
    <3>1. got'[g] = got[g] /\ got[g].seq \in Int /\ got[g].seq <= latest
      BY <1>1, <2>1, <2>6 DEF InOrder, Action
    <3>2. got'[g].seq < chunk.seq
      BY <1>1, <2>1, <3>1
    <3> QED BY <2>1, <2>3, <2>6, <3>1, <3>2 DEF InOrder, Precedes
  <2> QED BY <2>4, <2>5, <2>6 DEF InOrder
<1>3. ASSUME NEW g \in Getters, Leaves(g) PROVE InOrder'
  <2>1. /\ Len(actions) >= 1 /\ Len(actions') = Len(actions) - 1 /\ latest' = latest
        /\ \A i \in 1 .. Len(actions') : actions'[i] = actions[i + 1] /\ i + 1 \in 1 .. Len(actions)
        /\ got'[g] = actions[1] /\ 1 \in 1 .. Len(actions)
        /\ \A h \in Getters \ {g} : got'[h] = got[h]
    <3>1. latest' = latest
      BY <1>3 DEF Leaves
    <3>2. /\ Len(actions) \in Nat /\ Len(actions) >= 1 /\ Len(actions') = Len(actions) - 1
          /\ \A i \in 1 .. Len(actions') : actions'[i] = actions[i + 1]
          /\ got'[g] = actions[1]
          /\ \A h \in Getters \ {g} : got'[h] = got[h]
      BY <1>3, LeavesQueue
    <3>3. 1 \in 1 .. Len(actions) /\ \A i \in 1 .. Len(actions') : i + 1 \in 1 .. Len(actions)
      BY <3>2
    <3> QED BY <3>1, <3>2, <3>3
  <2>2. \A i, j \in 1 .. Len(actions') : i < j => Precedes(actions'[i], actions'[j])
    BY <1>1, <2>1 DEF InOrder
  <2>3. \A i \in 1 .. Len(actions') : actions'[i].seq <= latest' /\ Precedes(got'[g], actions'[i])
    BY <1>1, <2>1 DEF InOrder
  <2>4. \A h \in Getters \ {g} : got'[h] # None =>
          got'[h].seq <= latest' /\ \A i \in 1 .. Len(actions') : Precedes(got'[h], actions'[i])
    BY <2>1 DEF InOrder
  <2>5. got'[g].seq <= latest'
    BY <2>1 DEF InOrder
  <2> QED BY <2>2, <2>3, <2>4, <2>5 DEF InOrder
<1>4. ASSUME UNCHANGED <<actions, latest, got, sent>> PROVE InOrder'
  BY <1>4 DEF InOrder
<1> QED BY <1>2, <1>3, <1>4, StreamStep

\* Every step leaves the getters that have their action alone.
LEMMA AnsweredStep == TypeOK /\ Answered /\ [Next]_vars => Answered'
<1> SUFFICES ASSUME TypeOK, Answered, [Next]_vars PROVE Answered'
  OBVIOUS
<1> USE DEF queueVars, countVars, getVars, putVars
<1>1. \A g \in Getters :
        Woken(getter)[g] = IF getter[g] = "waiting" THEN "ready" ELSE getter[g]
  <2>1. "ready" \in GetterState /\ getter \in [Getters -> GetterState]
    BY DEF GetterState, TypeOK
  <2> QED BY <2>1, WokenTyped
<1>2. ASSUME got' = got, getter' = getter \/ getter' = Woken(getter) PROVE Answered'
  BY <1>1, <1>2 DEF Answered
<1>3. ASSUME NEW p \in Producers, Put(p) \/ FinishRefill(p) PROVE Answered'
  BY <1>2, <1>3 DEF Put, FinishRefill, Settles
<1>4. ASSUME NEW p \in Producers,
             \/ Acquire(p) \/ Claim(p) \/ AwaitRefill(p) \/ Release(p) \/ ProducerCancelled(p)
      PROVE  Answered'
  BY <1>2, <1>4 DEF Acquire, Claim, AwaitRefill, Release, ProducerCancelled, Settles
<1>5. ASSUME NEW g \in Getters, getter[g] # "got", NEW state,
             got' = got, getter' = [getter EXCEPT ![g] = state]
      PROVE  Answered'
  BY <1>5 DEF Answered, TypeOK
<1>6. ASSUME NEW g \in Getters, Pop(g) PROVE Answered'
  <2>1. getter' = [Woken(getter) EXCEPT ![g] = "got"] /\ got' = [got EXCEPT ![g] = Head(actions)]
    BY <1>6 DEF Pop
  <2>2. /\ \A h \in Getters \ {g} : getter'[h] = Woken(getter)[h] /\ got'[h] = got[h]
        /\ getter'[g] = "got"
    BY <2>1 DEF TypeOK, Woken
  <2> QED BY <1>1, <2>2 DEF Answered
<1>7. ASSUME NEW g \in Getters,
             GetNowait(g) \/ Get(g) \/ TryGet(g) \/ Timeout(g) \/ TimedOut(g) \/ GetCancelled(g)
      PROVE  Answered'
  <2>1. getter[g] # "got"
    BY <1>7 DEF GetNowait, Get, TryGet, Timeout, TimedOut, GetCancelled
  <2>2. Pop(g) \/ Underrun(g) \/ Get(g) \/ \E state : Turns(g, state)
    BY <1>7 DEF GetNowait, TryGet, Timeout, TimedOut, GetCancelled
  <2> QED BY <1>5, <1>6, <2>1, <2>2 DEF Underrun, Get, Turns
<1>8. ASSUME Close \/ UNCHANGED vars PROVE Answered'
  BY <1>2, <1>8 DEF Close, vars
<1> QED BY <1>3, <1>4, <1>7, <1>8 DEF Next

-----------------------------------------------------------------------------
(* The handoff.                                                             *)

\* With "append" a chunk that enters is queued behind all that is queued.
LEMMA AppendsAll ==
  ASSUME TypeOK, NEW p \in Producers, NEW chunk \in Chunk, Enters(p, chunk), ~Replaces
  PROVE  Published' \subseteq Published \cup Queued' /\ Queued \subseteq Queued'
<1>1. /\ Len(actions) \in Nat /\ chunk.size \in Nat
      /\ Kept = actions /\ Len(actions') = Len(actions) + chunk.size
  <2>1. Kept = actions /\ Accepts(chunk) /\ actions' = Kept \o ActionsOf(chunk)
    BY DEF Enters, Kept
  <2>2. Len(actions) \in Nat
    BY DEF TypeOK
  <2>3. chunk.size \in Nat
    BY <2>1, Newer
  <2>4. Len(actions') = Len(Kept) + chunk.size
    BY <2>1, PublishedQueue
  <2> QED BY <2>1, <2>2, <2>3, <2>4
<1>2. \A i \in 1 .. Len(actions') :
        \/ i <= Len(actions) /\ actions'[i] = actions[i]
        \/ i > Len(actions) /\ actions'[i] = [seq |-> chunk.seq, index |-> i - Len(actions) - 1]
  BY <1>1, PublishedQueue DEF Enters
<1>3. ASSUME NEW i \in 1 .. Len(actions)
      PROVE  i \in 1 .. Len(actions') /\ actions'[i] = actions[i]
  <2>1. i \in 1 .. Len(actions') /\ ~(i > Len(actions))
    BY <1>1
  <2> QED BY <1>2, <2>1
<1>4. ASSUME NEW i \in 1 .. chunk.size
      PROVE  \E j \in 1 .. Len(actions') : actions'[j] = ActionsOf(chunk)[i]
  <2>1. Len(actions) + i \in 1 .. Len(actions') /\ ~(Len(actions) + i <= Len(actions))
    BY <1>1
  <2>2. (Len(actions) + i) - Len(actions) - 1 = i - 1
    BY <1>1
  <2>3. actions'[Len(actions) + i] = [seq |-> chunk.seq, index |-> i - 1]
    BY <1>2, <2>1, <2>2
  <2> QED BY <2>1, <2>3 DEF ActionsOf
<1>5. sent'[p] = chunk /\ \A q \in Accepted : q # p /\ sent'[q] = sent[q]
  BY DEF Enters, Accepted, TypeOK
<1>6. ASSUME NEW a \in Published' PROVE a \in Published \cup Queued'
  <2>1. PICK q \in Accepted' : \E i \in 1 .. sent'[q].size : a = ActionsOf(sent'[q])[i]
    BY DEF Published
  <2>2. CASE q = p
    BY <1>4, <1>5, <2>1, <2>2 DEF Queued
  <2>3. CASE q \in Accepted
    BY <1>5, <2>1, <2>3 DEF Published
  <2> QED BY <2>2, <2>3 DEF Enters
<1>7. Queued \subseteq Queued'
  BY <1>3 DEF Queued
<1> QED BY <1>6, <1>7

\* Every step keeps the handoff policy.
LEMMA HandoffStep == TypeOK /\ Answered /\ HandoffOK /\ [Next]_vars => HandoffOK'
<1> SUFFICES ASSUME TypeOK, Answered, HandoffOK, [Next]_vars PROVE HandoffOK'
  OBVIOUS
<1>1. config' = config /\ (Replaces' <=> Replaces)
  BY StreamStep DEF Replaces
<1>2. ASSUME NEW p \in Producers, NEW chunk \in Chunk, Enters(p, chunk) PROVE HandoffOK'
  <2>1. CASE Replaces
    <3>1. Kept = <<>> /\ Len(Kept) = 0 /\ latest' = chunk.seq
      BY <1>2, <2>1 DEF Enters, Kept
    <3>2. Len(actions') \in Nat /\ \A i \in 1 .. Len(actions') :
            \/ i <= Len(Kept) /\ actions'[i] = actions[i]
            \/ i > Len(Kept) /\ actions'[i] = [seq |-> chunk.seq, index |-> i - Len(Kept) - 1]
      <4>1. Accepts(chunk) /\ actions' = Kept \o ActionsOf(chunk)
        BY <1>2 DEF Enters
      <4>2. actions' \in Seq(Action)
        BY <4>1, PublishedQueue
      <4>3. Len(actions') \in Nat
        BY <4>2
      <4> QED BY <4>1, <4>3, PublishedQueue
    <3>3. \A i \in 1 .. Len(actions') : actions'[i].seq = latest'
      <4> SUFFICES ASSUME NEW i \in 1 .. Len(actions') PROVE actions'[i].seq = chunk.seq
        BY <3>1
      <4>1. ~(i <= Len(Kept))
        BY <3>1, <3>2
      <4>2. actions'[i] = [seq |-> chunk.seq, index |-> i - Len(Kept) - 1]
        BY <3>2, <4>1
      <4> QED BY <4>2
    <3> QED BY <1>1, <2>1, <3>3 DEF HandoffOK
  <2>2. CASE ~Replaces
    <3>1. Given' = Given
      BY <1>2 DEF Enters, Given
    <3> QED BY <1>1, <1>2, <2>2, <3>1, AppendsAll DEF HandoffOK
  <2> QED BY <2>1, <2>2
<1>3. ASSUME NEW g \in Getters, Leaves(g) PROVE HandoffOK'
  <2>1. /\ Len(actions) \in Nat /\ Len(actions) >= 1 /\ Len(actions') = Len(actions) - 1
        /\ \A i \in 1 .. Len(actions') : actions'[i] = actions[i + 1]
        /\ got'[g] = actions[1] /\ actions[1] \in Action
        /\ \A h \in Getters \ {g} : got'[h] = got[h]
    BY <1>3, LeavesQueue
  <2>2. \A i \in 1 .. Len(actions') : i + 1 \in 1 .. Len(actions)
    BY <2>1
  <2>3. CASE Replaces
    BY <1>1, <1>3, <2>1, <2>2, <2>3 DEF HandoffOK, Leaves
  <2>4. CASE ~Replaces
    <3>1. Published' = Published
      BY <1>3 DEF Published, Leaves
    <3>2. Given \subseteq Given'
      BY <1>3, <2>1 DEF Given, Leaves
    <3>3. actions[1] \in Given'
      <4>1. actions[1] # None
        BY <2>1, QueueAssumption DEF QueueAssumption, Action
      <4> QED BY <2>1, <4>1 DEF Given
    <3>4. Queued \subseteq Queued' \cup {actions[1]}
      <4> SUFFICES ASSUME NEW i \in 1 .. Len(actions), i # 1
                   PROVE  \E j \in 1 .. Len(actions') : actions'[j] = actions[i]
        BY DEF Queued
      <4>1. i - 1 \in 1 .. Len(actions') /\ (i - 1) + 1 = i
        BY <2>1
      <4>2. actions'[i - 1] = actions[(i - 1) + 1]
        BY <2>1, <4>1
      <4> QED BY <4>1, <4>2
    <3> QED BY <1>1, <2>4, <3>1, <3>2, <3>3, <3>4 DEF HandoffOK
  <2> QED BY <2>3, <2>4
<1>4. ASSUME UNCHANGED <<actions, latest, got, sent>>, Accepted' = Accepted PROVE HandoffOK'
  <2>1. Published' = Published
    BY <1>4 DEF Published
  <2>2. Given' = Given /\ Queued' = Queued
    BY <1>4 DEF Given, Queued
  <2> QED BY <1>1, <1>4, <2>1, <2>2 DEF HandoffOK
<1> QED BY <1>2, <1>3, <1>4, StreamStep

-----------------------------------------------------------------------------
(* The theorems.                                                            *)

\* The invariant is inductive.
LEMMA NextIInv == IInv /\ [Next]_vars => IInv'
BY TypeStep, OneRefillStep, SleepStep, InOrderStep, HandoffStep, AnsweredStep DEF IInv

\* The inductive invariant holds in every reachable state of the queue.
THEOREM Invariant == Spec => []IInv
BY InitIInv, NextIInv, PTL DEF Spec

\* Every field of the queue, and every caller, keeps its type.
THEOREM TypeCorrect == Spec => []TypeOK
<1>1. IInv => TypeOK
  BY DEF IInv
<1> QED BY <1>1, Invariant, PTL

\* However many producers ask, fail or are cancelled, at most one holds the
\* refill slot, and the queue's flag says whether one does
\* (acquire_refill(), finish_refill()).
THEOREM OneRefillAlways == Spec => []OneRefill
<1>1. IInv => OneRefill
  BY DEF IInv
<1> QED BY <1>1, Invariant, PTL

\* No caller ever sleeps next to what it waits for (get(), acquire_refill(),
\* and the notify_all() of everything that changes the queue).
THEOREM NoLostWakeUp == Spec => []NobodySleepsOnWork
<1>1. IInv => NobodySleepsOnWork
  BY DEF IInv
<1> QED BY <1>1, Invariant, PTL

\* Whatever is served comes after everything served before (_put_locked(),
\* _pop_locked()).
THEOREM NeverGoesBack == Spec => ServedInOrder
<1>1. IInv /\ [Next]_vars =>
        [\A g, h \in Getters : Serves(g) /\ got[h] # None => Precedes(got[h], got'[g])]_vars
  <2> SUFFICES ASSUME IInv, [Next]_vars, NEW g \in Getters, NEW h \in Getters,
                      Serves(g), got[h] # None
               PROVE  Precedes(got[h], got'[g])
    OBVIOUS
  <2>1. TypeOK /\ Answered /\ InOrder
    BY DEF IInv
  <2>2. PICK k \in Getters : Leaves(k)
    BY <2>1, StreamStep DEF Serves, Enters
  <2>3. k = g
    BY <2>1, <2>2 DEF Serves, Leaves, TypeOK
  <2>4. got'[g] = actions[1] /\ 1 \in 1 .. Len(actions)
    BY <2>1, <2>2, <2>3, LeavesQueue
  <2> QED BY <2>1, <2>4 DEF InOrder
<1> QED BY <1>1, Invariant, PTL DEF Spec, ServedInOrder

\* What is served is of the newest chunk if the policy is "replace", and the
\* oldest action not yet served if it is "append" (_put_locked()).
THEOREM HandoffHonoured == Spec => HandoffKept
<1>1. IInv /\ [Next]_vars =>
        [\A g \in Getters : Serves(g) =>
           IF Replaces THEN got'[g].seq = latest
           ELSE \A a \in Published : Precedes(a, got'[g]) => a \in Given]_vars
  <2> SUFFICES ASSUME IInv, [Next]_vars, NEW g \in Getters, Serves(g)
               PROVE  IF Replaces THEN got'[g].seq = latest
                      ELSE \A a \in Published : Precedes(a, got'[g]) => a \in Given
    OBVIOUS
  <2>1. TypeOK /\ Answered /\ InOrder /\ HandoffOK
    BY DEF IInv
  <2>2. PICK k \in Getters : Leaves(k)
    BY <2>1, StreamStep DEF Serves, Enters
  <2>3. k = g
    BY <2>1, <2>2 DEF Serves, Leaves, TypeOK
  <2>4. Len(actions) \in Nat /\ Len(actions) >= 1 /\ got'[g] = actions[1]
    BY <2>1, <2>2, <2>3, LeavesQueue
  <2>5. CASE Replaces
    BY <2>1, <2>4, <2>5 DEF HandoffOK
  <2>6. CASE ~Replaces
    <3> SUFFICES ASSUME NEW a \in Published, Precedes(a, actions[1]), a \notin Given
                 PROVE  FALSE
      BY <2>4, <2>6
    <3>1. PICK i \in 1 .. Len(actions) : a = actions[i]
      BY <2>1, <2>6 DEF HandoffOK, Queued
    <3>2. actions[i] \in Action /\ actions[1] \in Action
      BY <2>1, <2>4 DEF TypeOK
    <3>3. i = 1 \/ Precedes(actions[1], actions[i])
      BY <2>1, <2>4 DEF InOrder
    <3> QED BY <3>1, <3>2, <3>3, PrecedesOrder
  <2> QED BY <2>5, <2>6
<1> QED BY <1>1, Invariant, PTL DEF Spec, HandoffKept

-----------------------------------------------------------------------------
(* Conservation.                                                            *)

\* A set counted by n gains one member, or none.
Tells(n, S, m, T) ==
  \/ m = n /\ T = S
  \/ m = n + 1 /\ \E x : x \notin S /\ T = S \cup {x}

Counted(n, S) == IsFiniteSet(S) /\ n = Cardinality(S)

\* A counter that goes up with its set still counts it.
LEMMA CountsOn ==
  ASSUME NEW n, NEW S, NEW m, NEW T, Counted(n, S), Tells(n, S, m, T)
  PROVE  Counted(m, T)
<1>1. CASE m = n /\ T = S
  BY <1>1 DEF Counted
<1>2. ASSUME NEW x, x \notin S, T = S \cup {x}, m = n + 1 PROVE Counted(m, T)
  BY <1>2, FS_AddElement DEF Counted
<1> QED BY <1>1, <1>2 DEF Tells

\* Whoever ends a call was counted nowhere, and is counted where it ends.
LEMMA OneEnds ==
  ASSUME NEW S, NEW T, NEW state \in [S -> T], "ready" \in T, NEW next,
         NEW x \in S, NEW v,
         next = [state EXCEPT ![x] = v] \/ next = [Woken(state) EXCEPT ![x] = v]
  PROVE  \A s : s \notin {"waiting", "ready", state[x]} =>
           {y \in S : next[y] = s} = {y \in S : state[y] = s} \cup IF v = s THEN {x} ELSE {}
<1> SUFFICES ASSUME NEW s, s \notin {"waiting", "ready", state[x]}
             PROVE  {y \in S : next[y] = s} =
                      {y \in S : state[y] = s} \cup IF v = s THEN {x} ELSE {}
  OBVIOUS
<1>1. /\ Woken(state) \in [S -> T]
      /\ \A y \in S : Woken(state)[y] = IF state[y] = "waiting" THEN "ready" ELSE state[y]
  BY WokenTyped
<1>2. next[x] = v /\ \A y \in S \ {x} : next[y] = state[y] \/ next[y] = Woken(state)[y]
  BY <1>1
<1>3. \A y \in S \ {x} : next[y] = s <=> state[y] = s
  BY <1>1, <1>2
<1> QED BY <1>2, <1>3

\* Nobody ends a call by being woken.
LEMMA NoneEnds ==
  ASSUME NEW S, NEW T, NEW state \in [S -> T], "ready" \in T, NEW next,
         next = state \/ next = Woken(state)
  PROVE  \A s : s \notin {"waiting", "ready"} =>
           {y \in S : next[y] = s} = {y \in S : state[y] = s}
BY WokenTyped

Ended(state, s) == {x \in DOMAIN state : state[x] = s}

\* The counters of the producers follow their calls.
LEMMA ProducersTell ==
  ASSUME TypeOK, [Next]_vars
  PROVE  /\ Tells(accepted, Ended(producer, "accepted"), accepted', Ended(producer', "accepted"))
         /\ Tells(rejected, Ended(producer, "rejected"), rejected', Ended(producer', "rejected"))
<1> USE DEF queueVars, countVars, getVars, putVars
<1> DEFINE Goal ==
      /\ Tells(accepted, Ended(producer, "accepted"), accepted', Ended(producer', "accepted"))
      /\ Tells(rejected, Ended(producer, "rejected"), rejected', Ended(producer', "rejected"))
<1>1. producer \in [Producers -> ProducerState] /\ producer' \in [Producers -> ProducerState]
      /\ "ready" \in ProducerState
  BY TypeStep DEF TypeOK, ProducerState
<1>2. /\ \A s : Ended(producer, s) = {y \in Producers : producer[y] = s}
      /\ \A s : Ended(producer', s) = {y \in Producers : producer'[y] = s}
  BY <1>1 DEF Ended
<1>3. ASSUME producer' = producer \/ producer' = Woken(producer), UNCHANGED <<accepted, rejected>>
      PROVE  Goal
  <2>1. \A s : s \notin {"waiting", "ready"} =>
          {y \in Producers : producer'[y] = s} = {y \in Producers : producer[y] = s}
    BY <1>1, <1>3, NoneEnds
  <2> QED BY <1>2, <1>3, <2>1 DEF Tells
<1>4. ASSUME NEW p \in Producers, producer[p] \notin {"accepted", "rejected"}, NEW v,
             \/ producer' = [producer EXCEPT ![p] = v]
             \/ producer' = [Woken(producer) EXCEPT ![p] = v],
             accepted' = accepted + (IF v = "accepted" THEN 1 ELSE 0),
             rejected' = rejected + (IF v = "rejected" THEN 1 ELSE 0)
      PROVE  Goal
  <2>1. \A s : s \notin {"waiting", "ready", producer[p]} =>
          {y \in Producers : producer'[y] = s} =
            {y \in Producers : producer[y] = s} \cup IF v = s THEN {p} ELSE {}
    BY <1>1, <1>4, OneEnds
  <2>2. /\ "accepted" \notin {"waiting", "ready", producer[p]}
        /\ "rejected" \notin {"waiting", "ready", producer[p]}
    BY <1>4
  <2>3. accepted \in Nat /\ rejected \in Nat
    BY DEF TypeOK
  <2>4. Tells(accepted, Ended(producer, "accepted"), accepted', Ended(producer', "accepted"))
    <3>1. /\ Ended(producer', "accepted")
               = Ended(producer, "accepted") \cup IF v = "accepted" THEN {p} ELSE {}
          /\ p \notin Ended(producer, "accepted")
      BY <1>2, <2>1, <2>2
    <3>2. accepted' = IF v = "accepted" THEN accepted + 1 ELSE accepted
      BY <1>4, <2>3
    <3> QED BY <3>1, <3>2 DEF Tells
  <2>5. Tells(rejected, Ended(producer, "rejected"), rejected', Ended(producer', "rejected"))
    <3>1. /\ Ended(producer', "rejected")
               = Ended(producer, "rejected") \cup IF v = "rejected" THEN {p} ELSE {}
          /\ p \notin Ended(producer, "rejected")
      BY <1>2, <2>1, <2>2
    <3>2. rejected' = IF v = "rejected" THEN rejected + 1 ELSE rejected
      BY <1>4, <2>3
    <3> QED BY <3>1, <3>2 DEF Tells
  <2> QED BY <2>4, <2>5
<1>5. ASSUME NEW p \in Producers, NEW chunk \in Chunk, Publish(p, chunk),
             Settles(p, Verdict(chunk)), producer[p] \notin {"accepted", "rejected"}
      PROVE  Goal
  <2>1. CASE Accepts(chunk)
    <3>1. /\ producer' = [Woken(producer) EXCEPT ![p] = "accepted"]
          /\ accepted' = accepted + 1 /\ rejected' = rejected + 0
      BY <1>5, <2>1 DEF Publish, Settles, Verdict, TypeOK
    <3> QED BY <1>4, <1>5, <3>1
  <2>2. CASE ~Accepts(chunk)
    <3>1. /\ producer' = [Woken(producer) EXCEPT ![p] = "rejected"]
          /\ accepted' = accepted + 0 /\ rejected' = rejected + 1
      BY <1>5, <2>2 DEF Publish, Settles, Verdict, TypeOK
    <3> QED BY <1>4, <1>5, <3>1
  <2> QED BY <2>1, <2>2
<1>6. ASSUME NEW p \in Producers, producer[p] \notin {"accepted", "rejected"}, NEW v,
             v \notin {"accepted", "rejected"},
             \/ producer' = [producer EXCEPT ![p] = v]
             \/ producer' = [Woken(producer) EXCEPT ![p] = v],
             UNCHANGED <<accepted, rejected>>
      PROVE  Goal
  <2>1. accepted' = accepted + 0 /\ rejected' = rejected + 0
    BY <1>6 DEF TypeOK
  <2> QED BY <1>4, <1>6, <2>1
<1>7. ASSUME NEW p \in Producers, Put(p) \/ FinishRefill(p) PROVE Goal
  <2>1. producer[p] \notin {"accepted", "rejected"}
    BY <1>7 DEF Put, FinishRefill
  <2>2. CASE closed
    BY <1>6, <1>7, <2>1, <2>2 DEF Put, FinishRefill
  <2>3. CASE ~closed
    BY <1>5, <1>7, <2>1, <2>3 DEF Put, FinishRefill
  <2> QED BY <2>2, <2>3
<1>8. ASSUME NEW p \in Producers,
             Acquire(p) \/ Claim(p) \/ AwaitRefill(p) \/ Release(p) \/ ProducerCancelled(p)
      PROVE  Goal
  <2>1. PICK v \in {"ready", "holding", "refused", "waiting", "released", "lost", "cancelled"} :
          \/ producer' = [producer EXCEPT ![p] = v]
          \/ producer' = [Woken(producer) EXCEPT ![p] = v]
    BY <1>8 DEF Acquire, Claim, AwaitRefill, Release, ProducerCancelled, Settles
  <2>2. producer[p] \notin {"accepted", "rejected"} /\ UNCHANGED <<accepted, rejected>>
    BY <1>8 DEF Acquire, Claim, AwaitRefill, Release, ProducerCancelled
  <2> QED BY <1>6, <2>1, <2>2
<1>9. ASSUME NEW g \in Getters,
             GetNowait(g) \/ Get(g) \/ TryGet(g) \/ Timeout(g) \/ TimedOut(g) \/ GetCancelled(g)
      PROVE  Goal
  <2>1. Pop(g) \/ Underrun(g) \/ Get(g) \/ \E state : Turns(g, state)
    BY <1>9 DEF GetNowait, TryGet, Timeout, TimedOut, GetCancelled
  <2> QED BY <1>3, <2>1 DEF Pop, Underrun, Get, Turns
<1>10. ASSUME Close \/ UNCHANGED vars PROVE Goal
  BY <1>3, <1>10 DEF Close, vars
<1> QED BY <1>7, <1>8, <1>9, <1>10 DEF Next

\* So do those of the getters.
LEMMA GettersTell ==
  ASSUME TypeOK, [Next]_vars
  PROVE  /\ Tells(served, Ended(getter, "got"), served', Ended(getter', "got"))
         /\ Tells(underruns, Ended(getter, "empty"), underruns', Ended(getter', "empty"))
<1> USE DEF queueVars, countVars, getVars, putVars
<1> DEFINE Goal ==
      /\ Tells(served, Ended(getter, "got"), served', Ended(getter', "got"))
      /\ Tells(underruns, Ended(getter, "empty"), underruns', Ended(getter', "empty"))
<1>1. getter \in [Getters -> GetterState] /\ getter' \in [Getters -> GetterState]
      /\ "ready" \in GetterState
  BY TypeStep DEF TypeOK, GetterState
<1>2. /\ \A s : Ended(getter, s) = {y \in Getters : getter[y] = s}
      /\ \A s : Ended(getter', s) = {y \in Getters : getter'[y] = s}
  BY <1>1 DEF Ended
<1>3. ASSUME getter' = getter \/ getter' = Woken(getter), UNCHANGED <<served, underruns>>
      PROVE  Goal
  <2>1. \A s : s \notin {"waiting", "ready"} =>
          {y \in Getters : getter'[y] = s} = {y \in Getters : getter[y] = s}
    BY <1>1, <1>3, NoneEnds
  <2> QED BY <1>2, <1>3, <2>1 DEF Tells
<1>4. ASSUME NEW g \in Getters, getter[g] \notin {"got", "empty"}, NEW v,
             \/ getter' = [getter EXCEPT ![g] = v]
             \/ getter' = [Woken(getter) EXCEPT ![g] = v],
             served' = served + (IF v = "got" THEN 1 ELSE 0),
             underruns' = underruns + (IF v = "empty" THEN 1 ELSE 0)
      PROVE  Goal
  <2>1. \A s : s \notin {"waiting", "ready", getter[g]} =>
          {y \in Getters : getter'[y] = s} =
            {y \in Getters : getter[y] = s} \cup IF v = s THEN {g} ELSE {}
    BY <1>1, <1>4, OneEnds
  <2>2. "got" \notin {"waiting", "ready", getter[g]} /\ "empty" \notin {"waiting", "ready", getter[g]}
    BY <1>4
  <2>3. served \in Nat /\ underruns \in Nat
    BY DEF TypeOK
  <2>4. Tells(served, Ended(getter, "got"), served', Ended(getter', "got"))
    <3>1. /\ Ended(getter', "got") = Ended(getter, "got") \cup IF v = "got" THEN {g} ELSE {}
          /\ g \notin Ended(getter, "got")
      BY <1>2, <2>1, <2>2
    <3>2. served' = IF v = "got" THEN served + 1 ELSE served
      BY <1>4, <2>3
    <3> QED BY <3>1, <3>2 DEF Tells
  <2>5. Tells(underruns, Ended(getter, "empty"), underruns', Ended(getter', "empty"))
    <3>1. /\ Ended(getter', "empty") = Ended(getter, "empty") \cup IF v = "empty" THEN {g} ELSE {}
          /\ g \notin Ended(getter, "empty")
      BY <1>2, <2>1, <2>2
    <3>2. underruns' = IF v = "empty" THEN underruns + 1 ELSE underruns
      BY <1>4, <2>3
    <3> QED BY <3>1, <3>2 DEF Tells
  <2> QED BY <2>4, <2>5
<1>5. ASSUME NEW p \in Producers, Put(p) \/ FinishRefill(p) PROVE Goal
  BY <1>3, <1>5 DEF Put, FinishRefill, Settles
<1>6. ASSUME NEW p \in Producers,
             Acquire(p) \/ Claim(p) \/ AwaitRefill(p) \/ Release(p) \/ ProducerCancelled(p)
      PROVE  Goal
  BY <1>3, <1>6 DEF Acquire, Claim, AwaitRefill, Release, ProducerCancelled, Settles
<1>7. ASSUME NEW g \in Getters, getter[g] \notin {"got", "empty"}, Pop(g) PROVE Goal
  <2>1. /\ getter' = [Woken(getter) EXCEPT ![g] = "got"]
        /\ served' = served + 1 /\ underruns' = underruns + 0
    BY <1>7 DEF Pop, TypeOK
  <2> QED BY <1>4, <1>7, <2>1
<1>8. ASSUME NEW g \in Getters, getter[g] \notin {"got", "empty"}, Underrun(g) PROVE Goal
  <2>1. /\ getter' = [getter EXCEPT ![g] = "empty"]
        /\ served' = served + 0 /\ underruns' = underruns + 1
    BY <1>8 DEF Underrun, TypeOK
  <2> QED BY <1>4, <1>8, <2>1
<1>9. ASSUME NEW g \in Getters, getter[g] \notin {"got", "empty"},
             NEW v, v \notin {"got", "empty"}, Turns(g, v) \/ (v = "ready" /\ Get(g))
      PROVE  Goal
  <2>1. /\ getter' = [getter EXCEPT ![g] = v]
        /\ served' = served + 0 /\ underruns' = underruns + 0
    BY <1>9 DEF Turns, Get, TypeOK
  <2> QED BY <1>4, <1>9, <2>1
<1>10. ASSUME NEW g \in Getters,
              GetNowait(g) \/ Get(g) \/ TryGet(g) \/ Timeout(g) \/ TimedOut(g) \/ GetCancelled(g)
       PROVE  Goal
  <2>1. getter[g] \notin {"got", "empty"}
    BY <1>10 DEF GetNowait, Get, TryGet, Timeout, TimedOut, GetCancelled
  <2>2. \/ Pop(g) \/ Underrun(g) \/ Get(g)
        \/ \E v : v \notin {"got", "empty"} /\ Turns(g, v)
    BY <1>10 DEF GetNowait, TryGet, Timeout, TimedOut, GetCancelled
  <2> HIDE DEF Goal
  <2> QED BY <1>7, <1>8, <1>9, <2>1, <2>2
<1>11. ASSUME Close \/ UNCHANGED vars PROVE Goal
  BY <1>3, <1>11 DEF Close, vars
<1> QED BY <1>5, <1>6, <1>10, <1>11 DEF Next

\* What each counter counts.
CountedOK ==
  /\ Counted(accepted, Ended(producer, "accepted"))
  /\ Counted(rejected, Ended(producer, "rejected"))
  /\ Counted(served, Ended(getter, "got"))
  /\ Counted(underruns, Ended(getter, "empty"))

\* The counters of snapshot() agree with what the callers were told, however many
\* of them there are.
THEOREM CountersAreRight == Spec => []CountersAgree
<1>1. Init => CountedOK
  <2> SUFFICES ASSUME Init PROVE CountedOK
    OBVIOUS
  <2>1. /\ Ended(producer, "accepted") = {} /\ Ended(producer, "rejected") = {}
        /\ Ended(getter, "got") = {} /\ Ended(getter, "empty") = {}
    BY DEF Init, Ended
  <2>2. accepted = 0 /\ rejected = 0 /\ served = 0 /\ underruns = 0
    BY DEF Init
  <2> QED BY <2>1, <2>2, FS_EmptySet DEF CountedOK, Counted
<1>2. TypeOK /\ CountedOK /\ [Next]_vars => CountedOK'
  <2> SUFFICES ASSUME TypeOK, CountedOK, [Next]_vars PROVE CountedOK'
    OBVIOUS
  <2>1. /\ Counted(accepted', Ended(producer', "accepted"))
        /\ Counted(rejected', Ended(producer', "rejected"))
    BY ProducersTell, CountsOn DEF CountedOK
  <2>2. /\ Counted(served', Ended(getter', "got"))
        /\ Counted(underruns', Ended(getter', "empty"))
    BY GettersTell, CountsOn DEF CountedOK
  <2> QED BY <2>1, <2>2 DEF CountedOK, Counted, Ended
<1>3. TypeOK /\ CountedOK => CountersAgree
  BY DEF TypeOK, CountedOK, Counted, CountersAgree, Ended, Accepted
<1> QED BY <1>1, <1>2, <1>3, TypeCorrect, PTL DEF Spec

\* A sequence of different values has as many values as it has places.
LEMMA ImageSize ==
  ASSUME NEW n \in Nat, NEW f, \A i, j \in 1 .. n : f[i] = f[j] => i = j,
         NEW S, \A x : x \in S <=> \E i \in 1 .. n : x = f[i]
  PROVE  IsFiniteSet(S) /\ Cardinality(S) = n
<1> DEFINE b == [i \in 1 .. n |-> f[i]]
<1>1. b \in Injection(1 .. n, S)
  BY DEF Injection, IsInjective
<1>2. b \in Surjection(1 .. n, S)
  BY DEF Surjection
<1>3. ExistsBijection(1 .. n, S)
  BY <1>1, <1>2 DEF ExistsBijection, Bijection
<1>4. IsFiniteSet(1 .. n) /\ Cardinality(1 .. n) = n
  BY FS_Interval
<1> QED BY <1>3, <1>4, FS_Bijection

Slots(chunk) == {ActionsOf(chunk)[i] : i \in 1 .. chunk.size}

\* An accepted chunk has as many actions as its size, all of its own number.
LEMMA SlotsOf ==
  ASSUME TypeOK, NEW chunk \in Chunk, Accepts(chunk)
  PROVE  /\ Counted(chunk.size, Slots(chunk))
         /\ \A a \in Slots(chunk) : a.seq = chunk.seq
<1>1. chunk.size \in Nat
  BY Newer
<1>2. \A i, j \in 1 .. chunk.size : ActionsOf(chunk)[i] = ActionsOf(chunk)[j] => i = j
  BY <1>1 DEF ActionsOf
<1>3. \A a \in Slots(chunk) : a.seq = chunk.seq
  <2> SUFFICES ASSUME NEW i \in 1 .. chunk.size PROVE ActionsOf(chunk)[i].seq = chunk.seq
    BY DEF Slots
  <2> QED BY DEF ActionsOf
<1>4. \A a : a \in Slots(chunk) <=> \E i \in 1 .. chunk.size : a = ActionsOf(chunk)[i]
  BY DEF Slots
<1>5. IsFiniteSet(Slots(chunk)) /\ Cardinality(Slots(chunk)) = chunk.size
  BY <1>1, <1>2, <1>4, ImageSize
<1> QED BY <1>3, <1>5 DEF Counted

\* The published actions are as many as were served, replaced and are queued; they
\* are not newer than the newest chunk; and only they are served or queued.
ConservedOK ==
  /\ Counted(served + replaced + Len(actions), Published)
  /\ \A a \in Published : a.seq \in Nat /\ a.seq <= latest
  /\ Given \cup Queued \subseteq Published

\* A chunk that enters publishes its actions, which are newer than all others.
LEMMA ConservedOnEnter ==
  ASSUME TypeOK, ConservedOK, NEW p \in Producers, NEW chunk \in Chunk, Enters(p, chunk)
  PROVE  ConservedOK'
<1>1. /\ chunk.seq \in Nat /\ chunk.size \in Nat /\ latest \in Int /\ latest < chunk.seq
      /\ latest' = chunk.seq
  BY Newer DEF Enters
<1>2. /\ Kept \in Seq(Action) /\ Len(actions') = Len(Kept) + chunk.size
      /\ \A i \in 1 .. Len(Kept) : Kept[i] = actions[i]
      /\ Len(Kept) <= Len(actions) /\ actions' \in Seq(Action)
      /\ \A i \in 1 .. Len(actions') :
           \/ i <= Len(Kept) /\ actions'[i] = actions[i]
           \/ i > Len(Kept) /\ actions'[i] = [seq |-> chunk.seq, index |-> i - Len(Kept) - 1]
  BY PublishedQueue DEF Enters
<1>3. Published' = Published \cup Slots(chunk)
  <2>1. sent'[p] = chunk /\ \A q \in Accepted : q # p /\ sent'[q] = sent[q]
    BY DEF Enters, Accepted, TypeOK
  <2>2. \A a : a \in Published' <=> \E q \in Accepted' : a \in Slots(sent'[q])
    BY DEF Published, Slots
  <2>3. \A a : a \in Published <=> \E q \in Accepted : a \in Slots(sent[q])
    BY DEF Published, Slots
  <2>4. \A a : a \in Published' <=> a \in Published \/ a \in Slots(chunk)
    BY <2>1, <2>2, <2>3 DEF Enters
  <2> QED BY <2>4
<1>4. /\ Counted(chunk.size, Slots(chunk)) /\ \A a \in Slots(chunk) : a.seq = chunk.seq
  BY SlotsOf DEF Enters
<1>5. \A a \in Published : a.seq \in Nat /\ a.seq <= latest
  BY DEF ConservedOK
<1>6. Published \cap Slots(chunk) = {}
  BY <1>1, <1>4, <1>5
<1>7. Counted(served + replaced + Len(actions) + chunk.size, Published \cup Slots(chunk))
  <2>1. /\ IsFiniteSet(Published) /\ IsFiniteSet(Slots(chunk))
        /\ Cardinality(Published) = served + replaced + Len(actions)
        /\ Cardinality(Slots(chunk)) = chunk.size
    BY <1>4 DEF ConservedOK, Counted
  <2>2. /\ IsFiniteSet(Published \cup Slots(chunk))
        /\ Cardinality(Published \cup Slots(chunk)) =
             Cardinality(Published) + Cardinality(Slots(chunk))
               - Cardinality(Published \cap Slots(chunk))
    BY <2>1, FS_Union
  <2>3. Cardinality(Published \cap Slots(chunk)) = 0
    BY <1>6, FS_EmptySet
  <2>4. served \in Nat /\ replaced \in Nat /\ Len(actions) \in Nat
    BY DEF TypeOK
  <2> QED BY <1>1, <2>1, <2>2, <2>3, <2>4 DEF Counted
<1>8. served' + replaced' + Len(actions') = served + replaced + Len(actions) + chunk.size
  <2>1. served \in Nat /\ replaced \in Nat /\ Len(actions) \in Nat
    BY DEF TypeOK
  <2>2. served' = served /\ replaced' = replaced + IF Replaces THEN Len(actions) ELSE 0
    BY DEF Enters
  <2>3. CASE Replaces
    <3>1. Len(Kept) = 0
      BY <2>3 DEF Kept
    <3> QED BY <1>1, <1>2, <2>1, <2>2, <2>3, <3>1
  <2>4. CASE ~Replaces
    <3>1. Len(Kept) = Len(actions)
      BY <2>4 DEF Kept
    <3>2. replaced' = replaced
      BY <2>1, <2>2, <2>4
    <3>3. Len(actions') = Len(actions) + chunk.size
      BY <1>2, <3>1
    <3> QED BY <1>1, <2>1, <2>2, <3>2, <3>3
  <2> QED BY <2>3, <2>4
<1>9. Given' \subseteq Published'
  BY <1>3 DEF ConservedOK, Given, Enters
<1>10. ASSUME NEW i \in 1 .. Len(actions') PROVE actions'[i] \in Published'
  <2>1. CASE i <= Len(Kept)
    <3>0. Len(actions) \in Nat /\ Len(Kept) \in Nat
      BY <1>2 DEF TypeOK
    <3>1. i \in 1 .. Len(actions)
      <4>1. i \in Nat /\ i >= 1
        OBVIOUS
      <4> QED BY <1>2, <2>1, <3>0, <4>1
    <3>2. actions'[i] = actions[i]
      <4>1. ~(i > Len(Kept))
        BY <2>1, <3>0
      <4> QED BY <1>2, <4>1
    <3> QED BY <1>3, <3>1, <3>2 DEF ConservedOK, Queued
  <2>2. CASE i > Len(Kept)
    <3>1. i - Len(Kept) \in 1 .. chunk.size
      BY <1>1, <1>2, <2>2
    <3>2. actions'[i] = [seq |-> chunk.seq, index |-> (i - Len(Kept)) - 1]
      BY <1>2, <2>2
    <3>3. actions'[i] = ActionsOf(chunk)[i - Len(Kept)]
      BY <3>1, <3>2 DEF ActionsOf
    <3> QED BY <1>3, <3>1, <3>3 DEF Slots
  <2> QED BY <1>2, <2>1, <2>2
<1>11. Queued' \subseteq Published'
  BY <1>10 DEF Queued
<1>12. \A a \in Published' : a.seq \in Nat /\ a.seq <= latest'
  BY <1>1, <1>3, <1>4, <1>5
<1> QED BY <1>3, <1>7, <1>8, <1>9, <1>11, <1>12 DEF ConservedOK

\* An action that leaves the queue is served instead.
LEMMA ConservedOnLeave ==
  ASSUME TypeOK, ConservedOK, NEW g \in Getters, Leaves(g)
  PROVE  ConservedOK'
<1>1. /\ Len(actions) \in Nat /\ Len(actions) >= 1 /\ Len(actions') = Len(actions) - 1
      /\ \A i \in 1 .. Len(actions') : actions'[i] = actions[i + 1]
      /\ got'[g] = actions[1] /\ \A h \in Getters \ {g} : got'[h] = got[h]
  BY LeavesQueue
<1>2. Published' = Published /\ latest' = latest
  BY DEF Published, Leaves
<1>3. served' + replaced' + Len(actions') = served + replaced + Len(actions)
  BY <1>1 DEF Leaves, TypeOK
<1>4. Queued' \subseteq Queued
  <2> SUFFICES ASSUME NEW i \in 1 .. Len(actions') PROVE actions'[i] \in Queued
    BY DEF Queued
  <2>1. i + 1 \in 1 .. Len(actions)
    BY <1>1
  <2> QED BY <1>1, <2>1 DEF Queued
<1>5. Given' \subseteq Given \cup Queued
  <2>1. 1 \in 1 .. Len(actions)
    BY <1>1
  <2> QED BY <1>1, <2>1 DEF Given, Queued
<1> QED BY <1>2, <1>3, <1>4, <1>5 DEF ConservedOK

\* Actions are told apart by their place in the stream.
LEMMA QueuedApart ==
  ASSUME TypeOK, InOrder
  PROVE  Cardinality(Queued) = Len(actions) /\ Given \cap Queued = {}
<1>1. /\ Len(actions) \in Nat
      /\ \A i \in 1 .. Len(actions) : actions[i] \in Action
  BY DEF TypeOK
<1>2. \A i, j \in 1 .. Len(actions) : actions[i] = actions[j] => i = j
  <2> SUFFICES ASSUME NEW i \in 1 .. Len(actions), NEW j \in 1 .. Len(actions),
                      actions[i] = actions[j]
               PROVE  i = j
    OBVIOUS
  <2>1. ~(i < j) /\ ~(j < i)
    BY <1>1, PrecedesOrder DEF InOrder
  <2> QED BY <1>1, <2>1
<1>3. Cardinality(Queued) = Len(actions)
  <2>1. \A a : a \in Queued <=> \E i \in 1 .. Len(actions) : a = actions[i]
    BY DEF Queued
  <2> QED BY <1>1, <1>2, <2>1, ImageSize
<1>4. Given \cap Queued = {}
  <2> SUFFICES ASSUME NEW g \in Getters, got[g] # None, NEW i \in 1 .. Len(actions),
                      got[g] = actions[i]
               PROVE  FALSE
    BY DEF Given, Queued
  <2> QED BY <1>1, PrecedesOrder DEF InOrder
<1> QED BY <1>3, <1>4

\* Every published action was served or replaced or is still queued, and none is
\* two of these; close() takes none away (_put_locked(), _pop_locked(), close()).
THEOREM NothingIsLost == Spec => []ActionsConserved
<1>1. Init => ConservedOK
  <2> SUFFICES ASSUME Init PROVE ConservedOK
    OBVIOUS
  <2>1. Published = {} /\ Given = {}
    BY DEF Init, Published, Accepted, Given
  <2>2. Len(actions) = 0 /\ Queued = {}
    BY DEF Init, Queued
  <2>3. served = 0 /\ replaced = 0
    BY DEF Init
  <2> QED BY <2>1, <2>2, <2>3, FS_EmptySet DEF ConservedOK, Counted
<1>2. IInv /\ ConservedOK /\ [Next]_vars => ConservedOK'
  <2> SUFFICES ASSUME IInv, ConservedOK, [Next]_vars PROVE ConservedOK'
    OBVIOUS
  <2>1. TypeOK /\ Answered
    BY DEF IInv
  <2>2. CASE UNCHANGED <<actions, latest, got, sent, served, replaced>> /\ Accepted' = Accepted
    <3>1. Published' = Published /\ Given' = Given /\ Queued' = Queued
      BY <2>2 DEF Published, Given, Queued
    <3> QED BY <2>2, <3>1 DEF ConservedOK
  <2> QED BY <2>1, <2>2, StreamStep, ConservedOnEnter, ConservedOnLeave
<1>3. IInv /\ ConservedOK => ActionsConserved
  BY QueuedApart DEF IInv, ConservedOK, Counted, ActionsConserved
<1> QED BY <1>1, <1>2, <1>3, Invariant, PTL DEF Spec
=============================================================================
